--------------------------- MODULE RequestTextProofs --------------------------
(***************************************************************************)
(* What the pure functions of the port compute, for every text: header     *)
(* names, addresses, paths, logged messages and quoted values of any       *)
(* length over all 256 bytes.                                              *)
(*                                                                         *)
(* The functions are loops.  LoopExists turns one into a function of the   *)
(* turn that satisfies its equation, and Induction, which is about a set   *)
(* of good turns, carries a fact from the first turn to the last.          *)
(***************************************************************************)
EXTENDS RequestText, FiniteSetTheorems, SequenceTheorems, TLAPS

Text == Seq(Byte)
-------------------------------------------------------------------------------
(* Numbers *)

LEMMA Least ==
  ASSUME NEW T, T \subseteq Nat, T # {}
  PROVE  \E m \in T : \A n \in T : m <= n
<1>1. PICK x \in T : \A y \in T : ~(<<y, x>> \in OpToRel(<, Nat))
  BY NatLessThanWellFounded, WFMin
<1>2. \A y \in T : ~(y < x)
  BY <1>1 DEF OpToRel
<1> QED BY <1>2

LEMMA MinIsLeast ==
  ASSUME NEW T, T \subseteq Nat, T # {}
  PROVE  Min(T) \in T /\ \A n \in T : Min(T) <= n
BY Least DEF Min

LEMMA MaxIsGreatest ==
  ASSUME NEW b \in Nat, NEW T, T \subseteq 0..b, T # {}
  PROVE  Max(T) \in T /\ \A n \in T : n <= Max(T)
<1> DEFINE U == {m \in 0..b : b - m \in T}
<1>1. U \subseteq Nat /\ U # {}
  <2>1. PICK t \in T : TRUE
    OBVIOUS
  <2>2. b - t \in 0..b /\ b - (b - t) = t
    BY <2>1
  <2> QED BY <2>2
<1>2. PICK m \in U : \A n \in U : m <= n
  <2> HIDE DEF U
  <2> QED BY <1>1, Least
<1>3. \A n \in T : n <= b - m
  <2> TAKE n \in T
  <2>1. b - n \in U
    <3>1. n \in 0..b
      OBVIOUS
    <3>2. b - n \in 0..b /\ b - (b - n) = n
      BY <3>1
    <3> QED BY <3>2
  <2>2. m <= b - n
    BY <2>1, <1>2
  <2> QED BY <2>2
<1>4. b - m \in T
  BY <1>2
<1> QED BY <1>3, <1>4 DEF Max

\* What holds of 0 and is inherited by every next number holds up to N.
LEMMA Induction ==
  ASSUME NEW N \in Nat, NEW G, 0 \in G, \A n \in 1..N : n - 1 \in G => n \in G
  PROVE  0..N \subseteq G
<1> DEFINE Bad == {n \in 0..N : n \notin G}
<1> SUFFICES ASSUME Bad # {} PROVE FALSE
  OBVIOUS
<1>1. Bad \subseteq 0..N /\ Bad \subseteq Nat
  OBVIOUS
<1>2. PICK m \in Bad : \A n \in Bad : m <= n
  <2> HIDE DEF Bad
  <2> QED BY <1>1, Least
<1>3. m # 0 /\ m \in 1..N
  BY <1>1, <1>2
<1>4. m - 1 \in 0..N /\ ~(m <= m - 1)
  BY <1>3
<1>5. m - 1 \in G
  BY <1>2, <1>4
<1> QED BY <1>2, <1>3, <1>5
-------------------------------------------------------------------------------
(* Loops *)

Turns(S, N) == [S \X (1..N) -> S]

\* f has the states of the loop, from the first to the last.
IsLoop(f, S, N, b, turn) ==
  /\ f \in [0..N -> S]
  /\ f = [n \in 0..N |-> IF n = 0 THEN b ELSE turn[<<f[n - 1], n>>]]
  /\ f[0] = b
  /\ \A n \in 1..N : f[n] = turn[<<f[n - 1], n>>]

LEMMA LoopExists ==
  ASSUME NEW S, NEW N \in Nat, NEW b \in S, NEW turn \in Turns(S, N)
  PROVE  \E f : IsLoop(f, S, N, b, turn)
<1> DEFINE Good(m) == \E f \in [0..m -> S] : /\ f[0] = b
                                             /\ \A n \in 1..m : f[n] = turn[<<f[n - 1], n>>]
           G == {m \in 0..N : Good(m)}
<1>1. Good(0)
  <2> DEFINE f == [n \in 0..0 |-> b]
  <2>1. f \in [0..0 -> S] /\ f[0] = b /\ \A n \in 1..0 : f[n] = turn[<<f[n - 1], n>>]
    OBVIOUS
  <2> QED BY <2>1
<1>2. ASSUME NEW m \in 1..N, Good(m - 1) PROVE Good(m)
  <2>1. PICK f \in [0..(m - 1) -> S] : /\ f[0] = b
                                       /\ \A n \in 1..(m - 1) : f[n] = turn[<<f[n - 1], n>>]
    BY <1>2
  <2> DEFINE last == turn[<<f[m - 1], m>>]
             g == [n \in 0..m |-> IF n = m THEN last ELSE f[n]]
  <2>2. last \in S
    <3>1. m - 1 \in 0..(m - 1) /\ m \in 1..N
      OBVIOUS
    <3>2. <<f[m - 1], m>> \in S \X (1..N)
      BY <3>1
    <3> QED BY <3>2 DEF Turns
  <2> HIDE DEF last
  <2>3. g \in [0..m -> S]
    BY <2>2
  <2>4. \A n \in 0..(m - 1) : g[n] = f[n]
    OBVIOUS
  <2>5. g[m] = last
    OBVIOUS
  <2> HIDE DEF g
  <2>6. \A n \in 1..m : g[n] = turn[<<g[n - 1], n>>]
    <3> TAKE n \in 1..m
    <3>1. n - 1 \in 0..(m - 1) /\ g[n - 1] = f[n - 1]
      BY <2>4
    <3>2. CASE n = m
      BY <3>1, <3>2, <2>5 DEF last
    <3>3. CASE n # m
      <4>1. n \in 1..(m - 1) /\ n \in 0..(m - 1)
        BY <3>3
      <4> QED BY <4>1, <3>1, <2>1, <2>4
    <3> QED BY <3>2, <3>3
  <2>7. 0 \in 0..(m - 1)
    OBVIOUS
  <2> QED BY <2>1, <2>3, <2>4, <2>6, <2>7
<1> HIDE DEF Good
<1>3. 0 \in G
  BY <1>1
<1>4. \A n \in 1..N : n - 1 \in G => n \in G
  BY <1>2
<1>5. N \in G
  <2> HIDE DEF G
  <2> QED BY <1>3, <1>4, Induction
<1>6. PICK f \in [0..N -> S] : f[0] = b /\ \A n \in 1..N : f[n] = turn[<<f[n - 1], n>>]
  BY <1>5 DEF Good
<1>7. f = [n \in 0..N |-> IF n = 0 THEN b ELSE turn[<<f[n - 1], n>>]]
  BY <1>6
<1>8. IsLoop(f, S, N, b, turn)
  BY <1>6, <1>7 DEF IsLoop
<1> QED BY <1>8
-------------------------------------------------------------------------------
(* Sequences *)

LEMMA FunctionIsSeq ==
  ASSUME NEW S, NEW n \in Nat, NEW g \in [1..n -> S]
  PROVE  g \in Seq(S) /\ Len(g) = n
OBVIOUS

LEMMA AppendFunction ==
  ASSUME NEW S, NEW n \in Nat, n > 0, NEW g \in [1..n -> S], NEW s \in Seq(S),
         Len(s) = n - 1, \A i \in 1..(n - 1) : s[i] = g[i]
  PROVE  Append(s, g[n]) = g
<1>1. g \in Seq(S) /\ Len(g) = n /\ g[n] \in S
  BY FunctionIsSeq
<1>2. /\ Append(s, g[n]) \in Seq(S) /\ Len(Append(s, g[n])) = n
      /\ \A i \in 1..(n - 1) : Append(s, g[n])[i] = s[i]
      /\ Append(s, g[n])[n] = g[n]
  BY <1>1, AppendProperties
<1>3. \A i \in 1..n : Append(s, g[n])[i] = g[i]
  BY <1>2
<1> QED BY <1>1, <1>2, <1>3, SeqEqual
-------------------------------------------------------------------------------
(* Header names *)

LEMMA CaseOfByte ==
  ASSUME NEW b \in Byte
  PROVE  /\ ToUpper(b) \in Byte /\ ToLower(b) \in Byte
         /\ ToUpper(b) = Dash <=> b = Dash
         /\ ToLower(b) = Dash <=> b = Dash
         /\ ToUpper(ToUpper(b)) = ToUpper(b) /\ ToUpper(ToLower(b)) = ToUpper(b)
         /\ ToLower(ToUpper(b)) = ToLower(b) /\ ToLower(ToLower(b)) = ToLower(b)
BY DEF Byte, ToUpper, ToLower, IsUpper, IsLower, Dash

LEMMA CaseOfFieldByte ==
  ASSUME NEW b \in Byte, is_header_field_byte(b)
  PROVE  is_header_field_byte(ToUpper(b)) /\ is_header_field_byte(ToLower(b))
BY DEF Byte, ToUpper, ToLower, IsUpper, IsLower, IsDigit, IsAlphanumeric, is_header_field_byte

\* The byte of a canonical name at position i.
CanonicalByte(t, i) == IF i = 1 \/ t[i - 1] = Dash THEN ToUpper(t[i]) ELSE ToLower(t[i])

LEMMA CanonicalByteType ==
  ASSUME NEW t \in Text, NEW i \in 1..Len(t)
  PROVE  /\ t[i] \in Byte /\ CanonicalByte(t, i) \in Byte
         /\ CanonicalByte(t, i) = Dash <=> t[i] = Dash
         /\ ToUpper(CanonicalByte(t, i)) = ToUpper(t[i])
         /\ ToLower(CanonicalByte(t, i)) = ToLower(t[i])
<1>1. t[i] \in Byte
  BY DEF Text
<1> QED BY <1>1, CaseOfByte DEF CanonicalByte

\* The loop of canonical_mime_header_name.
LEMMA MimeLoop ==
  ASSUME NEW t \in Text, \A i \in 1..Len(t) : is_header_field_byte(t[i])
  PROVE  canonical_mime_header_name(t) = [i \in 1..Len(t) |-> CanonicalByte(t, i)]
<1> DEFINE N == Len(t)
           Push(canonical, i) ==
             Append(canonical, IF canonical = <<>> \/ Last(canonical) = Dash
                               THEN ToUpper(t[i]) ELSE ToLower(t[i]))
           turn == [p \in Text \X (1..N) |-> Push(p[1], p[2])]
           f == CHOOSE g : g = [k \in 0..N |-> IF k = 0 THEN <<>> ELSE Push(g[k - 1], k)]
           Done(n) == [i \in 1..n |-> CanonicalByte(t, i)]
<1>1. N \in Nat /\ DOMAIN t = 1..N /\ \A i \in 1..N : t[i] \in Byte
  BY DEF Text
<1>2. ASSUME NEW s \in Text, NEW i \in 1..N PROVE Push(s, i) \in Text
  BY <1>1, CaseOfByte DEF Text
<1>3. turn \in Turns(Text, N)
  BY <1>2 DEF Turns
<1>4. \E g : g = [k \in 0..N |-> IF k = 0 THEN <<>> ELSE Push(g[k - 1], k)]
  <2>1. <<>> \in Text
    BY DEF Text
  <2>2. PICK g \in [0..N -> Text] :
               g = [k \in 0..N |-> IF k = 0 THEN <<>> ELSE turn[<<g[k - 1], k>>]]
    <3> HIDE DEF turn, N
    <3>1. PICK g : IsLoop(g, Text, N, <<>>, turn)
      BY <1>1, <1>3, <2>1, LoopExists
    <3> QED BY <3>1 DEF IsLoop
  <2>3. \A k \in 0..N : k # 0 => turn[<<g[k - 1], k>>] = Push(g[k - 1], k)
    <3> TAKE k \in 0..N
    <3> HAVE k # 0
    <3>1. <<g[k - 1], k>> \in Text \X (1..N)
      BY <1>1
    <3> HIDE DEF Push
    <3> QED BY <3>1
  <2> HIDE DEF turn, Push
  <2> QED BY <2>2, <2>3
<1>5. f = [k \in 0..N |-> IF k = 0 THEN <<>> ELSE Push(f[k - 1], k)]
  <2> HIDE DEF Push, N
  <2> QED BY <1>4, Zenon
<1>6. canonical_mime_header_name(t) = f[N]
  <2>1. ~\E i \in DOMAIN t : ~valid_header_field_byte(t[i])
    BY <1>1 DEF is_header_field_byte, valid_header_field_byte
  <2> QED BY <2>1, Zenon DEF canonical_mime_header_name, Loop
<1> HIDE DEF f
<1>7. f[0] = <<>> /\ \A k \in 1..N : f[k] = Push(f[k - 1], k)
  <2> HIDE DEF Push
  <2> QED BY <1>1, <1>5
<1> DEFINE G == {n \in 0..N : f[n] = Done(n)}
<1>8. 0 \in G
  BY <1>1, <1>7
<1>9. ASSUME NEW n \in 1..N, n - 1 \in G PROVE n \in G
  <2> DEFINE d == Done(n - 1)
  <2>1. f[n] = Push(d, n)
    BY <1>7, <1>9
  <2>2. d \in Text /\ Len(d) = n - 1 /\ \A i \in 1..(n - 1) : d[i] = CanonicalByte(t, i)
    BY <1>1, CanonicalByteType DEF Text
  <2>3. (d = <<>> \/ Last(d) = Dash) <=> (n = 1 \/ t[n - 1] = Dash)
    <3>1. CASE n = 1
      BY <3>1
    <3>2. CASE n # 1
      <4>1. n - 1 \in 1..(n - 1) /\ n - 1 \in 1..N
        BY <3>2, <1>1
      <4>2. Last(d) = CanonicalByte(t, n - 1) /\ d # <<>>
        BY <4>1, <2>2 DEF Last
      <4> QED BY <3>2, <4>1, <4>2, CanonicalByteType
    <3> QED BY <3>1, <3>2
  <2>4. Push(d, n) = Append(d, CanonicalByte(t, n))
    BY <2>3 DEF CanonicalByte
  <2>5. Append(d, CanonicalByte(t, n)) = Done(n)
    <3>1. Done(n) \in [1..n -> Byte] /\ Done(n)[n] = CanonicalByte(t, n)
      BY <1>1, CanonicalByteType
    <3>2. \A i \in 1..(n - 1) : d[i] = Done(n)[i]
      BY <2>2
    <3> HIDE DEF d, Done
    <3> QED BY <2>2, <3>1, <3>2, AppendFunction DEF Text
  <2>6. f[n] = Done(n) /\ n \in 0..N
    <3> HIDE DEF d, Done, Push
    <3> QED BY <2>1, <2>4, <2>5, <1>1
  <2> QED BY <2>6
<1>10. N \in G
  <2> HIDE DEF G, N
  <2> QED BY <1>1, <1>8, <1>9, Induction
<1> QED BY <1>6, <1>10

ValidName(t) == \A i \in 1..Len(t) : is_header_field_byte(t[i])

LEMMA CanonicalName ==
  ASSUME NEW t \in Text
  PROVE  /\ canonical_header_name(t) =
              IF ValidName(t) THEN [i \in 1..Len(t) |-> CanonicalByte(t, i)] ELSE t
         /\ canonical_header_name(t) \in Text
         /\ Len(canonical_header_name(t)) = Len(t)
<1>1. DOMAIN t = 1..Len(t) /\ Len(t) \in Nat
  BY DEF Text
<1>2. canonical_header_name(t) =
        IF ValidName(t) THEN [i \in 1..Len(t) |-> CanonicalByte(t, i)] ELSE t
  BY <1>1 DEF canonical_header_name, ValidName, CanonicalByte
<1>3. [i \in 1..Len(t) |-> CanonicalByte(t, i)] \in [1..Len(t) -> Byte]
  BY CanonicalByteType
<1> QED BY <1>1, <1>2, <1>3, FunctionIsSeq DEF Text

\* Texts that differ only in case have the same canonical form.
LEMMA CanonicalForm ==
  ASSUME NEW s \in Text, NEW t \in Text, ValidName(s), ValidName(t), Len(s) = Len(t),
         \A i \in 1..Len(s) : ToLower(s[i]) = ToLower(t[i])
  PROVE  canonical_header_name(s) = canonical_header_name(t)
<1>1. \A i \in 1..Len(s) : /\ s[i] \in Byte /\ t[i] \in Byte
                           /\ ToUpper(s[i]) = ToUpper(t[i]) /\ ToLower(s[i]) = ToLower(t[i])
                           /\ s[i] = Dash <=> t[i] = Dash
  <2> TAKE i \in 1..Len(s)
  <2>1. s[i] \in Byte /\ t[i] \in Byte /\ ToLower(s[i]) = ToLower(t[i])
    BY DEF Text
  <2> QED BY <2>1, CaseOfByte
<1>2. \A i \in 1..Len(s) : CanonicalByte(s, i) = CanonicalByte(t, i)
  <2> TAKE i \in 1..Len(s)
  <2>1. CASE i = 1
    BY <2>1, <1>1 DEF CanonicalByte
  <2>2. CASE i # 1
    <3>1. i - 1 \in 1..Len(s) /\ i \in 1..Len(s)
      BY <2>2 DEF Text
    <3> QED BY <2>2, <3>1, <1>1 DEF CanonicalByte
  <2> QED BY <2>1, <2>2
<1> QED BY <1>2, CanonicalName

LEMMA NamesAgree ==
  ASSUME NEW t \in Text
  PROVE  /\ canonical_header_name(t) = canonical_mime_header_name(t)
         /\ canonical_header_name(canonical_header_name(t)) = canonical_header_name(t)
         /\ ValidName(t) => canonical_header_name(Uppercase(t)) = canonical_header_name(Lowercase(t))
<1>1. DOMAIN t = 1..Len(t) /\ Len(t) \in Nat /\ \A i \in 1..Len(t) : t[i] \in Byte
  BY DEF Text
<1> DEFINE c == canonical_header_name(t)
<1>2. CASE ~ValidName(t)
  <2>1. canonical_mime_header_name(t) = t
    BY <1>1, <1>2 DEF canonical_mime_header_name, ValidName, is_header_field_byte,
                      valid_header_field_byte
  <2> QED BY <1>2, <2>1, CanonicalName
<1>3. CASE ValidName(t)
  <2>1. c = [i \in 1..Len(t) |-> CanonicalByte(t, i)] /\ c \in Text /\ Len(c) = Len(t)
    BY <1>3, CanonicalName
  <2>2. canonical_mime_header_name(t) = c
    BY <1>3, <2>1, MimeLoop DEF ValidName
  <2>3. ValidName(c)
    BY <1>1, <1>3, <2>1, CaseOfFieldByte DEF ValidName, CanonicalByte
  <2>4. canonical_header_name(c) = c
    <3>1. \A i \in 1..Len(c) : ToLower(c[i]) = ToLower(t[i])
      BY <2>1, CanonicalByteType
    <3> QED BY <1>3, <2>1, <2>3, <3>1, CanonicalForm
  <2>5. canonical_header_name(Uppercase(t)) = canonical_header_name(Lowercase(t))
    <3> DEFINE u == Uppercase(t)
               l == Lowercase(t)
    <3>1. u \in [1..Len(t) -> Byte] /\ l \in [1..Len(t) -> Byte]
      BY <1>1, CaseOfByte DEF Uppercase, Lowercase
    <3>2. u \in Text /\ l \in Text /\ Len(u) = Len(t) /\ Len(l) = Len(t)
      BY <1>1, <3>1, FunctionIsSeq DEF Text
    <3>3. \A i \in 1..Len(t) : u[i] = ToUpper(t[i]) /\ l[i] = ToLower(t[i])
      BY <1>1 DEF Uppercase, Lowercase
    <3> HIDE DEF u, l
    <3>4. ValidName(u) /\ ValidName(l)
      BY <1>1, <1>3, <3>2, <3>3, CaseOfFieldByte DEF ValidName
    <3>5. \A i \in 1..Len(u) : ToLower(u[i]) = ToLower(l[i])
      BY <1>1, <3>2, <3>3, CaseOfByte
    <3>6. canonical_header_name(u) = canonical_header_name(l)
      BY <3>2, <3>4, <3>5, CanonicalForm
    <3> QED BY <3>6 DEF u, l
  <2> QED BY <2>2, <2>4, <2>5
<1> QED BY <1>2, <1>3

\* The first element that satisfies a test is the least position of one.
LEMMA FirstNul ==
  ASSUME NEW s \in Text
  PROVE  /\ Nul \notin Range(s) => CString(s) = s
         /\ \A n \in 0..Len(s) :
              /\ \A i \in 1..n : s[i] # Nul
              /\ n < Len(s) /\ s[n + 1] = Nul
              => CString(s) = SubSeq(s, 1, n)
<1>1. Nul \notin Range(s) => CString(s) = s
  BY DEF CString
<1>2. ASSUME NEW n \in 0..Len(s), \A i \in 1..n : s[i] # Nul, n < Len(s), s[n + 1] = Nul
      PROVE  CString(s) = SubSeq(s, 1, n)
  <2> DEFINE I == {i \in 1..Len(s) : s[i] = Nul}
  <2>1. Len(s) \in Nat /\ DOMAIN s = 1..Len(s) /\ n + 1 \in 1..Len(s)
    BY <1>2 DEF Text
  <2>2. I \subseteq Nat /\ n + 1 \in I
    BY <1>2, <2>1
  <2>3. \A i \in I : n + 1 <= i
    BY <1>2, <2>1
  <2>4. I # {} /\ Min(I) = n + 1
    <3>1. Min(I) \in I /\ \A i \in I : Min(I) <= i
      <4> HIDE DEF I
      <4> QED BY <2>2, MinIsLeast
    <3> HIDE DEF I
    <3>2. Min(I) \in Nat /\ Min(I) <= n + 1 /\ n + 1 <= Min(I)
      BY <2>2, <2>3, <3>1
    <3> QED BY <2>1, <2>2, <3>2
  <2>5. SelectInSeq(s, LAMBDA b : b = Nul) = n + 1
    BY <2>4 DEF SelectInSeq
  <2>6. Nul \in Range(s)
    BY <1>2, <2>1 DEF Range
  <2>7. CString(s) = SubSeq(s, 1, (n + 1) - 1)
    BY <2>5, <2>6 DEF CString
  <2>8. (n + 1) - 1 = n
    BY <2>1
  <2> QED BY <2>7, <2>8
<1> QED BY <1>1, <1>2

LEMMA PrefixOfConcat ==
  ASSUME NEW S, NEW s \in Seq(S), NEW u \in Seq(S), NEW n \in 0..Len(s)
  PROVE  SubSeq(s \o u, 1, n) = SubSeq(s, 1, n)
<1>1. CASE n = 0
  BY <1>1, SubSeqEmpty
<1>2. CASE n # 0
  BY <1>2, SubSeqOfConcat1
<1> QED BY <1>1, <1>2

\* A terminator after the text changes nothing for C.
LEMMA TerminatedText ==
  ASSUME NEW m \in Text
  PROVE  CString(m \o <<Nul>>) = CString(m)
<1> DEFINE s == m \o <<Nul>>
<1>1. <<Nul>> \in Text /\ Len(<<Nul>>) = 1 /\ <<Nul>>[1] = Nul
  BY DEF Text, Byte, Nul
<1>2. /\ Len(m) \in Nat /\ DOMAIN m = 1..Len(m) /\ s \in Text /\ Len(s) = Len(m) + 1
      /\ \A i \in 1..Len(m) : s[i] = m[i]
      /\ s[Len(m) + 1] = Nul
  BY <1>1, ConcatProperties DEF Text
<1>3. \A n \in 0..Len(m) : SubSeq(s, 1, n) = SubSeq(m, 1, n)
  BY <1>1, PrefixOfConcat DEF Text
<1> HIDE DEF s
<1>4. CASE Nul \in Range(m)
  <2> DEFINE I == {i \in 1..Len(m) : m[i] = Nul}
  <2>1. I \subseteq 1..Len(m) /\ I \subseteq Nat /\ I # {}
    BY <1>2, <1>4 DEF Range
  <2>2. PICK k \in I : \A i \in I : k <= i
    <3> HIDE DEF I
    <3> QED BY <2>1, Least
  <2> DEFINE n == k - 1
  <2>3. /\ n \in 0..Len(m) /\ n < Len(m) /\ n + 1 = k /\ m[k] = Nul
        /\ n \in 0..Len(s) /\ n < Len(s) /\ s[k] = Nul
    BY <1>2, <2>2
  <2>4. \A i \in 1..n : m[i] # Nul /\ s[i] # Nul
    <3> TAKE i \in 1..n
    <3>1. i \in 1..Len(m) /\ ~(k <= i)
      BY <1>2, <2>2
    <3>2. i \notin I
      <4> HIDE DEF I
      <4> QED BY <2>2, <3>1
    <3> QED BY <3>1, <3>2, <1>2
  <2> HIDE DEF I, n
  <2>5. CString(m) = SubSeq(m, 1, n)
    BY <2>3, <2>4, FirstNul
  <2>6. CString(s) = SubSeq(s, 1, n)
    BY <1>2, <2>3, <2>4, FirstNul
  <2> QED BY <1>3, <2>3, <2>5, <2>6 DEF s
<1>5. CASE Nul \notin Range(m)
  <2>1. \A i \in 1..Len(m) : s[i] # Nul
    BY <1>2, <1>5 DEF Range
  <2>2. Len(m) \in 0..Len(s) /\ Len(m) < Len(s) /\ Len(m) \in 0..Len(m)
    BY <1>2
  <2>3. CString(s) = SubSeq(s, 1, Len(m))
    BY <1>2, <2>1, <2>2, FirstNul
  <2>4. SubSeq(m, 1, Len(m)) = m
    BY SubSeqFull DEF Text
  <2> QED BY <1>3, <1>5, <2>2, <2>3, <2>4, FirstNul DEF s
<1> QED BY <1>4, <1>5

LEMMA MangledName ==
  ASSUME NEW t \in Text
  PROVE  /\ mangle_header_name(t) \in Text
         /\ mangle_header_name(canonical_header_name(t)) = mangle_header_name(t)
<1> DEFINE c == canonical_header_name(t)
           Mangled(u) == [i \in DOMAIN u |-> IF u[i] = Dash THEN Underscore ELSE ToUpper(u[i])]
<1>1. DOMAIN t = 1..Len(t) /\ Len(t) \in Nat /\ \A i \in 1..Len(t) : t[i] \in Byte
  BY DEF Text
<1>2. Mangled(t) \in [1..Len(t) -> Byte]
  <2>1. Underscore \in Byte
    BY DEF Byte, Underscore
  <2>2. \A i \in 1..Len(t) : ToUpper(t[i]) \in Byte
    BY <1>1, CaseOfByte
  <2> QED BY <1>1, <2>1, <2>2
<1>3. HttpPrefix \in Text
  BY DEF HttpPrefix, Text, Byte
<1>4. mangle_header_name(t) \in Text
  <2>1. mangle_header_name(t) = HttpPrefix \o Mangled(t)
    BY DEF mangle_header_name
  <2>2. Mangled(t) \in Text
    BY <1>1, <1>2, FunctionIsSeq DEF Text
  <2> HIDE DEF Mangled
  <2> QED BY <1>3, <2>1, <2>2, ConcatProperties DEF Text
<1>5. Mangled(c) = Mangled(t)
  <2>1. c \in Text /\ Len(c) = Len(t) /\ DOMAIN c = DOMAIN t
    BY <1>1, CanonicalName DEF Text
  <2>2. \A i \in 1..Len(t) : ToUpper(c[i]) = ToUpper(t[i]) /\ (c[i] = Dash <=> t[i] = Dash)
    BY CanonicalName, CanonicalByteType
  <2> HIDE DEF c
  <2> QED BY <1>1, <2>1, <2>2
<1>6. mangle_header_name(c) = HttpPrefix \o Mangled(c) /\ mangle_header_name(t) = HttpPrefix \o Mangled(t)
  BY DEF mangle_header_name
<1> HIDE DEF Mangled
<1> QED BY <1>4, <1>5, <1>6

LEMMA OneVariable ==
  ASSUME NEW t \in Text
  PROVE  /\ common_header_var(t) \in {<<>>, mangle_header_name(t)}
         /\ CString(uncommon_header_key(t)) = CString(mangle_header_name(t))
<1>1. CString(uncommon_header_key(t)) = CString(mangle_header_name(t))
  BY MangledName, TerminatedText DEF uncommon_header_key
<1>2. common_header_var(t) \in {<<>>, mangle_header_name(canonical_header_name(t))}
  BY NamesAgree DEF common_header_var, lookup_common_header, COMMON_HEADERS
<1> QED BY <1>1, <1>2, MangledName
-------------------------------------------------------------------------------
(* Addresses *)

LEMMA ColonPositions ==
  ASSUME NEW t \in Text, NEW byte
  PROVE  /\ Len(t) \in Nat /\ DOMAIN t = 1..Len(t)
         /\ Positions(t, byte) \subseteq 1..Len(t)
         /\ \A i \in 1..Len(t) : i \in Positions(t, byte) <=> t[i] = byte
         /\ Positions(t, byte) # {} =>
              /\ Max(Positions(t, byte)) \in Positions(t, byte)
              /\ \A i \in Positions(t, byte) : i <= Max(Positions(t, byte))
              /\ Min(Positions(t, byte)) \in Positions(t, byte)
              /\ \A i \in Positions(t, byte) : Min(Positions(t, byte)) <= i
<1> DEFINE P == Positions(t, byte)
<1>1. Len(t) \in Nat /\ DOMAIN t = 1..Len(t)
  BY DEF Text
<1>2. P \subseteq 1..Len(t) /\ \A i \in 1..Len(t) : i \in P <=> t[i] = byte
  BY <1>1 DEF Positions
<1>3. P \subseteq Nat /\ P \subseteq 0..Len(t)
  BY <1>1, <1>2
<1> HIDE DEF P
<1>4. P # {} => /\ Max(P) \in P /\ \A i \in P : i <= Max(P)
                /\ Min(P) \in P /\ \A i \in P : Min(P) <= i
  BY <1>1, <1>3, MaxIsGreatest, MinIsLeast
<1> QED BY <1>1, <1>2, <1>4 DEF P

\* A text without brackets and with one colon is read as host:port.
PlainAt(t, n) ==
  /\ n \in 1..Len(t) /\ t[n] = Colon
  /\ \A i \in 1..Len(t) : i # n => t[i] # Colon
  /\ \A i \in 1..Len(t) : t[i] # OpenBracket /\ t[i] # CloseBracket

\* One that begins with a bracketed host and has a colon right after it, and no other colon
\* or bracket behind, is read as [host]:port.
BracketedAt(t, n) ==
  /\ n \in 3..Len(t) /\ t[1] = OpenBracket /\ t[n - 1] = CloseBracket /\ t[n] = Colon
  /\ \A i \in 2..Len(t) : t[i] # OpenBracket
  /\ \A i \in 1..Len(t) : i # n - 1 => t[i] # CloseBracket
  /\ \A i \in (n + 1)..Len(t) : t[i] # Colon

Plain(t, n) == [ok |-> TRUE, host |-> SubSeq(t, 1, n - 1), port |-> SubSeq(t, n + 1, Len(t))]
Bracketed(t, n) == [ok |-> TRUE, host |-> SubSeq(t, 2, n - 2), port |-> SubSeq(t, n + 1, Len(t))]

LEMMA Readings ==
  ASSUME NEW t \in Text
  PROVE  \A r : r \in HostPorts(t) <=> \/ \E n \in 1..Len(t) : PlainAt(t, n) /\ r = Plain(t, n)
                                       \/ \E n \in 3..Len(t) : BracketedAt(t, n) /\ r = Bracketed(t, n)
<1>1. Len(t) \in Nat /\ DOMAIN t = 1..Len(t)
  BY DEF Text
<1>2. \A n \in 1..Len(t) :
        PlainAt(t, n) <=> /\ t[n] = Colon
                          /\ {i \in DOMAIN t : t[i] = Colon} = {n}
                          /\ {OpenBracket, CloseBracket} \cap Range(t) = {}
  BY <1>1 DEF PlainAt, Range
<1>3. \A n \in 3..Len(t) :
        BracketedAt(t, n) <=>
          /\ t[1] = OpenBracket /\ t[n - 1] = CloseBracket /\ t[n] = Colon
          /\ {i \in DOMAIN t : t[i] \in {OpenBracket, CloseBracket}} = {1, n - 1}
          /\ \A i \in (n + 1)..Len(t) : t[i] # Colon
  <2> TAKE n \in 3..Len(t)
  <2> DEFINE B == {i \in DOMAIN t : t[i] \in {OpenBracket, CloseBracket}}
  <2>1. ASSUME BracketedAt(t, n) PROVE B = {1, n - 1}
    BY <1>1, <2>1 DEF BracketedAt
  <2>2. ASSUME t[1] = OpenBracket, t[n - 1] = CloseBracket, B = {1, n - 1}
        PROVE  /\ \A i \in 2..Len(t) : t[i] # OpenBracket
               /\ \A i \in 1..Len(t) : i # n - 1 => t[i] # CloseBracket
    <3>0. OpenBracket # CloseBracket
      BY DEF OpenBracket, CloseBracket
    <3>1. \A i \in 1..Len(t) : t[i] \in {OpenBracket, CloseBracket} => i = 1 \/ i = n - 1
      BY <1>1, <2>2
    <3> QED BY <1>1, <2>2, <3>0, <3>1
  <2> HIDE DEF B
  <2>3. BracketedAt(t, n) <=> /\ t[1] = OpenBracket /\ t[n - 1] = CloseBracket /\ t[n] = Colon
                              /\ B = {1, n - 1}
                              /\ \A i \in (n + 1)..Len(t) : t[i] # Colon
    BY <2>1, <2>2 DEF BracketedAt
  <2> QED BY <2>3 DEF B
<1> DEFINE P(n) == /\ t[n] = Colon
                   /\ {i \in DOMAIN t : t[i] = Colon} = {n}
                   /\ {OpenBracket, CloseBracket} \cap Range(t) = {}
           Q(n) == /\ t[1] = OpenBracket /\ t[n - 1] = CloseBracket /\ t[n] = Colon
                   /\ {i \in DOMAIN t : t[i] \in {OpenBracket, CloseBracket}} = {1, n - 1}
                   /\ \A i \in (n + 1)..Len(t) : t[i] # Colon
<1>4. HostPorts(t) = {Plain(t, n) : n \in {n \in DOMAIN t : P(n)}}
                     \cup {Bracketed(t, n) : n \in {n \in 3..Len(t) : Q(n)}}
  BY Zenon DEF HostPorts, Plain, Bracketed
<1> HIDE DEF P, Q
<1> QED BY <1>1, <1>2, <1>3, <1>4 DEF P, Q

\* split_host_port finds a reading exactly when there is one.
LEMMA SplitFindsTheReading ==
  ASSUME NEW t \in Text
  PROVE  /\ \A n \in 1..Len(t) : PlainAt(t, n) => split_host_port(t) = Plain(t, n)
         /\ \A n \in 3..Len(t) : BracketedAt(t, n) => split_host_port(t) = Bracketed(t, n)
         /\ \/ split_host_port(t) = NoHostPort
            \/ \E n \in 1..Len(t) : PlainAt(t, n)
            \/ \E n \in 3..Len(t) : BracketedAt(t, n)
<1> DEFINE colons == Positions(t, Colon)
           closers == Positions(t, CloseBracket)
           colon == Max(colons)
           bracketed == Head(t) = OpenBracket
           closing == Min(closers)
           host == IF bracketed THEN SubSeq(t, 2, closing - 1) ELSE SubSeq(t, 1, colon - 1)
           opened == IF bracketed THEN 2 ELSE 1
           closed == IF bracketed THEN closing + 1 ELSE 1
           bad == \/ colons = {}
                  \/ bracketed /\ (closers = {} \/ closing + 1 # colon)
                  \/ ~bracketed /\ Colon \in Range(host)
                  \/ \E i \in opened..Len(t) : t[i] = OpenBracket
                  \/ \E i \in closed..Len(t) : t[i] = CloseBracket
<1>1. split_host_port(t) = IF bad THEN NoHostPort
                           ELSE [ok |-> TRUE, host |-> host, port |-> SubSeq(t, colon + 1, Len(t))]
  BY DEF split_host_port
<1> HIDE DEF bad
<1>2. /\ Len(t) \in Nat /\ DOMAIN t = 1..Len(t)
      /\ colons \subseteq 1..Len(t) /\ \A i \in 1..Len(t) : i \in colons <=> t[i] = Colon
      /\ colons # {} => colon \in colons /\ \A i \in colons : i <= colon
      /\ closers \subseteq 1..Len(t) /\ \A i \in 1..Len(t) : i \in closers <=> t[i] = CloseBracket
      /\ closers # {} => closing \in closers /\ \A i \in closers : closing <= i
  BY ColonPositions
<1>3. Len(t) > 0 => Head(t) = t[1]
  BY DEF Text
<1>4. OpenBracket # CloseBracket /\ OpenBracket # Colon /\ CloseBracket # Colon
  BY DEF OpenBracket, CloseBracket, Colon
<1> HIDE DEF colons, closers, colon, closing
<1>5. ASSUME colons # {}
      PROVE  Colon \in Range(SubSeq(t, 1, colon - 1)) <=> \E i \in 1..(colon - 1) : t[i] = Colon
  <2> DEFINE h == SubSeq(t, 1, colon - 1)
  <2>0. Len(t) \in Nat /\ (\A i \in 1..Len(t) : t[i] \in Byte) /\ colon \in 1..Len(t)
    <3>1. Len(t) \in Nat /\ \A i \in 1..Len(t) : t[i] \in Byte
      BY DEF Text
    <3>2. colon \in 1..Len(t)
      BY <1>2, <1>5
    <3> QED BY <3>1, <3>2
  <2>1. \A i \in 1..(colon - 1) : t[i] \in Byte
    BY <2>0
  <2>2. h \in Seq(Byte) /\ Len(h) = colon - 1 /\ \A i \in 1..(colon - 1) : h[i] = t[i]
    BY <2>0, <2>1, SubSeqProperties
  <2> HIDE DEF h
  <2>3. DOMAIN h = 1..(colon - 1)
    BY <2>0, <2>2
  <2> QED BY <2>2, <2>3 DEF Range, h
<1>6. ASSUME NEW n \in 1..Len(t), PlainAt(t, n) PROVE split_host_port(t) = Plain(t, n)
  <2>1. n \in colons /\ colons # {} /\ colon = n
    BY <1>2, <1>6 DEF PlainAt
  <2>2. ~bracketed
    BY <1>2, <1>3, <1>6 DEF PlainAt
  <2>3. ~bad
    BY <1>2, <1>5, <1>6, <2>1, <2>2 DEF bad, PlainAt
  <2> QED BY <1>1, <2>1, <2>2, <2>3 DEF Plain
<1>7. ASSUME NEW n \in 3..Len(t), BracketedAt(t, n) PROVE split_host_port(t) = Bracketed(t, n)
  <2>1. n \in colons /\ colons # {} /\ colon = n
    <3>1. n \in colons /\ colons # {} /\ \A i \in (n + 1)..Len(t) : i \notin colons
      BY <1>2, <1>7 DEF BracketedAt
    <3>2. colon \in 1..Len(t) /\ n <= colon /\ colon \notin (n + 1)..Len(t)
      BY <1>2, <3>1
    <3> QED BY <3>1, <3>2
  <2>2. n - 1 \in closers /\ closers # {} /\ closing = n - 1
    <3>1. n - 1 \in 1..Len(t)
      BY <1>2
    <3> QED BY <1>2, <1>7, <3>1 DEF BracketedAt
  <2>3. bracketed
    BY <1>2, <1>3, <1>7 DEF BracketedAt
  <2>4. closing + 1 = colon /\ closing - 1 = n - 2 /\ closing + 1 = n
    BY <2>1, <2>2
  <2>5. ~bad
    BY <1>2, <1>7, <2>1, <2>2, <2>3, <2>4 DEF bad, BracketedAt
  <2> QED BY <1>1, <2>1, <2>3, <2>4, <2>5 DEF Bracketed
<1>8. ASSUME ~bad, ~bracketed PROVE \E n \in 1..Len(t) : PlainAt(t, n)
  <2>1. colons # {} /\ colon \in 1..Len(t) /\ t[colon] = Colon
    BY <1>2, <1>8 DEF bad
  <2>2. \A i \in 1..(colon - 1) : t[i] # Colon
    BY <1>5, <1>8, <2>1 DEF bad
  <2>3. \A i \in 1..Len(t) : i # colon => t[i] # Colon
    BY <1>2, <2>1, <2>2
  <2>4. \A i \in 1..Len(t) : t[i] # OpenBracket /\ t[i] # CloseBracket
    BY <1>8 DEF bad
  <2> QED BY <2>1, <2>3, <2>4 DEF PlainAt
<1>9. ASSUME ~bad, bracketed PROVE \E n \in 3..Len(t) : BracketedAt(t, n)
  <2>1. /\ colons # {} /\ colon \in 1..Len(t) /\ t[colon] = Colon
        /\ closers # {} /\ closing \in 1..Len(t) /\ t[closing] = CloseBracket /\ closing + 1 = colon
    BY <1>2, <1>9 DEF bad
  <2>2. t[1] = OpenBracket
    BY <1>3, <1>9, <2>1
  <2>3. closing = colon - 1 /\ closing # 1 /\ colon \in 3..Len(t)
    BY <1>4, <2>1, <2>2
  <2>4. \A i \in 2..Len(t) : t[i] # OpenBracket
    BY <1>9 DEF bad
  <2>5. \A i \in 1..Len(t) : i # closing => t[i] # CloseBracket
    <3>1. \A i \in (closing + 1)..Len(t) : t[i] # CloseBracket
      BY <1>9 DEF bad
    <3> QED BY <1>2, <2>1, <3>1
  <2>6. \A i \in (colon + 1)..Len(t) : t[i] # Colon
    BY <1>2, <2>1
  <2> QED BY <2>1, <2>2, <2>3, <2>4, <2>5, <2>6 DEF BracketedAt
<1> QED BY <1>1, <1>6, <1>7, <1>8, <1>9

LEMMA HostPortReading ==
  ASSUME NEW t \in Text
  PROVE  split_host_port(t) = IF HostPorts(t) = {} THEN NoHostPort
                              ELSE CHOOSE r \in HostPorts(t) : TRUE
<1>1. \A r \in HostPorts(t) : split_host_port(t) = r
  BY Readings, SplitFindsTheReading
<1>2. HostPorts(t) = {} => split_host_port(t) = NoHostPort
  BY Readings, SplitFindsTheReading
<1> QED BY <1>1, <1>2

LEMMA Stretch ==
  ASSUME NEW t \in Text, NEW m \in 1..(Len(t) + 1), NEW n \in 0..Len(t)
  PROVE  /\ SubSeq(t, m, n) \in Text
         /\ Len(SubSeq(t, m, n)) = IF m <= n THEN n - m + 1 ELSE 0
         /\ \A i \in 1..(n - m + 1) : SubSeq(t, m, n)[i] = t[m + i - 1]
<1>1. Len(t) \in Nat /\ \A i \in 1..Len(t) : t[i] \in Byte
  BY DEF Text
<1>2. \A i \in m..n : t[i] \in Byte
  BY <1>1
<1> QED BY <1>1, <1>2, SubSeqProperties DEF Text

LEMMA OneByte ==
  ASSUME NEW b \in Byte
  PROVE  <<b>> \in Text /\ Len(<<b>>) = 1 /\ <<b>>[1] = b
BY DEF Text

LEMMA JoinedTexts ==
  ASSUME NEW s \in Text, NEW t \in Text
  PROVE  /\ s \o t \in Text /\ Len(s \o t) = Len(s) + Len(t)
         /\ Len(s) \in Nat /\ Len(t) \in Nat
         /\ \A i \in 1..Len(s) : (s \o t)[i] = s[i]
         /\ \A i \in (Len(s) + 1)..(Len(s) + Len(t)) : (s \o t)[i] = t[i - Len(s)]
BY ConcatProperties DEF Text

\* A text cut at one of its bytes.
LEMMA CutAt ==
  ASSUME NEW t \in Text, NEW n \in 1..Len(t)
  PROVE  t = SubSeq(t, 1, n - 1) \o <<t[n]>> \o SubSeq(t, n + 1, Len(t))
<1> DEFINE a == SubSeq(t, 1, n - 1)
           b == <<t[n]>>
           c == SubSeq(t, n + 1, Len(t))
<1>1. Len(t) \in Nat /\ t[n] \in Byte
  BY DEF Text
<1>2. a \in Text /\ Len(a) = n - 1 /\ \A i \in 1..(n - 1) : a[i] = t[i]
  BY <1>1, Stretch
<1>3. c \in Text /\ Len(c) = Len(t) - n /\ \A i \in 1..(Len(t) - n) : c[i] = t[n + i]
  <2>1. n + 1 \in 1..(Len(t) + 1) /\ Len(t) \in 0..Len(t)
    BY <1>1
  <2>2. /\ c \in Text /\ Len(c) = IF n + 1 <= Len(t) THEN Len(t) - (n + 1) + 1 ELSE 0
        /\ \A i \in 1..(Len(t) - (n + 1) + 1) : c[i] = t[n + 1 + i - 1]
    BY <2>1, Stretch
  <2> HIDE DEF c
  <2> QED BY <1>1, <2>2
<1>4. b \in Text /\ Len(b) = 1 /\ b[1] = t[n]
  BY <1>1, OneByte
<1> HIDE DEF a, b, c
<1> DEFINE ab == a \o b
<1>5. /\ ab \in Text /\ Len(ab) = n /\ ab[n] = t[n]
      /\ \A i \in 1..(n - 1) : ab[i] = t[i]
  <2>1. /\ ab \in Text /\ Len(ab) = Len(a) + Len(b)
        /\ \A i \in 1..Len(a) : ab[i] = a[i]
        /\ \A i \in (Len(a) + 1)..(Len(a) + Len(b)) : ab[i] = b[i - Len(a)]
    BY <1>2, <1>4, JoinedTexts
  <2> HIDE DEF ab
  <2> QED BY <1>1, <1>2, <1>4, <2>1
<1> HIDE DEF ab
<1>6. /\ ab \o c \in Text /\ Len(ab \o c) = Len(t)
      /\ \A i \in 1..n : (ab \o c)[i] = ab[i]
      /\ \A i \in (n + 1)..Len(t) : (ab \o c)[i] = c[i - n]
  <2>1. Len(ab) + Len(c) = Len(t)
    BY <1>1, <1>3, <1>5
  <2>2. /\ ab \o c \in Text /\ Len(ab \o c) = Len(ab) + Len(c)
        /\ \A i \in 1..Len(ab) : (ab \o c)[i] = ab[i]
        /\ \A i \in (Len(ab) + 1)..(Len(ab) + Len(c)) : (ab \o c)[i] = c[i - Len(ab)]
    BY <1>3, <1>5, JoinedTexts
  <2> QED BY <1>5, <2>1, <2>2
<1>7. \A i \in 1..Len(t) : (ab \o c)[i] = t[i]
  <2> TAKE i \in 1..Len(t)
  <2>1. CASE i \in 1..n
    BY <1>5, <1>6, <2>1
  <2>2. CASE i \notin 1..n
    <3>1. i \in (n + 1)..Len(t) /\ i - n \in 1..(Len(t) - n) /\ n + (i - n) = i
      BY <1>1, <2>2
    <3> QED BY <1>3, <1>6, <3>1
  <2> QED BY <2>1, <2>2
<1>8. ab \o c = t
  BY <1>1, <1>6, <1>7, SeqEqual DEF Text
<1> QED BY <1>8 DEF ab, a, b, c

\* A text of at least two bytes between its first and its last.
LEMMA BetweenEnds ==
  ASSUME NEW t \in Text, Len(t) >= 2
  PROVE  /\ t = <<t[1]>> \o SubSeq(t, 2, Len(t) - 1) \o <<t[Len(t)]>>
         /\ SubSeq(t, 2, Len(t) - 1) \in Text
<1> DEFINE N == Len(t)
           a == <<t[1]>>
           b == SubSeq(t, 2, N - 1)
           c == <<t[N]>>
<1>1. N \in Nat /\ N >= 2 /\ t[1] \in Byte /\ t[N] \in Byte
  BY DEF Text
<1>2. a \in Text /\ Len(a) = 1 /\ a[1] = t[1] /\ c \in Text /\ Len(c) = 1 /\ c[1] = t[N]
  BY <1>1, OneByte
<1>3. b \in Text /\ Len(b) = N - 2 /\ \A i \in 1..(N - 2) : b[i] = t[i + 1]
  <2>1. 2 \in 1..(N + 1) /\ N - 1 \in 0..N
    BY <1>1
  <2>2. /\ b \in Text /\ Len(b) = IF 2 <= N - 1 THEN N - 1 - 2 + 1 ELSE 0
        /\ \A i \in 1..(N - 1 - 2 + 1) : b[i] = t[2 + i - 1]
    BY <2>1, Stretch
  <2> HIDE DEF b, N
  <2> QED BY <1>1, <2>2
<1> DEFINE ab == a \o b
<1> HIDE DEF a, b, c
<1>4. ab \in Text /\ Len(ab) = N - 1 /\ \A i \in 1..(N - 1) : ab[i] = t[i]
  <2>1. /\ ab \in Text /\ Len(ab) = Len(a) + Len(b)
        /\ \A i \in 1..Len(a) : ab[i] = a[i]
        /\ \A i \in (Len(a) + 1)..(Len(a) + Len(b)) : ab[i] = b[i - Len(a)]
    BY <1>2, <1>3, JoinedTexts
  <2> HIDE DEF ab, N
  <2>2. Len(ab) = N - 1 /\ ab[1] = t[1] /\ \A i \in 2..(N - 1) : ab[i] = b[i - 1]
    BY <1>1, <1>2, <1>3, <2>1
  <2>3. \A i \in 2..(N - 1) : i - 1 \in 1..(N - 2) /\ (i - 1) + 1 = i
    BY <1>1
  <2> QED BY <1>1, <1>3, <2>1, <2>2, <2>3
<1> HIDE DEF ab
<1>5. /\ ab \o c \in Text /\ Len(ab \o c) = N
      /\ \A i \in 1..(N - 1) : (ab \o c)[i] = ab[i]
      /\ (ab \o c)[N] = c[1]
  <2>1. /\ ab \o c \in Text /\ Len(ab \o c) = Len(ab) + Len(c)
        /\ \A i \in 1..Len(ab) : (ab \o c)[i] = ab[i]
        /\ \A i \in (Len(ab) + 1)..(Len(ab) + Len(c)) : (ab \o c)[i] = c[i - Len(ab)]
    BY <1>2, <1>4, JoinedTexts
  <2> HIDE DEF N
  <2> QED BY <1>1, <1>2, <1>4, <2>1
<1>6. \A i \in 1..N : (ab \o c)[i] = t[i]
  <2> HIDE DEF N
  <2> QED BY <1>1, <1>2, <1>4, <1>5
<1>7. ab \o c = t
  BY <1>5, <1>6, SeqEqual DEF Text
<1> QED BY <1>3, <1>7 DEF ab, a, b, c

LEMMA Unbracketing ==
  ASSUME NEW s \in Text
  PROVE  /\ Unbracketed(s) \in Text
         /\ s = Unbracketed(s) \/ s = <<OpenBracket>> \o Unbracketed(s) \o <<CloseBracket>>
<1>1. CASE Len(s) >= 2 /\ Head(s) = OpenBracket /\ Last(s) = CloseBracket
  <2>1. s[1] = OpenBracket /\ s[Len(s)] = CloseBracket
    BY <1>1 DEF Text, Last
  <2> QED BY <1>1, <2>1, BetweenEnds DEF Unbracketed
<1>2. CASE ~(Len(s) >= 2 /\ Head(s) = OpenBracket /\ Last(s) = CloseBracket)
  BY <1>2 DEF Unbracketed
<1> QED BY <1>1, <1>2

LEMMA RemoteAddress ==
  ASSUME NEW t \in Text
  PROVE  LET r == split_remote_addr(t)
         IN  /\ \/ t = r.ip \o <<Colon>> \o r.port
                \/ t = <<OpenBracket>> \o r.ip \o <<CloseBracket>> \o <<Colon>> \o r.port
                \/ r.port = <<>> /\ (t = r.ip \/ t = <<OpenBracket>> \o r.ip \o <<CloseBracket>>)
             /\ Colon \notin Range(r.port)
<1> DEFINE strict == split_host_port(t)
           colons == Positions(t, Colon)
           colon == Max(colons)
           r == split_remote_addr(t)
<1>1. /\ strict.ok => r = [ip |-> strict.host, port |-> strict.port]
      /\ ~strict.ok /\ colons # {} =>
           r = [ip |-> Unbracketed(SubSeq(t, 1, colon - 1)), port |-> SubSeq(t, colon + 1, Len(t))]
      /\ ~strict.ok /\ colons = {} => r = [ip |-> Unbracketed(t), port |-> <<>>]
  BY DEF split_remote_addr
<1>2. /\ Len(t) \in Nat /\ DOMAIN t = 1..Len(t)
      /\ colons \subseteq 1..Len(t) /\ \A i \in 1..Len(t) : i \in colons <=> t[i] = Colon
      /\ colons # {} => colon \in colons /\ \A i \in colons : i <= colon
  BY ColonPositions
<1> HIDE DEF r, strict, colons, colon
<1>3. ASSUME NEW n \in 1..Len(t), \A i \in (n + 1)..Len(t) : t[i] # Colon
      PROVE  SubSeq(t, n + 1, Len(t)) \in Text /\ Colon \notin Range(SubSeq(t, n + 1, Len(t)))
  <2> DEFINE p == SubSeq(t, n + 1, Len(t))
  <2>1. n + 1 \in 1..(Len(t) + 1) /\ Len(t) \in 0..Len(t)
    BY <1>2
  <2>2. /\ p \in Text /\ Len(p) = IF n + 1 <= Len(t) THEN Len(t) - (n + 1) + 1 ELSE 0
        /\ \A i \in 1..(Len(t) - (n + 1) + 1) : p[i] = t[n + 1 + i - 1]
    BY <2>1, Stretch
  <2> HIDE DEF p
  <2>3. DOMAIN p = 1..(Len(t) - n) /\ \A i \in 1..(Len(t) - n) : p[i] = t[n + i]
    <3>1. Len(t) - (n + 1) + 1 = Len(t) - n /\ \A i \in 1..(Len(t) - n) : n + 1 + i - 1 = n + i
      BY <1>2
    <3>2. Len(p) = Len(t) - n
      <4>1. Len(t) \in Nat
        BY <1>2
      <4> QED BY <2>2, <4>1
    <3>3. \A i \in 1..(Len(t) - n) : p[i] = t[n + i]
      BY <2>2, <3>1
    <3> QED BY <2>2, <3>2, <3>3 DEF Text
  <2>4. \A i \in 1..(Len(t) - n) : n + i \in (n + 1)..Len(t)
    BY <1>2
  <2>5. Colon \notin Range(p)
    BY <1>3, <2>3, <2>4 DEF Range
  <2> QED BY <2>2, <2>5 DEF p
<1>4. CASE strict.ok
  <2>1. strict # NoHostPort
    BY <1>4 DEF NoHostPort
  <2>2. CASE \E n \in 1..Len(t) : PlainAt(t, n)
    <3>1. PICK n \in 1..Len(t) : PlainAt(t, n)
      BY <2>2
    <3>2. strict = Plain(t, n) /\ t[n] = Colon
      BY <3>1, SplitFindsTheReading DEF strict, PlainAt
    <3>3. r.ip = SubSeq(t, 1, n - 1) /\ r.port = SubSeq(t, n + 1, Len(t))
      BY <1>1, <1>4, <3>2 DEF Plain
    <3>4. \A i \in (n + 1)..Len(t) : t[i] # Colon
      BY <1>2, <3>1 DEF PlainAt
    <3> QED BY <1>3, <3>2, <3>3, <3>4, CutAt DEF r
  <2>3. CASE \E n \in 3..Len(t) : BracketedAt(t, n)
    <3>1. PICK n \in 3..Len(t) : BracketedAt(t, n)
      BY <2>3
    <3>2. /\ strict = Bracketed(t, n) /\ n \in 1..Len(t)
          /\ t[n] = Colon /\ t[1] = OpenBracket /\ t[n - 1] = CloseBracket
      BY <1>2, <3>1, SplitFindsTheReading DEF strict, BracketedAt
    <3>3. r.ip = SubSeq(t, 2, n - 2) /\ r.port = SubSeq(t, n + 1, Len(t))
      BY <1>1, <1>4, <3>2 DEF Bracketed
    <3>4. \A i \in (n + 1)..Len(t) : t[i] # Colon
      BY <3>1 DEF BracketedAt
    <3> DEFINE s == SubSeq(t, 1, n - 1)
    <3>5. /\ s \in Text /\ Len(s) = n - 1 /\ Len(s) >= 2 /\ \A i \in 1..(n - 1) : s[i] = t[i]
      BY <1>2, Stretch
    <3>6. s[1] = OpenBracket /\ s[Len(s)] = CloseBracket
      BY <3>2, <3>5
    <3>7. s = <<OpenBracket>> \o SubSeq(s, 2, Len(s) - 1) \o <<CloseBracket>>
      <4> HIDE DEF s
      <4> QED BY <3>5, <3>6, BetweenEnds
    <3>8. SubSeq(s, 2, Len(s) - 1) = SubSeq(t, 2, n - 2)
      <4>1. Len(s) - 1 = n - 2 /\ 2 \in 1..(Len(s) + 1) /\ n - 2 \in 0..Len(s)
            /\ 2 \in 1..(Len(t) + 1) /\ n - 2 \in 0..Len(t)
        BY <1>2, <3>5
      <4> DEFINE a == SubSeq(s, 2, n - 2)
                 b == SubSeq(t, 2, n - 2)
      <4>2. /\ a \in Text /\ Len(a) = (IF 2 <= n - 2 THEN n - 2 - 2 + 1 ELSE 0)
            /\ \A i \in 1..(n - 2 - 2 + 1) : a[i] = s[2 + i - 1]
        <5> HIDE DEF s
        <5> QED BY <3>5, <4>1, Stretch
      <4>3. /\ b \in Text /\ Len(b) = (IF 2 <= n - 2 THEN n - 2 - 2 + 1 ELSE 0)
            /\ \A i \in 1..(n - 2 - 2 + 1) : b[i] = t[2 + i - 1]
        BY <4>1, Stretch
      <4> HIDE DEF a, b, s
      <4>4. \A i \in 1..Len(a) : i \in 1..(n - 2 - 2 + 1) /\ 2 + i - 1 \in 1..(n - 1)
        BY <1>2, <4>2
      <4>5. \A i \in 1..Len(a) : a[i] = b[i]
        BY <3>5, <4>2, <4>3, <4>4
      <4>6. a = b
        BY <4>2, <4>3, <4>5, SeqEqual DEF Text
      <4> QED BY <4>1, <4>6 DEF a, b
    <3>9. s = <<OpenBracket>> \o r.ip \o <<CloseBracket>>
      <4> HIDE DEF s
      <4> QED BY <3>3, <3>7, <3>8
    <3>10. t = s \o <<Colon>> \o r.port
      BY <3>2, <3>3, CutAt
    <3> QED BY <1>3, <3>2, <3>3, <3>4, <3>9, <3>10 DEF r
  <2> QED BY <2>1, <2>2, <2>3, SplitFindsTheReading DEF strict
<1>5. CASE ~strict.ok /\ colons # {}
  <2> DEFINE s == SubSeq(t, 1, colon - 1)
  <2>1. colon \in 1..Len(t) /\ t[colon] = Colon /\ \A i \in (colon + 1)..Len(t) : t[i] # Colon
    <3>1. colon \in colons /\ colon \in 1..Len(t)
      BY <1>2, <1>5
    <3>2. \A i \in (colon + 1)..Len(t) : i \in 1..Len(t) /\ ~(i <= colon)
      <4>1. Len(t) \in Nat
        BY <1>2
      <4> HIDE DEF colon
      <4> QED BY <3>1, <4>1
    <3> QED BY <1>2, <1>5, <3>1, <3>2
  <2>2. s \in Text
    <3> HIDE DEF colon
    <3>1. Len(t) \in Nat
      BY <1>2
    <3>2. 1 \in 1..(Len(t) + 1) /\ colon - 1 \in 0..Len(t)
      BY <2>1, <3>1
    <3> QED BY <3>2, Stretch
  <2>3. r.ip = Unbracketed(s) /\ r.port = SubSeq(t, colon + 1, Len(t))
    BY <1>1, <1>5
  <2>4. t = s \o <<Colon>> \o r.port
    BY <2>1, <2>3, CutAt
  <2> HIDE DEF s
  <2>5. s = r.ip \/ s = <<OpenBracket>> \o r.ip \o <<CloseBracket>>
    BY <2>2, <2>3, Unbracketing
  <2>6. \/ t = r.ip \o <<Colon>> \o r.port
        \/ t = <<OpenBracket>> \o r.ip \o <<CloseBracket>> \o <<Colon>> \o r.port
    BY <2>4, <2>5
  <2> QED BY <1>3, <2>1, <2>3, <2>6 DEF r
<1>6. CASE ~strict.ok /\ colons = {}
  <2>1. r.ip = Unbracketed(t) /\ r.port = <<>>
    BY <1>1, <1>6
  <2>2. Colon \notin Range(r.port)
    BY <2>1 DEF Range
  <2> QED BY <2>1, <2>2, Unbracketing DEF r
<1> QED BY <1>4, <1>5, <1>6

LEMMA ServerNames ==
  ASSUME NEW t \in Text, NEW scheme
  PROVE  LET d == derive_server_name_and_port(t, scheme)
         IN  /\ d.name = derive_server_name(t) /\ d.port = derive_server_port(t, scheme)
             /\ t # <<>> => d.name # <<>>
             /\ d.port # <<>>
<1>1. DefaultPort(scheme) # <<>>
  BY DEF DefaultPort
<1> QED BY <1>1 DEF derive_server_name_and_port, derive_server_name, derive_server_port
-------------------------------------------------------------------------------
(* Paths *)

LEMMA SuffixOf ==
  ASSUME NEW t \in Text, NEW n \in 0..Len(t)
  PROVE  IsSuffix(SubSeq(t, n + 1, Len(t)), t)
<1> DEFINE N == Len(t)
           s == SubSeq(t, n + 1, N)
           K == N - n
           R(u) == [i \in 1..Len(u) |-> u[(Len(u) - i) + 1]]
<1>1. N \in Nat /\ \A i \in 1..N : t[i] \in Byte
  BY DEF Text
<1>2. n + 1 \in 1..(N + 1) /\ N \in 0..N /\ K \in 0..N /\ K \in Nat
  BY <1>1
<1>3. s \in Text /\ Len(s) = K /\ \A i \in 1..K : s[i] = t[n + i]
  <2>1. /\ s \in Text
        /\ Len(s) = IF n + 1 <= N THEN N - (n + 1) + 1 ELSE 0
        /\ \A i \in 1..(N - (n + 1) + 1) : s[i] = t[(n + 1) + i - 1]
    BY <1>2, Stretch
  <2>2. (IF n + 1 <= N THEN N - (n + 1) + 1 ELSE 0) = K /\ N - (n + 1) + 1 = K
    BY <1>1
  <2>3. \A i \in 1..K : (n + 1) + i - 1 = n + i
    BY <1>1
  <2> HIDE DEF s, N, K
  <2> QED BY <2>1, <2>2, <2>3
<1>4. \A u \in Text : R(u) \in Text /\ Len(R(u)) = Len(u)
  <2> TAKE u \in Text
  <2>1. Len(u) \in Nat /\ \A i \in 1..Len(u) : u[i] \in Byte
    BY DEF Text
  <2>2. \A i \in 1..Len(u) : (Len(u) - i) + 1 \in 1..Len(u)
    BY <2>1
  <2>3. R(u) \in [1..Len(u) -> Byte]
    BY <2>1, <2>2
  <2> HIDE DEF R
  <2> QED BY <2>1, <2>3, FunctionIsSeq DEF Text
<1>5. \A i \in 1..K : R(s)[i] = t[(N - i) + 1] /\ R(t)[i] = t[(N - i) + 1]
  <2> HIDE DEF s, N
  <2> TAKE i \in 1..K
  <2>1. i \in 1..N /\ (K - i) + 1 \in 1..K /\ n + ((K - i) + 1) = (N - i) + 1
    BY <1>1
  <2>2. R(s)[i] = s[(K - i) + 1]
    BY <1>3
  <2>3. R(t)[i] = t[(N - i) + 1]
    BY <2>1 DEF N
  <2> QED BY <1>3, <2>1, <2>2, <2>3
<1> HIDE DEF R, s, K
<1>6. \A i \in 1..K : R(s)[i] = R(t)[i]
  BY <1>5
<1>7. SubSeq(R(s), 1, K) = SubSeq(R(t), 1, K)
  <2> DEFINE a == SubSeq(R(s), 1, K)
             b == SubSeq(R(t), 1, K)
  <2>0. R(s) \in Text /\ R(t) \in Text /\ Len(R(s)) = K /\ Len(R(t)) = N
    BY <1>3, <1>4
  <2>1. 1 \in 1..(K + 1) /\ 1 \in 1..(N + 1) /\ K \in 0..K /\ K \in 0..N
    BY <1>1, <1>2
  <2>2. /\ a \in Text /\ Len(a) = IF 1 <= K THEN K - 1 + 1 ELSE 0
        /\ \A i \in 1..(K - 1 + 1) : a[i] = R(s)[1 + i - 1]
    BY <2>0, <2>1, Stretch
  <2>3. /\ b \in Text /\ Len(b) = IF 1 <= K THEN K - 1 + 1 ELSE 0
        /\ \A i \in 1..(K - 1 + 1) : b[i] = R(t)[1 + i - 1]
    BY <2>0, <2>1, Stretch
  <2> HIDE DEF a, b
  <2>4. Len(a) = Len(b) /\ \A i \in 1..Len(a) : i \in 1..K /\ i \in 1..(K - 1 + 1) /\ 1 + i - 1 = i
    BY <1>2, <2>2, <2>3
  <2>5. \A i \in 1..Len(a) : a[i] = b[i]
    BY <1>6, <2>2, <2>3, <2>4
  <2>6. a = b
    BY <2>2, <2>3, <2>4, <2>5, SeqEqual DEF Text
  <2> QED BY <2>6 DEF a, b
<1>8. Reverse(s) = R(s) /\ Reverse(t) = R(t)
  BY DEF Reverse, R
<1>9. Len(R(s)) = K /\ K <= Len(R(t))
  BY <1>2, <1>3, <1>4 DEF N
<1> QED BY <1>7, <1>8, <1>9 DEF IsSuffix, IsPrefix, s, N

LEMMA SplitPosition ==
  ASSUME NEW t \in Text
  PROVE  /\ MatchEnds(t, PhpExt) \subseteq 1..Len(t)
         /\ split_pos(t, <<PhpExt>>) = IF MatchEnds(t, PhpExt) = {} THEN -1
                                       ELSE Min(MatchEnds(t, PhpExt))
         /\ MatchEnds(t, PhpExt) # {} =>
              /\ Min(MatchEnds(t, PhpExt)) \in MatchEnds(t, PhpExt)
              /\ \A n \in MatchEnds(t, PhpExt) : Min(MatchEnds(t, PhpExt)) <= n
<1>1. PhpExt \in Text /\ PhpExt # <<>>
  BY CgiPathsAssumption DEF Text
<1>2. Len(PhpExt) \in Nat /\ Len(PhpExt) >= 1 /\ Len(t) \in Nat
  BY <1>1 DEF Text
<1>3. MatchEnds(t, PhpExt) \subseteq 1..Len(t) /\ MatchEnds(t, PhpExt) \subseteq Nat
  <2>1. MatchEnds(t, PhpExt) \subseteq Len(PhpExt)..Len(t)
    BY DEF MatchEnds
  <2> QED BY <1>2, <2>1
<1> DEFINE E == MatchEnds(t, PhpExt)
           splits == <<PhpExt>>
           matching == {i \in DOMAIN splits : splits[i] # <<>> /\ MatchEnds(t, splits[i]) # {}}
<1>4. E # {} => Min(E) \in E /\ \A n \in E : Min(E) <= n
  <2> HIDE DEF E
  <2> QED BY <1>3, MinIsLeast DEF E
<1>5. DOMAIN splits = {1} /\ splits[1] = PhpExt /\ splits # <<>>
  OBVIOUS
<1>6. matching = IF E = {} THEN {} ELSE {1}
  <2> HIDE DEF splits
  <2> QED BY <1>1, <1>5
<1>7. Min({1}) = 1
  <2> DEFINE T == {1}
  <2>1. T \subseteq Nat /\ T # {}
    OBVIOUS
  <2>2. Min(T) \in T
    <3> HIDE DEF T
    <3> QED BY <2>1, MinIsLeast
  <2> QED BY <2>2
<1>8. split_pos(t, splits) = IF matching = {} THEN -1 ELSE Min(MatchEnds(t, splits[Min(matching)]))
  <2> HIDE DEF splits
  <2> QED BY <1>5 DEF split_pos
<1>9. split_pos(t, splits) = IF E = {} THEN -1 ELSE Min(E)
  <2> HIDE DEF splits, matching
  <2> QED BY <1>5, <1>6, <1>7, <1>8
<1> QED BY <1>3, <1>4, <1>9

\* The extension is what t has before n.
Matches(t, n) ==
  \A k \in 1..Len(PhpExt) : /\ IsAscii(t[n - Len(PhpExt) + k])
                            /\ ToLower(t[n - Len(PhpExt) + k]) = PhpExt[k]

LEMMA EndsOfMatches ==
  ASSUME NEW t \in Text, NEW n
  PROVE  n \in MatchEnds(t, PhpExt) <=> n \in Len(PhpExt)..Len(t) /\ Matches(t, n)
<1>1. DOMAIN PhpExt = 1..Len(PhpExt)
  BY CgiPathsAssumption
<1> QED BY <1>1 DEF MatchEnds, Matches

LEMMA Extension ==
  /\ PhpExt \in Text /\ IndexFile \in Text
  /\ Len(PhpExt) \in Nat /\ Len(PhpExt) >= 1 /\ Len(IndexFile) \in Nat
  /\ Len(PhpExt) <= Len(IndexFile) /\ Matches(IndexFile, Len(IndexFile))
  /\ \A n \in Len(PhpExt)..Len(IndexFile) : Matches(IndexFile, n) => n = Len(IndexFile)
  /\ \A k \in 1..Len(PhpExt) : PhpExt[k] # Slash
<1>1. /\ PhpExt \in Text /\ IndexFile \in Text /\ PhpExt # <<>> /\ Slash \notin Range(IndexFile)
  BY CgiPathsAssumption DEF Text
<1>2. Len(PhpExt) \in Nat /\ Len(PhpExt) >= 1 /\ Len(IndexFile) \in Nat
  BY <1>1 DEF Text
<1>3. \A n : n \in {Len(IndexFile)} <=> n \in Len(PhpExt)..Len(IndexFile) /\ Matches(IndexFile, n)
  BY <1>1, EndsOfMatches, IndexFileAssumption
<1>4. Len(PhpExt) <= Len(IndexFile) /\ Matches(IndexFile, Len(IndexFile))
  BY <1>2, <1>3
<1>5. ASSUME NEW k \in 1..Len(PhpExt) PROVE PhpExt[k] # Slash
  <2> DEFINE j == Len(IndexFile) - Len(PhpExt) + k
  <2>1. j \in 1..Len(IndexFile)
    BY <1>2, <1>4
  <2>2. ToLower(IndexFile[j]) = PhpExt[k]
    BY <1>4 DEF Matches
  <2> HIDE DEF j
  <2>3. IndexFile[j] \in Byte /\ IndexFile[j] # Slash
    BY <1>1, <2>1 DEF Text, Range
  <2>4. \A b \in Byte : b # Slash => ToLower(b) # Slash
    BY DEF Byte, ToLower, IsUpper, Slash
  <2> QED BY <2>2, <2>3, <2>4
<1> QED BY <1>1, <1>2, <1>3, <1>4, <1>5

LEMMA IndexEnds ==
  ASSUME NEW p \in Text, p # <<>>, Last(p) = Slash, MatchEnds(p, PhpExt) = {}
  PROVE  /\ p \o IndexFile \in Text
         /\ MatchEnds(p \o IndexFile, PhpExt) = {Len(p \o IndexFile)}
<1> DEFINE q == p \o IndexFile
           P == Len(p)
           I == Len(IndexFile)
           L == Len(PhpExt)
<1>1. PICK index \in Text : index = IndexFile
  BY Extension
<1>2. /\ q \in Text /\ Len(q) = P + I /\ P \in Nat /\ I \in Nat
      /\ \A i \in 1..P : q[i] = p[i]
      /\ \A i \in (P + 1)..(P + I) : q[i] = IndexFile[i - P]
  <2>1. /\ p \o index \in Text /\ Len(p \o index) = Len(p) + Len(index)
        /\ Len(p) \in Nat /\ Len(index) \in Nat
        /\ \A i \in 1..Len(p) : (p \o index)[i] = p[i]
        /\ \A i \in (Len(p) + 1)..(Len(p) + Len(index)) : (p \o index)[i] = index[i - Len(p)]
    BY JoinedTexts
  <2> QED BY <1>1, <2>1
<1>3. P >= 1 /\ p[P] = Slash
  BY DEF Text, Last
<1>4. L \in Nat /\ L >= 1 /\ L <= I
  BY Extension
<1> HIDE DEF q, P, I, L
<1>5. P + I \in MatchEnds(q, PhpExt)
  <2>1. ASSUME NEW k \in 1..L PROVE q[(P + I) - L + k] = IndexFile[I - L + k]
    <3>1. (P + I) - L + k \in (P + 1)..(P + I) /\ ((P + I) - L + k) - P = I - L + k
      BY <1>2, <1>4
    <3> QED BY <1>2, <3>1
  <2>2. Matches(q, P + I)
    BY <2>1, Extension DEF Matches, L, I
  <2>3. P + I \in L..Len(q)
    BY <1>2, <1>4
  <2> QED BY <1>2, <2>2, <2>3, EndsOfMatches DEF L
<1>6. ASSUME NEW n \in MatchEnds(q, PhpExt) PROVE n = P + I
  <2>1. n \in L..(P + I) /\ Matches(q, n)
    BY <1>2, EndsOfMatches DEF L
  <2>2. \A k \in 1..L : IsAscii(q[n - L + k]) /\ ToLower(q[n - L + k]) = PhpExt[k]
    BY <2>1 DEF Matches, L
  <2>3. CASE n <= P
    <3>1. ASSUME NEW k \in 1..L PROVE q[n - L + k] = p[n - L + k]
      <4>1. n - L + k \in 1..P
        BY <1>2, <1>4, <2>1, <2>3
      <4> QED BY <1>2, <4>1
    <3>2. Matches(p, n)
      BY <2>2, <3>1 DEF Matches, L
    <3>3. n \in L..P
      BY <1>2, <1>4, <2>1, <2>3
    <3>4. n \in MatchEnds(p, PhpExt)
      BY <3>2, <3>3, EndsOfMatches DEF L, P
    <3> QED BY <3>4
  <2>4. CASE n > P /\ n - L < P
    <3> DEFINE k == P - (n - L)
    <3>1. k \in 1..L /\ n - L + k = P /\ P \in 1..P
      BY <1>2, <1>3, <1>4, <2>1, <2>4
    <3>2. q[P] = Slash
      BY <1>2, <1>3, <3>1
    <3> HIDE DEF k
    <3>3. ToLower(Slash) = PhpExt[k]
      BY <2>2, <3>1, <3>2
    <3>4. ToLower(Slash) = Slash
      BY DEF ToLower, IsUpper, Slash
    <3> QED BY <3>1, <3>3, <3>4, Extension DEF L
  <2>5. CASE n - L >= P
    <3>1. ASSUME NEW k \in 1..L PROVE q[n - L + k] = IndexFile[(n - P) - L + k]
      <4>1. n - L + k \in (P + 1)..(P + I) /\ (n - L + k) - P = (n - P) - L + k
        BY <1>2, <1>4, <2>1, <2>5
      <4> QED BY <1>2, <4>1
    <3>2. Matches(IndexFile, n - P)
      BY <2>2, <3>1 DEF Matches, L
    <3>3. n - P \in L..I
      BY <1>2, <1>4, <2>1, <2>5
    <3>4. n - P = I
      BY <3>2, <3>3, Extension DEF L, I
    <3> QED BY <1>2, <2>1, <3>4
  <2>6. n <= P \/ (n > P /\ n - L < P) \/ n - L >= P
    BY <1>2, <1>4, <2>1
  <2> QED BY <2>3, <2>4, <2>5, <2>6
<1> QED BY <1>2, <1>5, <1>6 DEF q

\* How a path is split at the default extension.
LEMMA Split ==
  ASSUME NEW root, NEW t \in Text
  PROVE  LET s == split_cgi_path(root, <<PhpExt>>, t)
             n == Min(MatchEnds(t, PhpExt))
         IN  IF MatchEnds(t, PhpExt) = {} THEN s.doc_uri = <<>> /\ s.path_info = <<>>
             ELSE /\ s.doc_uri = SubSeq(t, 1, n) /\ s.path_info = SubSeq(t, n + 1, Len(t))
                  /\ n \in 1..Len(t) /\ n \in MatchEnds(t, PhpExt)
<1> DEFINE n == Min(MatchEnds(t, PhpExt))
           pos == split_pos(t, <<PhpExt>>)
           s == split_cgi_path(root, <<PhpExt>>, t)
<1>1. /\ pos = IF MatchEnds(t, PhpExt) = {} THEN -1 ELSE n
      /\ MatchEnds(t, PhpExt) # {} => n \in 1..Len(t) /\ n \in MatchEnds(t, PhpExt)
  BY SplitPosition
<1>2. /\ s.doc_uri = IF pos >= 0 THEN SubSeq(t, 1, pos) ELSE <<>>
      /\ s.path_info = IF pos >= 0 THEN SubSeq(t, pos + 1, Len(t)) ELSE <<>>
  BY DEF split_cgi_path
<1>3. Len(t) \in Nat
  BY DEF Text
<1> HIDE DEF n, pos, s
<1>4. CASE MatchEnds(t, PhpExt) = {}
  <2>1. pos = -1
    BY <1>1, <1>4
  <2> QED BY <1>2, <1>4, <2>1 DEF s, n
<1>5. CASE MatchEnds(t, PhpExt) # {}
  <2>1. pos = n /\ n \in 1..Len(t) /\ n >= 0
    BY <1>1, <1>3, <1>5
  <2> QED BY <1>1, <1>2, <1>5, <2>1 DEF s, n
<1> QED BY <1>4, <1>5

LEMMA EmptySuffix ==
  ASSUME NEW t \in Text
  PROVE  SubSeq(t, Len(t) + 1, Len(t)) = <<>> /\ IsSuffix(<<>>, t)
<1>1. Len(t) \in Nat /\ Len(t) \in 0..Len(t)
  BY DEF Text
<1>2. SubSeq(t, Len(t) + 1, Len(t)) = <<>>
  BY <1>1, SubSeqEmpty DEF Text
<1> QED BY <1>1, <1>2, SuffixOf

\* The directory index becomes the script, and none of it is PATH_INFO.
LEMMA IndexSplit ==
  ASSUME NEW root, NEW t \in Text
  PROVE  LET r == resolve_directory_index(t)
             s == split_cgi_path(root, <<PhpExt>>, r)
         IN  /\ r \in Text /\ IsSuffix(s.path_info, t)
             /\ r # t => s.path_info = <<>> /\ s.doc_uri = r
             /\ MatchEnds(t, PhpExt) # {} => r = t
<1> DEFINE r == resolve_directory_index(t)
           s == split_cgi_path(root, <<PhpExt>>, r)
<1>1. Len(t) \in Nat
  BY DEF Text
<1>2. CASE t # <<>> /\ Last(t) = Slash /\ split_pos(t, <<PhpExt>>) < 0
  <2>1. MatchEnds(t, PhpExt) = {}
    <3> SUFFICES ASSUME MatchEnds(t, PhpExt) # {} PROVE FALSE
      OBVIOUS
    <3> DEFINE n == Min(MatchEnds(t, PhpExt))
    <3>1. split_pos(t, <<PhpExt>>) = n /\ n \in 1..Len(t)
      BY SplitPosition
    <3> HIDE DEF n
    <3> QED BY <1>1, <1>2, <3>1
  <2>2. r = t \o IndexFile
    BY <1>2 DEF resolve_directory_index
  <2>3. r \in Text /\ MatchEnds(r, PhpExt) = {Len(r)}
    BY <1>2, <2>1, <2>2, IndexEnds
  <2> HIDE DEF r
  <2>4. Len(r) \in Nat /\ Min({Len(r)}) = Len(r)
    <3> DEFINE T == {Len(r)}
    <3>1. Len(r) \in Nat /\ T \subseteq Nat /\ T # {}
      BY <2>3 DEF Text
    <3>2. Min(T) \in T
      <4> HIDE DEF T
      <4> QED BY <3>1, MinIsLeast
    <3> QED BY <3>1, <3>2
  <2>5. s.doc_uri = SubSeq(r, 1, Len(r)) /\ s.path_info = SubSeq(r, Len(r) + 1, Len(r))
    BY <2>3, <2>4, Split
  <2>6. SubSeq(r, 1, Len(r)) = r /\ SubSeq(r, Len(r) + 1, Len(r)) = <<>>
    BY <2>3, EmptySuffix, SubSeqFull DEF Text
  <2> HIDE DEF s
  <2> QED BY <2>1, <2>3, <2>5, <2>6, EmptySuffix DEF r, s
<1>3. CASE ~(t # <<>> /\ Last(t) = Slash /\ split_pos(t, <<PhpExt>>) < 0)
  <2>1. r = t
    BY <1>3 DEF resolve_directory_index
  <2>2. IsSuffix(s.path_info, t)
    <3>1. CASE MatchEnds(t, PhpExt) = {}
      BY <2>1, <3>1, Split, EmptySuffix
    <3>2. CASE MatchEnds(t, PhpExt) # {}
      <4> DEFINE n == Min(MatchEnds(t, PhpExt))
      <4>1. s.path_info = SubSeq(t, n + 1, Len(t)) /\ n \in 1..Len(t)
        BY <2>1, <3>2, Split
      <4> HIDE DEF n, s
      <4>2. n \in 0..Len(t)
        BY <1>1, <4>1
      <4> QED BY <4>1, <4>2, SuffixOf
    <3> QED BY <3>1, <3>2
  <2> QED BY <2>1, <2>2
<1> QED BY <1>2, <1>3

Decoding == [read : Nat, output : Text]

LEMMA HexDigitType ==
  ASSUME NEW b \in Byte
  PROVE  hex_digit(b) \in Int /\ hex_digit(b) <= 15 /\ hex_digit(b) >= -1
<1>1. CASE b \in 48..57
  BY <1>1 DEF hex_digit, IsDigit
<1>2. CASE b \in 97..102
  <2>1. ~IsDigit(b) /\ b \notin 65..70
    BY <1>2 DEF IsDigit
  <2> QED BY <1>2, <2>1 DEF hex_digit
<1>3. CASE b \in 65..70
  <2>1. ~IsDigit(b) /\ b \notin 97..102
    BY <1>3 DEF IsDigit
  <2> QED BY <1>3, <2>1 DEF hex_digit
<1>4. CASE b \notin 48..57 /\ b \notin 97..102 /\ b \notin 65..70
  BY <1>4 DEF hex_digit, IsDigit
<1> QED BY <1>1, <1>2, <1>3, <1>4

\* The three ways a turn of percent_decode can go.
DecodesEscape(t, s) ==
  LET i == s.read + 1
  IN  /\ t[i] = Percent /\ i + 2 <= Len(t)
      /\ hex_digit(t[i + 1]) >= 0 /\ hex_digit(t[i + 2]) >= 0

LEMMA DecodeTurns ==
  ASSUME NEW t \in Text, NEW s \in Decoding
  PROVE  /\ DecodeTurn(t, s) \in Decoding
         /\ s.read >= Len(t) => DecodeTurn(t, s) = s
         /\ s.read < Len(t) /\ DecodesEscape(t, s) =>
              DecodeTurn(t, s) =
                [read |-> s.read + 3,
                 output |-> Append(s.output, hex_digit(t[s.read + 2]) * 16 + hex_digit(t[s.read + 3]))]
         /\ s.read < Len(t) /\ ~DecodesEscape(t, s) =>
              DecodeTurn(t, s) = [read |-> s.read + 1, output |-> Append(s.output, t[s.read + 1])]
<1>1. Len(t) \in Nat /\ \A i \in 1..Len(t) : t[i] \in Byte
  BY DEF Text
<1>2. s.read \in Nat /\ s.output \in Text
  BY DEF Decoding
<1>3. CASE s.read >= Len(t)
  <2>1. DecodeTurn(t, s) = s
    BY <1>1, <1>2, <1>3 DEF DecodeTurn
  <2>2. ~(s.read < Len(t))
    BY <1>1, <1>2, <1>3
  <2> QED BY <2>1, <2>2
<1>4. CASE s.read < Len(t) /\ DecodesEscape(t, s)
  <2> DEFINE v == hex_digit(t[s.read + 2]) * 16 + hex_digit(t[s.read + 3])
  <2>0. (s.read + 1) + 1 = s.read + 2 /\ (s.read + 1) + 2 = s.read + 3 /\ ~(s.read >= Len(t))
    BY <1>1, <1>2, <1>4
  <2>1. DecodeTurn(t, s) = [read |-> s.read + 3, output |-> Append(s.output, v)]
    BY <1>4, <2>0 DEF DecodeTurn, DecodesEscape
  <2>2. s.read + 2 \in 1..Len(t) /\ s.read + 3 \in 1..Len(t)
    BY <1>1, <1>2, <1>4, <2>0 DEF DecodesEscape
  <2>3. t[s.read + 2] \in Byte /\ t[s.read + 3] \in Byte
    BY <1>1, <2>2
  <2>4. hex_digit(t[s.read + 2]) \in 0..15 /\ hex_digit(t[s.read + 3]) \in 0..15
    <3>1. hex_digit(t[s.read + 2]) >= 0 /\ hex_digit(t[s.read + 3]) >= 0
      BY <1>4, <2>0 DEF DecodesEscape
    <3>2. /\ hex_digit(t[s.read + 2]) \in Int /\ hex_digit(t[s.read + 2]) <= 15
          /\ hex_digit(t[s.read + 3]) \in Int /\ hex_digit(t[s.read + 3]) <= 15
      BY <2>3, HexDigitType
    <3> QED BY <3>1, <3>2
  <2>5. v \in Byte
    BY <2>4 DEF Byte
  <2> HIDE DEF v
  <2>6. DecodeTurn(t, s) \in Decoding
    BY <1>2, <2>1, <2>5 DEF Decoding, Text
  <2> QED BY <1>4, <2>0, <2>1, <2>6 DEF v
<1>5. CASE s.read < Len(t) /\ ~DecodesEscape(t, s)
  <2>0. ~(s.read >= Len(t)) /\ s.read + 1 \in 1..Len(t)
    BY <1>1, <1>2, <1>5
  <2>1. DecodeTurn(t, s) = [read |-> s.read + 1, output |-> Append(s.output, t[s.read + 1])]
    BY <1>5, <2>0 DEF DecodeTurn, DecodesEscape
  <2>2. t[s.read + 1] \in Byte
    BY <1>1, <2>0
  <2>3. DecodeTurn(t, s) \in Decoding
    BY <1>2, <2>1, <2>2 DEF Decoding, Text
  <2> QED BY <1>5, <2>0, <2>1, <2>3
<1>6. s.read >= Len(t) \/ s.read < Len(t)
  BY <1>1, <1>2
<1> QED BY <1>3, <1>4, <1>5, <1>6

LEMMA DecodeLoop ==
  ASSUME NEW t \in Text
  PROVE  \E f \in [0..Len(t) -> Decoding] :
           /\ f[0] = [read |-> 0, output |-> <<>>]
           /\ \A k \in 1..Len(t) : f[k] = DecodeTurn(t, f[k - 1])
           /\ percent_decode(t) = f[Len(t)].output
<1> DEFINE N == Len(t)
           start == [read |-> 0, output |-> <<>>]
           Turn(s, i) == DecodeTurn(t, s)
           turn == [p \in Decoding \X (1..N) |-> Turn(p[1], p[2])]
           f == CHOOSE g : g = [k \in 0..N |-> IF k = 0 THEN start ELSE Turn(g[k - 1], k)]
<1>1. N \in Nat
  BY DEF Text
<1>2. \A s \in Decoding, i \in 1..N : Turn(s, i) \in Decoding
  BY DecodeTurns
<1>4. start \in Decoding
  BY DEF Decoding, Text
<1> HIDE DEF Turn, N, start
<1>3. turn \in Turns(Decoding, N)
  BY <1>2 DEF Turns
<1>5. PICK g : IsLoop(g, Decoding, N, start, turn)
  <2> HIDE DEF turn, f
  <2> QED BY <1>1, <1>3, <1>4, LoopExists
<1>6. \A k \in 0..N : k # 0 => turn[<<g[k - 1], k>>] = Turn(g[k - 1], k)
  <2> TAKE k \in 0..N
  <2> HAVE k # 0
  <2>1. g \in [0..N -> Decoding]
    BY <1>5 DEF IsLoop
  <2>2. k - 1 \in 0..N /\ k \in 1..N
    BY <1>1
  <2>3. <<g[k - 1], k>> \in Decoding \X (1..N)
    BY <2>1, <2>2
  <2> QED BY <2>3
<1> HIDE DEF turn
<1>7. g = [k \in 0..N |-> IF k = 0 THEN start ELSE Turn(g[k - 1], k)]
  BY <1>5, <1>6 DEF IsLoop
<1>8. f = [k \in 0..N |-> IF k = 0 THEN start ELSE Turn(f[k - 1], k)]
  BY <1>7, Zenon
<1>9. percent_decode(t) = f[N].output
  BY Zenon DEF percent_decode, Loop, N, Turn, start
<1> HIDE DEF f
<1>10. f[0] = start /\ \A k \in 1..N : f[k] = Turn(f[k - 1], k)
  BY <1>1, <1>8
<1> DEFINE G == {n \in 0..N : f[n] \in Decoding}
<1>11. 0 \in G /\ \A n \in 1..N : n - 1 \in G => n \in G
  BY <1>1, <1>2, <1>4, <1>10
<1>12. 0..N \subseteq G
  <2> HIDE DEF G
  <2> QED BY <1>1, <1>11, Induction
<1>13. f \in [0..N -> Decoding]
  BY <1>8, <1>12
<1> QED BY <1>9, <1>10, <1>13 DEF N, Turn, start

LEMMA DecodedText ==
  ASSUME NEW t \in Text
  PROVE  percent_decode(t) \in Text
<1>1. PICK f \in [0..Len(t) -> Decoding] :
         /\ f[0] = [read |-> 0, output |-> <<>>]
         /\ \A k \in 1..Len(t) : f[k] = DecodeTurn(t, f[k - 1])
         /\ percent_decode(t) = f[Len(t)].output
  BY DecodeLoop
<1>2. Len(t) \in 0..Len(t)
  BY DEF Text
<1>3. f[Len(t)] \in Decoding
  BY <1>1, <1>2
<1> QED BY <1>1, <1>3 DEF Decoding
-------------------------------------------------------------------------------
(* Percent escapes *)

\* What a client may send for the i-th byte.
Piece(t, P, i) == IF i \in P THEN <<Percent>> \o Hex(t[i], 2) ELSE <<t[i]>>

\* The quotients whose remainders are the digits of n.
IsHex(n, width, q) ==
  /\ q \in [0..width -> Nat] /\ q[0] = n
  /\ \A k \in 1..width : q[k] = q[k - 1] \div 16
  /\ Hex(n, width) = [i \in 1..width |-> HexDigit(q[width - i] % 16)]

LEMMA HexQuotients ==
  ASSUME NEW n \in Nat, NEW width \in Nat
  PROVE  \E q : IsHex(n, width, q)
<1> DEFINE Next(v, k) == v \div 16
           turn == [p \in Nat \X (1..width) |-> Next(p[1], p[2])]
           q == CHOOSE g : g = [k \in 0..width |-> IF k = 0 THEN n ELSE g[k - 1] \div 16]
<1>1. turn \in Turns(Nat, width)
  BY DEF Turns
<1>2. PICK g \in [0..width -> Nat] :
             g = [k \in 0..width |-> IF k = 0 THEN n ELSE turn[<<g[k - 1], k>>]]
  <2> HIDE DEF turn
  <2>1. PICK g : IsLoop(g, Nat, width, n, turn)
    BY <1>1, LoopExists
  <2> QED BY <2>1 DEF IsLoop
<1>3. \A k \in 0..width : k # 0 => turn[<<g[k - 1], k>>] = g[k - 1] \div 16
  <2> TAKE k \in 0..width
  <2> HAVE k # 0
  <2>1. <<g[k - 1], k>> \in Nat \X (1..width)
    OBVIOUS
  <2> QED BY <2>1
<1>4. \E h : h = [k \in 0..width |-> IF k = 0 THEN n ELSE h[k - 1] \div 16]
  <2> HIDE DEF turn
  <2> QED BY <1>2, <1>3
<1>5. q = [k \in 0..width |-> IF k = 0 THEN n ELSE q[k - 1] \div 16]
  BY <1>4, Zenon
<1>6. Hex(n, width) = [i \in 1..width |-> HexDigit(q[width - i] % 16)]
  BY Zenon DEF Hex
<1> HIDE DEF q
<1>7. q[0] = n /\ \A k \in 1..width : q[k] = q[k - 1] \div 16
  BY <1>5
<1> DEFINE G == {k \in 0..width : q[k] \in Nat}
<1>8. 0 \in G
  BY <1>7
<1>9. \A k \in 1..width : k - 1 \in G => k \in G
  BY <1>7
<1>10. 0..width \subseteq G
  <2> HIDE DEF G
  <2> QED BY <1>8, <1>9, Induction
<1>11. \A k \in 0..width : q[k] \in Nat
  BY <1>10
<1>12. q \in [0..width -> Nat]
  BY <1>5, <1>11
<1> QED BY <1>6, <1>7, <1>12 DEF IsHex

LEMMA TwoDigits ==
  ASSUME NEW b \in Byte
  PROVE  /\ Hex(b, 2) \in Text /\ Len(Hex(b, 2)) = 2
         /\ hex_digit(Hex(b, 2)[1]) = b \div 16 /\ hex_digit(Hex(b, 2)[2]) = b % 16
         /\ (b \div 16) * 16 + (b % 16) = b
<1>1. PICK q : IsHex(b, 2, q)
  <2>1. b \in Nat
    BY DEF Byte
  <2> QED BY <2>1, HexQuotients
<1>2. b \div 16 \in 0..15 /\ b % 16 \in 0..15 /\ (b \div 16) * 16 + (b % 16) = b
  BY DEF Byte
<1>3. q[2 - 1] = b \div 16 /\ q[2 - 2] = b /\ (b \div 16) % 16 = b \div 16
  BY <1>1 DEF Byte, IsHex
<1>4. \A n \in 0..15 : HexDigit(n) \in Byte /\ hex_digit(HexDigit(n)) = n
  <2> TAKE n \in 0..15
  <2>1. CASE n < 10
    <3>1. HexDigit(n) = 48 + n /\ 48 + n \in 48..57
      BY <2>1 DEF HexDigit
    <3>2. hex_digit(HexDigit(n)) = (48 + n) - 48
      BY <3>1 DEF hex_digit, IsDigit
    <3> QED BY <3>1, <3>2 DEF Byte
  <2>2. CASE ~(n < 10)
    <3>1. HexDigit(n) = 87 + n /\ 87 + n \in 97..102 /\ 87 + n \notin 48..57 /\ 87 + n \notin 65..70
      BY <2>2 DEF HexDigit
    <3>2. hex_digit(HexDigit(n)) = (87 + n) - 87
      BY <3>1 DEF hex_digit, IsDigit
    <3> QED BY <3>1, <3>2 DEF Byte
  <2> QED BY <2>1, <2>2
<1> DEFINE h == Hex(b, 2)
<1>5. h = [i \in 1..2 |-> HexDigit(q[2 - i] % 16)]
  BY <1>1 DEF IsHex
<1> HIDE DEF h
<1>6. h[1] = HexDigit(b \div 16) /\ h[2] = HexDigit(b % 16)
  BY <1>3, <1>5
<1>7. \A i \in 1..2 : i = 1 \/ i = 2
  OBVIOUS
<1>8. h[1] \in Byte /\ h[2] \in Byte
  BY <1>2, <1>4, <1>6
<1>9. DOMAIN h = 1..2 /\ h = [i \in 1..2 |-> h[i]]
  BY <1>5
<1>10. h \in [1..2 -> Byte]
  BY <1>7, <1>8, <1>9
<1>11. h \in Text /\ Len(h) = 2
  BY <1>10, FunctionIsSeq DEF Text
<1>12. hex_digit(h[1]) = b \div 16 /\ hex_digit(h[2]) = b % 16
  BY <1>2, <1>4, <1>6
<1> QED BY <1>2, <1>11, <1>12 DEF h

LEMMA Pieces ==
  ASSUME NEW t \in Text, NEW P, NEW i \in 1..Len(t)
  PROVE  LET p == Piece(t, P, i)
         IN  /\ p \in Text
             /\ i \in P => /\ Len(p) = 3 /\ p[1] = Percent
                           /\ hex_digit(p[2]) = t[i] \div 16 /\ hex_digit(p[3]) = t[i] % 16
             /\ i \notin P => Len(p) = 1 /\ p[1] = t[i]
             /\ t[i] \in Byte
<1>1. t[i] \in Byte
  BY DEF Text
<1>2. CASE i \in P
  <2> DEFINE h == Hex(t[i], 2)
             c == <<Percent>>
             p == c \o h
  <2>1. h \in Text /\ Len(h) = 2 /\ hex_digit(h[1]) = t[i] \div 16 /\ hex_digit(h[2]) = t[i] % 16
    BY <1>1, TwoDigits
  <2>2. c \in Text /\ Len(c) = 1 /\ c[1] = Percent
    BY OneByte DEF Byte, Percent
  <2>3. Piece(t, P, i) = p
    BY <1>2 DEF Piece
  <2> HIDE DEF c, h
  <2>4. /\ p \in Text /\ Len(p) = 1 + 2
        /\ \A j \in 1..1 : p[j] = c[j]
        /\ \A j \in (1 + 1)..(1 + 2) : p[j] = h[j - 1]
    <3>1. /\ c \o h \in Text /\ Len(c \o h) = Len(c) + Len(h)
          /\ \A j \in 1..Len(c) : (c \o h)[j] = c[j]
          /\ \A j \in (Len(c) + 1)..(Len(c) + Len(h)) : (c \o h)[j] = h[j - Len(c)]
      BY <2>1, <2>2, JoinedTexts
    <3>2. Len(c) = 1 /\ Len(h) = 2
      BY <2>1, <2>2
    <3> HIDE DEF p
    <3> QED BY <3>1, <3>2 DEF p
  <2> HIDE DEF p
  <2>5. p[1] = c[1] /\ p[2] = h[2 - 1] /\ p[3] = h[3 - 1] /\ Len(p) = 3 /\ 2 - 1 = 1 /\ 3 - 1 = 2
    BY <2>4
  <2> QED BY <1>1, <1>2, <2>1, <2>2, <2>3, <2>4, <2>5
<1>3. CASE i \notin P
  <2>1. Piece(t, P, i) = <<t[i]>>
    BY <1>3 DEF Piece
  <2> QED BY <1>1, <1>3, <2>1, OneByte
<1> QED BY <1>2, <1>3

\* f has the escaped text as it grows, piece by piece.
Escaping(t, P, f) ==
  /\ f \in [0..Len(t) -> Text]
  /\ f[0] = <<>>
  /\ \A k \in 1..Len(t) : f[k] = f[k - 1] \o Piece(t, P, k)

LEMMA EscapeLoop ==
  ASSUME NEW t \in Text, NEW P
  PROVE  \E f : Escaping(t, P, f) /\ Escaped(t, P) = f[Len(t)]
<1> DEFINE N == Len(t)
           Turn(s, i) == s \o Piece(t, P, i)
           turn == [p \in Text \X (1..N) |-> Turn(p[1], p[2])]
           f == CHOOSE g : g = [k \in 0..N |-> IF k = 0 THEN <<>> ELSE Turn(g[k - 1], k)]
<1>1. N \in Nat
  BY DEF Text
<1>2. \A s \in Text, i \in 1..N : Turn(s, i) \in Text
  <2> TAKE s \in Text, i \in 1..N
  <2>1. Piece(t, P, i) \in Text
    BY Pieces
  <2> QED BY <2>1, JoinedTexts
<1>4. <<>> \in Text
  BY DEF Text
<1>9. Escaped(t, P) = f[N]
  BY Zenon DEF Escaped, Loop, N, Turn, Piece
<1> HIDE DEF Turn, N
<1>3. turn \in Turns(Text, N)
  BY <1>2 DEF Turns
<1>5. PICK g : IsLoop(g, Text, N, <<>>, turn)
  <2> HIDE DEF turn, f
  <2> QED BY <1>1, <1>3, <1>4, LoopExists
<1>6. \A k \in 0..N : k # 0 => turn[<<g[k - 1], k>>] = Turn(g[k - 1], k)
  <2> TAKE k \in 0..N
  <2> HAVE k # 0
  <2>1. g \in [0..N -> Text]
    BY <1>5 DEF IsLoop
  <2>2. k - 1 \in 0..N /\ k \in 1..N
    BY <1>1
  <2>3. <<g[k - 1], k>> \in Text \X (1..N)
    BY <2>1, <2>2
  <2> QED BY <2>3
<1> HIDE DEF turn
<1>7. g = [k \in 0..N |-> IF k = 0 THEN <<>> ELSE Turn(g[k - 1], k)]
  BY <1>5, <1>6 DEF IsLoop
<1>8. f = [k \in 0..N |-> IF k = 0 THEN <<>> ELSE Turn(f[k - 1], k)]
  BY <1>7, Zenon
<1> HIDE DEF f
<1>10. f[0] = <<>> /\ \A k \in 1..N : f[k] = Turn(f[k - 1], k)
  BY <1>1, <1>8
<1> DEFINE G == {n \in 0..N : f[n] \in Text}
<1>11. 0 \in G /\ \A n \in 1..N : n - 1 \in G => n \in G
  BY <1>1, <1>2, <1>4, <1>10
<1>12. 0..N \subseteq G
  <2> HIDE DEF G
  <2> QED BY <1>1, <1>11, Induction
<1>13. f \in [0..N -> Text]
  BY <1>8, <1>12
<1> QED BY <1>9, <1>10, <1>13 DEF N, Turn, Escaping

\* Later pieces leave the earlier ones as they are.
LEMMA EscapedPrefix ==
  ASSUME NEW t \in Text, NEW P, NEW f, Escaping(t, P, f)
  PROVE  \A n \in 0..Len(t) : \A m \in 0..n :
           Len(f[m]) <= Len(f[n]) /\ \A j \in 1..Len(f[m]) : f[n][j] = f[m][j]
<1> DEFINE N == Len(t)
           Keeps(m, n) == Len(f[m]) <= Len(f[n]) /\ \A j \in 1..Len(f[m]) : f[n][j] = f[m][j]
           G == {n \in 0..N : \A m \in 0..n : Keeps(m, n)}
<1>1. N \in Nat
  BY DEF Text
<1>2. \A n \in 0..N : f[n] \in Text /\ Len(f[n]) \in Nat
  <2>1. \A n \in 0..N : f[n] \in Text
    BY DEF Escaping
  <2>2. \A u \in Text : Len(u) \in Nat
    BY DEF Text
  <2> QED BY <2>1, <2>2
<1>3. \A n \in 0..N : Keeps(n, n)
  BY <1>2
<1>4. ASSUME NEW n \in 1..N, \A m \in 0..(n - 1) : Keeps(m, n - 1)
      PROVE  \A m \in 0..n : Keeps(m, n)
  <2> TAKE m \in 0..n
  <2>1. CASE m = n
    BY <1>1, <1>3, <2>1
  <2>2. CASE m # n
    <3>1. m \in 0..(n - 1) /\ n - 1 \in 0..N /\ m \in 0..N /\ n \in 0..N
      BY <1>1, <2>2
    <3>2. Piece(t, P, n) \in Text
      BY Pieces
    <3>3. f[n] = f[n - 1] \o Piece(t, P, n)
      BY DEF Escaping
    <3>4. /\ Len(f[n]) = Len(f[n - 1]) + Len(Piece(t, P, n)) /\ Len(Piece(t, P, n)) \in Nat
          /\ \A j \in 1..Len(f[n - 1]) : f[n][j] = f[n - 1][j]
      BY <1>2, <3>1, <3>2, <3>3, JoinedTexts
    <3>5. Len(f[m]) \in Nat /\ Len(f[n - 1]) \in Nat /\ Len(f[n]) \in Nat
      BY <1>2, <3>1
    <3>6. Len(f[m]) <= Len(f[n - 1]) /\ \A j \in 1..Len(f[m]) : f[n - 1][j] = f[m][j]
      BY <1>4, <3>1
    <3>7. \A j \in 1..Len(f[m]) : j \in 1..Len(f[n - 1])
      BY <3>5, <3>6
    <3>8. \A j \in 1..Len(f[m]) : f[n][j] = f[m][j]
      BY <3>4, <3>6, <3>7
    <3>9. Len(f[m]) <= Len(f[n])
      BY <3>4, <3>5, <3>6
    <3> QED BY <3>8, <3>9
  <2> QED BY <2>1, <2>2
<1>5. \A m \in 0..0 : Keeps(m, 0)
  BY <1>1, <1>3
<1> HIDE DEF Keeps
<1>6. 0 \in G
  BY <1>1, <1>5
<1>7. \A n \in 1..N : n - 1 \in G => n \in G
  BY <1>4
<1>8. 0..N \subseteq G
  <2> HIDE DEF G
  <2> QED BY <1>1, <1>6, <1>7, Induction
<1> QED BY <1>8 DEF N, Keeps

\* Where the k-th piece lies in the escaped text e, and how much is before it.
IsPieceAt(t, P, e, o, k) ==
  /\ o \in Nat /\ o + Len(Piece(t, P, k)) <= Len(e)
  /\ \A j \in 1..Len(Piece(t, P, k)) : e[o + j] = Piece(t, P, k)[j]

LEMMA PieceAt ==
  ASSUME NEW t \in Text, NEW P, NEW f, Escaping(t, P, f), NEW k \in 1..Len(t)
  PROVE  /\ IsPieceAt(t, P, f[Len(t)], Len(f[k - 1]), k)
         /\ Len(f[k]) = Len(f[k - 1]) + Len(Piece(t, P, k))
<1>1. Len(t) \in Nat /\ k \in 0..Len(t) /\ k - 1 \in 0..Len(t) /\ Len(t) \in 0..Len(t) /\ k \in 0..Len(t)
  BY DEF Text
<1>2. f[k] \in Text /\ f[k - 1] \in Text /\ Piece(t, P, k) \in Text /\ f[k] = f[k - 1] \o Piece(t, P, k)
  BY <1>1, Pieces DEF Escaping
<1>3. PICK a \in Text, p \in Text : a = f[k - 1] /\ p = Piece(t, P, k)
  BY <1>2
<1>4. /\ Len(a \o p) = Len(a) + Len(p) /\ Len(a) \in Nat /\ Len(p) \in Nat
      /\ \A i \in (Len(a) + 1)..(Len(a) + Len(p)) : (a \o p)[i] = p[i - Len(a)]
  BY JoinedTexts
<1>5. PICK c : c = f[k]
  OBVIOUS
<1>6. c = a \o p
  BY <1>2, <1>3, <1>5
<1>7. PICK e : e = f[Len(t)]
  OBVIOUS
<1>8. Len(c) <= Len(e) /\ \A j \in 1..Len(c) : e[j] = c[j]
  BY <1>1, <1>5, <1>7, EscapedPrefix
<1>9. ASSUME NEW j \in 1..Len(p) PROVE e[Len(a) + j] = p[j]
  <2>1. /\ Len(a) + j \in (Len(a) + 1)..(Len(a) + Len(p)) /\ Len(a) + j \in 1..Len(c)
        /\ (Len(a) + j) - Len(a) = j
    BY <1>4, <1>6
  <2> QED BY <1>4, <1>6, <1>8, <2>1
<1> QED BY <1>3, <1>4, <1>5, <1>6, <1>7, <1>8, <1>9 DEF IsPieceAt

LEMMA Decodes ==
  ASSUME NEW t \in Text, NEW P, \A i \in 1..Len(t) : t[i] = Percent => i \in P
  PROVE  percent_decode(Escaped(t, P)) = t
<1>1. PICK f : Escaping(t, P, f) /\ Escaped(t, P) = f[Len(t)]
  BY EscapeLoop
<1> DEFINE N == Len(t)
           e == f[N]
           M == Len(e)
<1>2. N \in Nat /\ N \in 0..N /\ e \in Text /\ M \in Nat
  BY <1>1 DEF Text, Escaping
<1>3. PICK d \in [0..M -> Decoding] :
         /\ d[0] = [read |-> 0, output |-> <<>>]
         /\ \A k \in 1..M : d[k] = DecodeTurn(e, d[k - 1])
         /\ percent_decode(e) = d[M].output
  BY <1>2, DecodeLoop
<1>4. \A k \in 1..N : /\ Len(f[k - 1]) \in Nat /\ Len(f[k]) = Len(f[k - 1]) + Len(Piece(t, P, k))
                      /\ Len(f[k]) <= M /\ Len(Piece(t, P, k)) \in {1, 3}
  <2> TAKE k \in 1..N
  <2>1. /\ Len(f[k - 1]) \in Nat /\ Len(f[k]) = Len(f[k - 1]) + Len(Piece(t, P, k))
        /\ Len(f[k]) <= M
    BY <1>1, PieceAt DEF IsPieceAt
  <2>2. Len(Piece(t, P, k)) \in {1, 3}
    <3>1. CASE k \in P
      BY <3>1, Pieces
    <3>2. CASE k \notin P
      BY <3>2, Pieces
    <3> QED BY <3>1, <3>2
  <2> QED BY <2>1, <2>2
<1>5. Len(f[0]) = 0 /\ \A n \in 0..N : Len(f[n]) \in Nat /\ SubSeq(t, 1, n) \in Text
  <2>1. Len(f[0]) = 0
    BY <1>1 DEF Escaping
  <2>2. \A n \in 0..N : Len(f[n]) \in Nat
    BY <1>1 DEF Text, Escaping
  <2>3. \A n \in 0..N : SubSeq(t, 1, n) \in Text
    <3> TAKE n \in 0..N
    <3>1. 1 \in 1..(N + 1)
      BY <1>2
    <3> QED BY <3>1, Stretch
  <2> QED BY <2>1, <2>2, <2>3
\* No piece is empty, so there is a turn for each of them.
<1>6. \A n \in 0..N : n <= Len(f[n])
  <2> DEFINE G == {n \in 0..N : n <= Len(f[n])}
  <2>1. 0 \in G
    BY <1>2, <1>5
  <2>2. \A n \in 1..N : n - 1 \in G => n \in G
    <3> TAKE n \in 1..N
    <3> HAVE n - 1 \in G
    <3>1. n - 1 <= Len(f[n - 1])
      OBVIOUS
    <3> DEFINE l == Len(Piece(t, P, n))
    <3>2. Len(f[n - 1]) \in Nat /\ Len(f[n]) = Len(f[n - 1]) + l /\ l \in {1, 3}
      BY <1>4
    <3>3. n <= Len(f[n]) /\ n \in 0..N
      <4> HIDE DEF l
      <4> QED BY <1>2, <3>1, <3>2
    <3> QED BY <3>3
  <2>3. 0..N \subseteq G
    <3> HIDE DEF G
    <3> QED BY <1>2, <2>1, <2>2, Induction
  <2> QED BY <2>3
<1>7. N <= M
  BY <1>2, <1>6
\* After k turns the first k pieces are read and the first k bytes are there.
<1> DEFINE Done(k) == d[k] = [read |-> Len(f[k]), output |-> SubSeq(t, 1, k)]
<1>8. Done(0)
  <2>1. SubSeq(t, 1, 0) = <<>>
    BY SubSeqEmpty DEF Text
  <2> QED BY <1>3, <1>5, <2>1
<1>9. ASSUME NEW k \in 1..N, Done(k - 1) PROVE Done(k)
  <2> DEFINE s == d[k - 1]
             o == Len(f[k - 1])
             p == Piece(t, P, k)
  <2>1. k - 1 \in 0..M /\ k \in 1..M /\ k - 1 \in 0..N /\ k \in 0..N
    BY <1>2, <1>7
  <2>2. s \in Decoding /\ s.read = o /\ s.output = SubSeq(t, 1, k - 1) /\ d[k] = DecodeTurn(e, s)
    <3>1. s = [read |-> Len(f[k - 1]), output |-> SubSeq(t, 1, k - 1)]
      BY <1>9
    <3>2. s \in Decoding /\ d[k] = DecodeTurn(e, s)
      BY <1>3, <2>1
    <3> HIDE DEF s
    <3> QED BY <3>1, <3>2
  <2>3. /\ o \in Nat /\ Len(f[k]) = o + Len(p) /\ o + Len(p) <= M
        /\ \A j \in 1..Len(p) : e[o + j] = p[j]
    BY <1>1, PieceAt DEF IsPieceAt
  <2>4. Append(SubSeq(t, 1, k - 1), t[k]) = SubSeq(t, 1, k)
    <3> DEFINE a == SubSeq(t, 1, k)
               b == SubSeq(t, 1, k - 1)
    <3>1. 1 \in 1..(N + 1) /\ (k - 1) - 1 + 1 = k - 1 /\ k - 1 + 1 = k
      BY <1>2
    <3>2. a \in Text /\ Len(a) = k /\ \A i \in 1..k : a[i] = t[i]
      <4>1. /\ a \in Text /\ Len(a) = IF 1 <= k THEN k - 1 + 1 ELSE 0
            /\ \A i \in 1..(k - 1 + 1) : a[i] = t[1 + i - 1]
        BY <2>1, <3>1, Stretch
      <4>2. \A i \in 1..k : 1 + i - 1 = i
        OBVIOUS
      <4> HIDE DEF a
      <4> QED BY <3>1, <4>1, <4>2
    <3>3. b \in Text /\ Len(b) = k - 1 /\ \A i \in 1..(k - 1) : b[i] = t[i]
      <4>1. /\ b \in Text /\ Len(b) = IF 1 <= k - 1 THEN (k - 1) - 1 + 1 ELSE 0
            /\ \A i \in 1..((k - 1) - 1 + 1) : b[i] = t[1 + i - 1]
        BY <2>1, <3>1, Stretch
      <4>2. \A i \in 1..(k - 1) : 1 + i - 1 = i
        OBVIOUS
      <4> HIDE DEF b
      <4> QED BY <3>1, <4>1, <4>2
    <3> HIDE DEF a, b
    <3>4. a \in [1..k -> Byte] /\ k \in Nat /\ k > 0
      BY <3>2 DEF Text
    <3>5. \A i \in 1..(k - 1) : b[i] = a[i]
      BY <3>2, <3>3
    <3>6. a[k] = t[k]
      BY <3>2
    <3>7. Append(b, a[k]) = a
      BY <3>3, <3>4, <3>5, AppendFunction DEF Text
    <3> QED BY <3>6, <3>7 DEF a, b
  <2> HIDE DEF s, o, p, e, M
  <2>5. CASE k \in P
    <3>1. /\ Len(p) = 3 /\ p[1] = Percent
          /\ hex_digit(p[2]) = t[k] \div 16 /\ hex_digit(p[3]) = t[k] % 16 /\ t[k] \in Byte
      BY <2>5, Pieces DEF p
    <3>2. e[o + 1] = p[1] /\ e[o + 2] = p[2] /\ e[o + 3] = p[3]
      BY <2>3, <3>1
    <3>3. hex_digit(p[2]) >= 0 /\ hex_digit(p[3]) >= 0
      <4>1. \A b \in Byte : b \div 16 >= 0 /\ b % 16 >= 0
        BY DEF Byte
      <4> QED BY <3>1, <4>1
    <3>4. o + 1 + 2 <= M /\ o < M /\ o + 1 + 1 = o + 2 /\ o + 1 + 2 = o + 3
      BY <1>2, <2>3, <3>1
    <3>5. DecodesEscape(e, s)
      BY <2>2, <3>1, <3>2, <3>3, <3>4 DEF DecodesEscape, M
    <3>6. d[k] = [read |-> o + 3, output |-> Append(s.output, hex_digit(e[o + 2]) * 16 + hex_digit(e[o + 3]))]
      BY <1>2, <2>2, <3>4, <3>5, DecodeTurns DEF M
    <3>7. hex_digit(e[o + 2]) * 16 + hex_digit(e[o + 3]) = t[k]
      <4>1. (t[k] \div 16) * 16 + (t[k] % 16) = t[k]
        BY <3>1, TwoDigits
      <4> QED BY <3>1, <3>2, <4>1
    <3>8. Len(f[k]) = o + 3
      BY <2>3, <3>1
    <3> QED BY <2>2, <2>4, <3>6, <3>7, <3>8
  <2>6. CASE k \notin P
    <3>1. Len(p) = 1 /\ p[1] = t[k] /\ t[k] # Percent
      BY <2>6, Pieces DEF p
    <3>2. e[o + 1] = t[k]
      BY <2>3, <3>1
    <3>3. ~DecodesEscape(e, s)
      BY <2>2, <3>1, <3>2 DEF DecodesEscape
    <3>4. o < M /\ Len(f[k]) = o + 1
      BY <1>2, <2>3, <3>1
    <3>5. d[k] = [read |-> o + 1, output |-> Append(s.output, e[o + 1])]
      BY <1>2, <2>2, <3>3, <3>4, DecodeTurns DEF M
    <3> QED BY <2>2, <2>4, <3>2, <3>4, <3>5
  <2> QED BY <2>5, <2>6
<1>10. \A k \in 0..N : Done(k)
  <2> DEFINE G == {k \in 0..N : Done(k)}
  <2>1. 0 \in G /\ \A k \in 1..N : k - 1 \in G => k \in G
    <3> HIDE DEF Done
    <3> QED BY <1>2, <1>8, <1>9
  <2>2. 0..N \subseteq G
    <3> HIDE DEF G
    <3> QED BY <1>2, <2>1, Induction
  <2> QED BY <2>2
\* The other turns find nothing left.
<1>11. d[N] = [read |-> M, output |-> t]
  <2>1. SubSeq(t, 1, N) = t
    BY SubSeqFull DEF Text
  <2> QED BY <1>2, <1>10, <2>1
<1> DEFINE H == {m \in 0..M : m >= N => d[m] = d[N]}
<1>12. 0..M \subseteq H
  <2>1. 0 \in H
    BY <1>2
  <2>2. ASSUME NEW m \in 1..M, m - 1 \in H PROVE m \in H
    <3>1. CASE m <= N
      <4>1. m >= N => m = N
        BY <1>2, <3>1
      <4> QED BY <4>1
    <3>2. CASE m > N
      <4>1. m - 1 >= N /\ m - 1 \in 0..M
        BY <1>2, <3>2
      <4>2. d[m - 1] = d[N]
        BY <2>2, <4>1
      <4>3. d[m] = DecodeTurn(e, d[m - 1])
        BY <1>3
      <4>4. N \in 0..M
        BY <1>2, <1>7
      <4>5. d[N] \in Decoding /\ d[N].read >= M
        BY <1>2, <1>11, <4>4
      <4>6. DecodeTurn(e, d[N]) = d[N]
        BY <1>2, <4>5, DecodeTurns
      <4> QED BY <4>2, <4>3, <4>6
    <3> QED BY <1>2, <3>1, <3>2
  <2> HIDE DEF H
  <2> QED BY <1>2, <2>1, <2>2, Induction
<1>13. d[M] = d[N]
  BY <1>2, <1>7, <1>12
<1> QED BY <1>1, <1>3, <1>11, <1>13
-------------------------------------------------------------------------------
(* The split of a path *)

\* A suffix is what the text ends in, byte by byte.
LEMMA SuffixBytes ==
  ASSUME NEW s \in Text, NEW t \in Text
  PROVE  IsSuffix(s, t) <=> /\ Len(s) <= Len(t)
                            /\ \A k \in 1..Len(s) : s[k] = t[Len(t) - Len(s) + k]
<1> DEFINE R(u) == [i \in 1..Len(u) |-> u[(Len(u) - i) + 1]]
           K == Len(s)
           N == Len(t)
           a == SubSeq(R(s), 1, K)
           b == SubSeq(R(t), 1, K)
<1>1. K \in Nat /\ N \in Nat
  BY DEF Text
<1>2. \A u \in Text : R(u) \in Text /\ Len(R(u)) = Len(u) /\ \A i \in 1..Len(u) : R(u)[i] = u[(Len(u) - i) + 1]
  <2> TAKE u \in Text
  <2>1. Len(u) \in Nat /\ \A i \in 1..Len(u) : u[i] \in Byte
    BY DEF Text
  <2>2. \A i \in 1..Len(u) : (Len(u) - i) + 1 \in 1..Len(u)
    BY <2>1
  <2>3. R(u) \in [1..Len(u) -> Byte]
    BY <2>1, <2>2
  <2>4. \A i \in 1..Len(u) : R(u)[i] = u[(Len(u) - i) + 1]
    OBVIOUS
  <2> HIDE DEF R
  <2> QED BY <2>1, <2>3, <2>4, FunctionIsSeq DEF Text
<1>3. IsSuffix(s, t) <=> K <= N /\ a = b
  <2>1. Reverse(s) = R(s) /\ Reverse(t) = R(t)
    BY DEF Reverse, R
  <2>2. Len(R(s)) = K /\ Len(R(t)) = N
    BY <1>2
  <2> HIDE DEF R
  <2> QED BY <2>1, <2>2 DEF IsSuffix, IsPrefix
<1> HIDE DEF R
<1>4. ASSUME K <= N PROVE a = b <=> \A i \in 1..K : s[(K - i) + 1] = t[(N - i) + 1]
  <2>0. R(s) \in Text /\ R(t) \in Text /\ Len(R(s)) = K /\ Len(R(t)) = N
    BY <1>2
  <2>1. 1 \in 1..(K + 1) /\ 1 \in 1..(N + 1) /\ K \in 0..K /\ K \in 0..N
    BY <1>1, <1>4
  <2>2. /\ a \in Text /\ Len(a) = IF 1 <= K THEN K - 1 + 1 ELSE 0
        /\ \A i \in 1..(K - 1 + 1) : a[i] = R(s)[1 + i - 1]
    BY <2>0, <2>1, Stretch
  <2>3. /\ b \in Text /\ Len(b) = IF 1 <= K THEN K - 1 + 1 ELSE 0
        /\ \A i \in 1..(K - 1 + 1) : b[i] = R(t)[1 + i - 1]
    BY <2>0, <2>1, Stretch
  <2>4. K - 1 + 1 = K /\ \A i \in 1..K : 1 + i - 1 = i /\ i \in 1..N
    BY <1>1, <1>4
  <2> HIDE DEF a, b
  <2>5. Len(a) = K /\ Len(b) = K
    BY <1>1, <2>2, <2>3
  <2>6. \A i \in 1..K : a[i] = s[(K - i) + 1] /\ b[i] = t[(N - i) + 1]
    BY <1>2, <2>2, <2>3, <2>4
  <2>7. a = b <=> \A i \in 1..K : a[i] = b[i]
    BY <2>2, <2>3, <2>5, SeqEqual DEF Text
  <2> QED BY <2>6, <2>7
<1>5. ASSUME K <= N
      PROVE  (\A i \in 1..K : s[(K - i) + 1] = t[(N - i) + 1]) <=> (\A k \in 1..K : s[k] = t[N - K + k])
  <2>1. ASSUME \A i \in 1..K : s[(K - i) + 1] = t[(N - i) + 1], NEW k \in 1..K
        PROVE  s[k] = t[N - K + k]
    <3>1. (K - k) + 1 \in 1..K /\ (K - ((K - k) + 1)) + 1 = k /\ (N - ((K - k) + 1)) + 1 = N - K + k
      BY <1>1
    <3>2. s[(K - ((K - k) + 1)) + 1] = t[(N - ((K - k) + 1)) + 1]
      BY <2>1, <3>1
    <3> QED BY <3>1, <3>2
  <2>2. ASSUME \A k \in 1..K : s[k] = t[N - K + k], NEW i \in 1..K
        PROVE  s[(K - i) + 1] = t[(N - i) + 1]
    <3>1. (K - i) + 1 \in 1..K /\ N - K + ((K - i) + 1) = (N - i) + 1
      BY <1>1
    <3>2. s[(K - i) + 1] = t[N - K + ((K - i) + 1)]
      BY <2>2, <3>1
    <3> QED BY <3>1, <3>2
  <2> QED BY <2>1, <2>2
<1> HIDE DEF a, b
<1> QED BY <1>3, <1>4, <1>5 DEF K, N

\* A match, whatever the case the entry and the path are written in.
LEMMA MatchIsSuffix ==
  ASSUME NEW t \in Text, NEW e \in Text, \A i \in DOMAIN e : IsAscii(e[i]), NEW n \in 0..Len(t)
  PROVE  /\ Lowercase(e) \in Text /\ Len(Lowercase(e)) = Len(e)
         /\ n \in MatchEnds(t, Lowercase(e)) <=> IsSuffix(Lowercase(e), Lowercase(SubSeq(t, 1, n)))
<1> DEFINE p == SubSeq(t, 1, n)
           K == Len(e)
<1>1. \A u \in Text : /\ Lowercase(u) \in Text /\ Len(Lowercase(u)) = Len(u) /\ Len(u) \in Nat
                      /\ DOMAIN u = 1..Len(u) /\ DOMAIN Lowercase(u) = 1..Len(u)
                      /\ \A i \in 1..Len(u) : Lowercase(u)[i] = ToLower(u[i])
  <2> TAKE u \in Text
  <2>1. Len(u) \in Nat /\ DOMAIN u = 1..Len(u) /\ \A i \in 1..Len(u) : u[i] \in Byte
    BY DEF Text
  <2>2. \A i \in 1..Len(u) : ToLower(u[i]) \in Byte
    <3>1. \A b \in Byte : ToLower(b) \in Byte
      BY DEF Byte, ToLower, IsUpper
    <3> QED BY <2>1, <3>1
  <2>3. Lowercase(u) = [i \in 1..Len(u) |-> ToLower(u[i])]
    BY <2>1 DEF Lowercase
  <2>4. Lowercase(u) \in [1..Len(u) -> Byte]
    BY <2>2, <2>3
  <2>5. Lowercase(u) \in Text /\ Len(Lowercase(u)) = Len(u)
    BY <2>1, <2>4, FunctionIsSeq DEF Text
  <2> QED BY <2>1, <2>3, <2>5
<1>2. Len(t) \in Nat /\ K \in Nat /\ DOMAIN e = 1..K /\ \A i \in 1..K : e[i] \in Byte /\ IsAscii(e[i])
  BY DEF Text
<1>3. p \in Text /\ Len(p) = n /\ \A i \in 1..n : p[i] = t[i]
  <2>1. 1 \in 1..(Len(t) + 1) /\ n - 1 + 1 = n /\ \A i \in 1..n : 1 + i - 1 = i
    BY <1>2
  <2>2. /\ p \in Text /\ Len(p) = IF 1 <= n THEN n - 1 + 1 ELSE 0
        /\ \A i \in 1..(n - 1 + 1) : p[i] = t[1 + i - 1]
    BY <2>1, Stretch
  <2> HIDE DEF p
  <2> QED BY <1>2, <2>1, <2>2
<1> DEFINE low == Lowercase(e)
           lp == Lowercase(p)
<1>4. /\ low \in Text /\ Len(low) = K /\ DOMAIN low = 1..K /\ \A i \in 1..K : low[i] = ToLower(e[i])
      /\ lp \in Text /\ Len(lp) = n /\ \A i \in 1..n : lp[i] = ToLower(t[i])
  <2>1. /\ low \in Text /\ Len(low) = K /\ DOMAIN low = 1..K /\ \A i \in 1..K : low[i] = ToLower(e[i])
    BY <1>1
  <2>2. lp \in Text /\ Len(lp) = n /\ \A i \in 1..n : lp[i] = ToLower(p[i])
    BY <1>1, <1>3
  <2> HIDE DEF low, lp, p
  <2> QED BY <1>3, <2>1, <2>2
<1> HIDE DEF low, lp, p, K
<1>5. n \in MatchEnds(t, low) <=>
        n \in K..Len(t) /\ \A k \in 1..K : IsAscii(t[n - K + k]) /\ ToLower(t[n - K + k]) = low[k]
  BY <1>4 DEF MatchEnds
<1>6. IsSuffix(low, lp) <=> K <= n /\ \A k \in 1..K : low[k] = lp[n - K + k]
  BY <1>4, SuffixBytes
<1>7. ASSUME K <= n, NEW k \in 1..K
      PROVE  (IsAscii(t[n - K + k]) /\ ToLower(t[n - K + k]) = low[k]) <=> low[k] = lp[n - K + k]
  <2>1. n - K + k \in 1..n /\ n - K + k \in 1..Len(t)
    BY <1>2, <1>7
  <2>2. lp[n - K + k] = ToLower(t[n - K + k]) /\ low[k] = ToLower(e[k])
    BY <1>4, <2>1
  <2>3. t[n - K + k] \in Byte /\ e[k] \in Byte /\ IsAscii(e[k])
    BY <1>2, <2>1 DEF Text
  <2>4. \A b, c \in Byte : IsAscii(c) /\ ToLower(b) = ToLower(c) => IsAscii(b)
    BY DEF Byte, IsAscii, ToLower, IsUpper
  <2> QED BY <2>2, <2>3, <2>4
<1>8. K <= n <=> n \in K..Len(t)
  BY <1>2
<1> QED BY <1>4, <1>5, <1>6, <1>7, <1>8 DEF low, lp, p, K

\* A text cut after n of its bytes.
LEMMA CutAfter ==
  ASSUME NEW t \in Text, NEW n \in 0..Len(t)
  PROVE  LET a == SubSeq(t, 1, n)
             b == SubSeq(t, n + 1, Len(t))
         IN  /\ a \in Text /\ Len(a) = n /\ \A i \in 1..n : a[i] = t[i]
             /\ b \in Text /\ Len(b) = Len(t) - n
             /\ a \o b = t
<1> DEFINE N == Len(t)
           a == SubSeq(t, 1, n)
           b == SubSeq(t, n + 1, N)
<1>1. N \in Nat /\ 1 \in 1..(N + 1) /\ n + 1 \in 1..(N + 1) /\ N \in 0..N
  BY DEF Text
<1>2. a \in Text /\ Len(a) = n /\ \A i \in 1..n : a[i] = t[i]
  <2>1. n - 1 + 1 = n /\ \A i \in 1..n : 1 + i - 1 = i
    BY <1>1
  <2>2. /\ a \in Text /\ Len(a) = IF 1 <= n THEN n - 1 + 1 ELSE 0
        /\ \A i \in 1..(n - 1 + 1) : a[i] = t[1 + i - 1]
    BY <1>1, Stretch
  <2> HIDE DEF a
  <2> QED BY <1>1, <2>1, <2>2
<1>3. b \in Text /\ Len(b) = N - n /\ \A i \in 1..(N - n) : b[i] = t[n + i]
  <2>1. N - (n + 1) + 1 = N - n /\ \A i \in 1..(N - n) : (n + 1) + i - 1 = n + i
    BY <1>1
  <2>2. /\ b \in Text /\ Len(b) = IF n + 1 <= N THEN N - (n + 1) + 1 ELSE 0
        /\ \A i \in 1..(N - (n + 1) + 1) : b[i] = t[(n + 1) + i - 1]
    BY <1>1, Stretch
  <2> HIDE DEF b, N
  <2> QED BY <1>1, <2>1, <2>2
<1> HIDE DEF a, b
<1>4. /\ a \o b \in Text /\ Len(a \o b) = Len(a) + Len(b)
      /\ \A i \in 1..Len(a) : (a \o b)[i] = a[i]
      /\ \A i \in (Len(a) + 1)..(Len(a) + Len(b)) : (a \o b)[i] = b[i - Len(a)]
  BY <1>2, <1>3, JoinedTexts
<1>5. PICK c \in Text : c = a \o b
  BY <1>4
<1>6. Len(c) = N /\ (\A i \in 1..n : c[i] = a[i]) /\ \A i \in (n + 1)..N : c[i] = b[i - n]
  <2>1. Len(a) + Len(b) = N
    BY <1>1, <1>2, <1>3
  <2> QED BY <1>2, <1>4, <1>5, <2>1
<1>7. ASSUME NEW i \in 1..N PROVE c[i] = t[i]
  <2>1. CASE i \in 1..n
    BY <1>2, <1>6, <2>1
  <2>2. CASE i \notin 1..n
    <3>1. i \in (n + 1)..N /\ i - n \in 1..(N - n) /\ n + (i - n) = i
      BY <1>1, <2>2
    <3> QED BY <1>3, <1>6, <3>1
  <2> QED BY <2>1, <2>2
<1>8. c = t
  BY <1>6, <1>7, SeqEqual DEF Text, N
<1> QED BY <1>2, <1>3, <1>5, <1>8 DEF a, b, N

\* The slash that is put before a path that has none.
LEMMA LeadingSlash ==
  ASSUME NEW a \in Text, NEW b \in Text, a # <<>>
  PROVE  ensure_leading_slash(a) \o b = ensure_leading_slash(a \o b)
<1>1. /\ a \o b \in Text /\ Len(a \o b) = Len(a) + Len(b) /\ Len(a) \in Nat /\ Len(b) \in Nat
      /\ \A i \in 1..Len(a) : (a \o b)[i] = a[i]
  BY JoinedTexts
<1>2. Len(a) >= 1 /\ Head(a) = a[1]
  BY DEF Text
<1>3. PICK c \in Text : c = a \o b
  BY <1>1
<1>4. c # <<>> /\ Head(c) = a[1]
  <2>1. Len(c) >= 1 /\ 1 \in 1..Len(a) /\ c[1] = a[1]
    BY <1>1, <1>2, <1>3
  <2> QED BY <2>1 DEF Text
<1>5. CASE a[1] = Slash
  BY <1>2, <1>3, <1>4, <1>5 DEF ensure_leading_slash
<1>6. CASE a[1] # Slash
  <2>1. ensure_leading_slash(a) = <<Slash>> \o a /\ ensure_leading_slash(c) = <<Slash>> \o c
    BY <1>2, <1>4, <1>6 DEF ensure_leading_slash
  <2>2. <<Slash>> \in Text
    BY OneByte DEF Byte, Slash
  <2>3. (<<Slash>> \o a) \o b = <<Slash>> \o (a \o b)
    BY <2>2, ConcatAssociative DEF Text
  <2> QED BY <1>3, <2>1, <2>3
<1> QED BY <1>3, <1>5, <1>6

\* The entries that are found in a path.
Matching(t, splits) == {i \in DOMAIN splits : splits[i] # <<>> /\ MatchEnds(t, splits[i]) # {}}

LEMMA ListPosition ==
  ASSUME NEW t \in Text, NEW splits \in Seq(Text)
  PROVE  LET M == Matching(t, splits)
             pos == split_pos(t, splits)
         IN  /\ splits = <<>> => pos = 0 /\ M = {}
             /\ splits # <<>> /\ M = {} => pos = -1
             /\ M # {} => /\ Min(M) \in M /\ pos = Min(MatchEnds(t, splits[Min(M)]))
                          /\ pos \in MatchEnds(t, splits[Min(M)]) /\ pos \in 1..Len(t)
<1> DEFINE M == Matching(t, splits)
           pos == split_pos(t, splits)
<1>1. Len(splits) \in Nat /\ DOMAIN splits = 1..Len(splits) /\ \A i \in 1..Len(splits) : splits[i] \in Text
  OBVIOUS
<1>2. M \subseteq Nat /\ M \subseteq 1..Len(splits)
  BY <1>1 DEF Matching
<1>3. splits = <<>> => pos = 0 /\ M = {}
  BY <1>1, <1>2 DEF split_pos
<1>4. splits # <<>> /\ M = {} => pos = -1
  BY DEF split_pos, Matching
<1>5. ASSUME M # {}
      PROVE  /\ Min(M) \in M /\ pos = Min(MatchEnds(t, splits[Min(M)]))
             /\ pos \in MatchEnds(t, splits[Min(M)]) /\ pos \in 1..Len(t)
  <2>1. Min(M) \in M
    <3> HIDE DEF M
    <3> QED BY <1>2, <1>5, MinIsLeast
  <2>2. pos = Min(MatchEnds(t, splits[Min(M)]))
    <3>1. splits # <<>>
      BY <1>3, <1>5
    <3> QED BY <1>5, <3>1 DEF split_pos, Matching
  <2> DEFINE m == Min(M)
             e == splits[m]
             E == MatchEnds(t, e)
  <2>3. e \in Text /\ e # <<>> /\ E # {}
    <3> HIDE DEF m
    <3> QED BY <1>1, <2>1 DEF Matching, m
  <2> HIDE DEF e, m
  <2>4. E \subseteq Len(e)..Len(t) /\ Len(e) \in Nat /\ Len(e) >= 1 /\ Len(t) \in Nat
    BY <2>3 DEF MatchEnds, Text
  <2>5. E \subseteq Nat
    BY <2>4
  <2>6. Min(E) \in E
    <3> HIDE DEF E
    <3> QED BY <2>3, <2>5, MinIsLeast
  <2>7. Min(E) \in 1..Len(t)
    BY <2>4, <2>6
  <2> QED BY <2>1, <2>2, <2>6, <2>7 DEF e, m
<1> QED BY <1>3, <1>4, <1>5

\* The entries of a valid list are its own, lower-cased.
LEMMA Entries ==
  ASSUME NEW raw \in Seq(Text), normalize_split_path(raw).ok
  PROVE  LET splits == normalize_split_path(raw).entries
         IN  /\ splits \in Seq(Text) /\ Len(splits) = Len(raw)
             /\ \A i \in 1..Len(raw) : /\ splits[i] = Lowercase(raw[i]) /\ raw[i] \in Text
                                       /\ \A k \in DOMAIN raw[i] : IsAscii(raw[i][k])
<1>1. Len(raw) \in Nat /\ DOMAIN raw = 1..Len(raw) /\ \A i \in 1..Len(raw) : raw[i] \in Text
  OBVIOUS
<1>2. \A e \in Range(raw) : \A i \in DOMAIN e : IsAscii(e[i])
  BY DEF normalize_split_path
<1>3. normalize_split_path(raw).entries = [i \in 1..Len(raw) |-> Lowercase(raw[i])]
  BY <1>1, <1>2 DEF normalize_split_path
<1>4. ASSUME NEW i \in 1..Len(raw) PROVE \A k \in DOMAIN raw[i] : IsAscii(raw[i][k])
  <2>1. raw[i] \in Range(raw)
    BY <1>1 DEF Range
  <2> QED BY <1>2, <2>1
<1>5. ASSUME NEW i \in 1..Len(raw) PROVE Lowercase(raw[i]) \in Text
  <2>1. 0 \in 0..Len(raw[i])
    BY <1>1 DEF Text
  <2> QED BY <1>1, <1>4, <2>1, MatchIsSuffix
<1>6. [i \in 1..Len(raw) |-> Lowercase(raw[i])] \in [1..Len(raw) -> Text]
  BY <1>5
<1>7. \A s : s = [i \in 1..Len(raw) |-> Lowercase(raw[i])] => s \in Seq(Text) /\ Len(s) = Len(raw)
  BY <1>1, <1>6, FunctionIsSeq
<1> QED BY <1>1, <1>3, <1>4, <1>7

\* An entry ends at n, read without regard to case.
Ends(t, n, e) == e # <<>> /\ IsSuffix(Lowercase(e), Lowercase(SubSeq(t, 1, n)))

LEMMA SplitFound ==
  ASSUME NEW t \in Text, NEW raw \in Seq(Text), normalize_split_path(raw).ok
  PROVE  LET paths == split_cgi_path(<<>>, normalize_split_path(raw).entries, t)
             at == Len(paths.doc_uri)
             earliest == {n \in 0..Len(t) : \E e \in Range(raw) : Ends(t, n, e)}
         IN  /\ \/ paths.script_name \o paths.path_info = ensure_leading_slash(t)
                \/ at = 0 /\ paths.path_info = t
             /\ paths.doc_uri # <<>> => paths.doc_uri \o paths.path_info = t
             /\ (earliest # {} /\ Len(raw) = 1) => at = Min(earliest)
             /\ paths.doc_uri # <<>> <=> (raw # <<>> /\ earliest # {})
<1> DEFINE splits == normalize_split_path(raw).entries
           paths == split_cgi_path(<<>>, splits, t)
           earliest == {n \in 0..Len(t) : \E e \in Range(raw) : Ends(t, n, e)}
           pos == split_pos(t, splits)
           M == Matching(t, splits)
<1>1. /\ splits \in Seq(Text) /\ Len(splits) = Len(raw)
      /\ \A i \in 1..Len(raw) : /\ splits[i] = Lowercase(raw[i]) /\ raw[i] \in Text
                                /\ \A k \in DOMAIN raw[i] : IsAscii(raw[i][k])
  BY Entries
<1>2. /\ paths.doc_uri = IF pos >= 0 THEN SubSeq(t, 1, pos) ELSE <<>>
      /\ paths.path_info = IF pos >= 0 THEN SubSeq(t, pos + 1, Len(t)) ELSE <<>>
      /\ paths.script_name = ensure_leading_slash(SubSeq(t, 1, Len(t) - Len(paths.path_info)))
  BY DEF split_cgi_path
<1>3. /\ Len(t) \in Nat /\ Len(raw) \in Nat /\ DOMAIN raw = 1..Len(raw) /\ DOMAIN splits = 1..Len(raw)
      /\ (raw = <<>> <=> Len(raw) = 0) /\ (splits = <<>> <=> Len(raw) = 0)
  BY <1>1 DEF Text
<1> HIDE DEF splits, paths
<1>4. /\ splits = <<>> => pos = 0 /\ M = {}
      /\ splits # <<>> /\ M = {} => pos = -1
      /\ M # {} => /\ Min(M) \in M /\ pos = Min(MatchEnds(t, splits[Min(M)]))
                   /\ pos \in MatchEnds(t, splits[Min(M)]) /\ pos \in 1..Len(t)
  BY <1>1, ListPosition
<1>5. \A i \in 1..Len(raw), n \in 0..Len(t) :
        Ends(t, n, raw[i]) <=> splits[i] # <<>> /\ n \in MatchEnds(t, splits[i])
  <2> TAKE i \in 1..Len(raw), n \in 0..Len(t)
  <2>1. PICK e \in Text : e = raw[i] /\ \A k \in DOMAIN e : IsAscii(e[k])
    BY <1>1
  <2>2. /\ Lowercase(e) \in Text /\ Len(Lowercase(e)) = Len(e)
        /\ n \in MatchEnds(t, Lowercase(e)) <=> IsSuffix(Lowercase(e), Lowercase(SubSeq(t, 1, n)))
    BY <2>1, MatchIsSuffix
  <2>3. Lowercase(e) # <<>> <=> e # <<>>
    BY <2>2 DEF Text
  <2>4. splits[i] = Lowercase(e)
    BY <1>1, <2>1
  <2> QED BY <2>1, <2>2, <2>3, <2>4 DEF Ends
<1>6. \A i \in 1..Len(raw) : splits[i] # <<>> => MatchEnds(t, splits[i]) \subseteq 0..Len(t)
  <2> TAKE i \in 1..Len(raw)
  <2>1. Len(splits[i]) \in Nat /\ MatchEnds(t, splits[i]) \subseteq Len(splits[i])..Len(t)
    BY <1>1, <1>3 DEF MatchEnds, Text
  <2> QED BY <1>3, <2>1
<1>7. earliest = {} <=> M = {}
  <2>1. ASSUME NEW n \in earliest PROVE M # {}
    <3>1. PICK i \in 1..Len(raw) : Ends(t, n, raw[i])
      BY <1>3 DEF Range
    <3>2. i \in M
      BY <1>3, <1>5, <3>1 DEF Matching
    <3> QED BY <3>2
  <2>2. ASSUME NEW i \in M PROVE earliest # {}
    <3>1. i \in 1..Len(raw) /\ splits[i] # <<>> /\ MatchEnds(t, splits[i]) # {}
      BY <1>3 DEF Matching
    <3>2. PICK n \in MatchEnds(t, splits[i]) : n \in 0..Len(t)
      BY <1>6, <3>1
    <3>3. Ends(t, n, raw[i])
      BY <1>5, <3>1, <3>2
    <3>4. raw[i] \in Range(raw)
      BY <1>3, <3>1 DEF Range
    <3> QED BY <3>2, <3>3, <3>4
  <2> HIDE DEF M, earliest
  <2> QED BY <2>1, <2>2
<1>8. ASSUME Len(raw) = 1, M # {} PROVE earliest = MatchEnds(t, splits[1]) /\ M = {1} /\ Min(M) = 1
  <2>1. M = {1}
    <3>1. M \subseteq {1}
      BY <1>3, <1>8 DEF Matching
    <3> QED BY <1>8, <3>1
  <2>2. Range(raw) = {raw[1]} /\ 1 \in 1..Len(raw)
    BY <1>3, <1>8 DEF Range
  <2>3. splits[1] # <<>>
    BY <2>1 DEF Matching
  <2>4. earliest = MatchEnds(t, splits[1])
    <3>1. \A n \in 0..Len(t) : Ends(t, n, raw[1]) <=> n \in MatchEnds(t, splits[1])
      BY <1>5, <2>2, <2>3
    <3>2. MatchEnds(t, splits[1]) \subseteq 0..Len(t)
      BY <1>6, <2>2, <2>3
    <3> QED BY <2>2, <3>1, <3>2
  <2>5. Min(M) = 1
    BY <1>4, <1>8, <2>1
  <2> QED BY <2>1, <2>4, <2>5
<1> HIDE DEF M, pos, earliest
<1>9. SubSeq(t, 1, 0) = <<>> /\ SubSeq(t, 0 + 1, Len(t)) = t /\ SubSeq(t, 1, Len(t)) = t
  BY <1>3, SubSeqEmpty, SubSeqFull DEF Text
<1>10. CASE raw = <<>>
  <2>1. pos = 0 /\ Len(raw) # 1
    BY <1>3, <1>4, <1>10
  <2>2. paths.doc_uri = <<>> /\ paths.path_info = t /\ Len(paths.doc_uri) = 0
    BY <1>2, <1>9, <2>1
  <2> QED BY <1>10, <2>1, <2>2 DEF paths, splits
<1>11. CASE raw # <<>> /\ M = {}
  <2>1. pos = -1 /\ earliest = {}
    BY <1>3, <1>4, <1>7, <1>11
  <2>2. paths.doc_uri = <<>> /\ paths.path_info = <<>> /\ Len(paths.path_info) = 0
    BY <1>2, <2>1
  <2>3. paths.script_name = ensure_leading_slash(t)
    <3>1. Len(t) - Len(paths.path_info) = Len(t)
      BY <1>3, <2>2
    <3> QED BY <1>2, <1>9, <3>1
  <2>4. ensure_leading_slash(t) \in Text
    <3>1. <<Slash>> \in Text
      BY OneByte DEF Byte, Slash
    <3> QED BY <3>1, JoinedTexts DEF ensure_leading_slash
  <2>5. ensure_leading_slash(t) \o <<>> = ensure_leading_slash(t)
    BY <2>4, ConcatEmptySeq DEF Text
  <2> QED BY <2>1, <2>2, <2>3, <2>5 DEF paths, splits, earliest
<1>12. CASE raw # <<>> /\ M # {}
  <2>1. pos \in 1..Len(t) /\ earliest # {} /\ pos \in 0..Len(t) /\ pos >= 0
    BY <1>3, <1>4, <1>7, <1>12
  <2> DEFINE a == SubSeq(t, 1, pos)
             b == SubSeq(t, pos + 1, Len(t))
  <2>2. paths.doc_uri = a /\ paths.path_info = b
    BY <1>2, <2>1
  <2>3. a \in Text /\ Len(a) = pos /\ b \in Text /\ Len(b) = Len(t) - pos /\ a \o b = t
    BY <2>1, CutAfter
  <2>4. Len(t) - Len(paths.path_info) = pos
    BY <1>3, <2>1, <2>2, <2>3
  <2>5. paths.script_name = ensure_leading_slash(a)
    BY <1>2, <2>4
  <2> HIDE DEF a, b
  <2>6. a # <<>>
    BY <2>1, <2>3
  <2>7. paths.script_name \o paths.path_info = ensure_leading_slash(t)
    <3>1. ensure_leading_slash(a) \o b = ensure_leading_slash(a \o b)
      BY <2>3, <2>6, LeadingSlash
    <3> QED BY <2>2, <2>3, <2>5, <3>1
  <2>8. Len(raw) = 1 => pos = Min(earliest)
    BY <1>4, <1>8, <1>12
  <2>9. Len(paths.doc_uri) = pos /\ paths.doc_uri # <<>> /\ paths.doc_uri \o paths.path_info = t
    BY <2>2, <2>3, <2>6
  <2> QED BY <1>12, <2>1, <2>7, <2>8, <2>9 DEF paths, splits, earliest
<1> QED BY <1>10, <1>11, <1>12
-------------------------------------------------------------------------------
(* Joined components *)

\* What holds of <<>> and is inherited by a longer sequence holds of all.
LEMMA SeqInduction ==
  ASSUME NEW S, NEW G, <<>> \in G, \A s \in Seq(S), e \in S : s \in G => Append(s, e) \in G
  PROVE  Seq(S) \subseteq G
<1> SUFFICES ASSUME NEW u \in Seq(S) PROVE u \in G
  OBVIOUS
<1> DEFINE N == Len(u)
           H == {n \in 0..N : SubSeq(u, 1, n) \in G}
<1>1. N \in Nat
  OBVIOUS
<1>2. 0 \in H
  <2>1. SubSeq(u, 1, 0) = <<>> /\ 0 \in 0..N
    BY <1>1, SubSeqEmpty
  <2> QED BY <2>1
<1>3. ASSUME NEW n \in 1..N, n - 1 \in H PROVE n \in H
  <2>1. SubSeq(u, 1, n) = SubSeq(u, 1, n - 1) \o <<u[n]>>
    <3>1. 1 \in 1..Len(u) /\ n \in 1..Len(u)
      BY <1>1
    <3> QED BY <3>1, SubSeqRecursiveSecond
  <2>2. SubSeq(u, 1, n - 1) \in Seq(S) /\ u[n] \in S
    <3>1. \A i \in 1..(n - 1) : u[i] \in S
      BY <1>1
    <3>2. 1 \in Int /\ n - 1 \in Int
      BY <1>1
    <3> QED BY <3>1, <3>2, SubSeqProperties
  <2>3. PICK s \in Seq(S) : s = SubSeq(u, 1, n - 1)
    BY <2>2
  <2>4. SubSeq(u, 1, n) = Append(s, u[n])
    BY <2>1, <2>2, <2>3, AppendIsConcat
  <2>5. s \in G
    BY <1>3, <2>3
  <2>6. Append(s, u[n]) \in G
    BY <2>2, <2>5
  <2>7. n \in 0..N
    BY <1>1
  <2> QED BY <2>4, <2>6, <2>7
<1>4. N \in H
  <2> HIDE DEF H
  <2>1. N \in 0..N
    BY <1>1
  <2> QED BY <1>1, <1>2, <1>3, <2>1, Induction
<1>5. SubSeq(u, 1, N) = u
  BY SubSeqFull
<1> QED BY <1>4, <1>5

\* The states of slice::join.
IsJoin(f, B, parts, sep) ==
  /\ f \in [0..Len(parts) -> Seq(B)]
  /\ f[0] = <<>>
  /\ \A k \in 1..Len(parts) : f[k] = IF k = 1 THEN parts[1] ELSE f[k - 1] \o sep \o parts[k]

LEMMA JoinLoop ==
  ASSUME NEW B, NEW parts \in Seq(Seq(B)), NEW sep \in Seq(B)
  PROVE  \E f : IsJoin(f, B, parts, sep) /\ JoinWith(parts, sep) = f[Len(parts)]
<1> DEFINE N == Len(parts)
           T == Seq(B)
           Turn(t, i) == IF i = 1 THEN parts[1] ELSE t \o sep \o parts[i]
           turn == [p \in T \X (1..N) |-> Turn(p[1], p[2])]
           f == CHOOSE g : g = [k \in 0..N |-> IF k = 0 THEN <<>> ELSE Turn(g[k - 1], k)]
<1>1. N \in Nat /\ \A i \in 1..N : parts[i] \in T
  OBVIOUS
<1>2. \A s \in T, i \in 1..N : Turn(s, i) \in T
  <2> TAKE s \in T, i \in 1..N
  <2>1. parts[i] \in T
    BY <1>1
  <2>2. s \o sep \in T
    BY ConcatProperties
  <2>3. (s \o sep) \o parts[i] \in T
    BY <2>1, <2>2, ConcatProperties
  <2> QED BY <2>1, <2>3
<1>4. <<>> \in T
  OBVIOUS
<1>9. JoinWith(parts, sep) = f[N]
  BY Zenon DEF JoinWith, Loop, N, Turn
<1> HIDE DEF Turn, N, T
<1>3. turn \in Turns(T, N)
  BY <1>2 DEF Turns
<1>5. PICK g : IsLoop(g, T, N, <<>>, turn)
  <2> HIDE DEF turn, f
  <2> QED BY <1>1, <1>3, <1>4, LoopExists
<1>6. \A k \in 0..N : k # 0 => turn[<<g[k - 1], k>>] = Turn(g[k - 1], k)
  <2> TAKE k \in 0..N
  <2> HAVE k # 0
  <2>1. g \in [0..N -> T]
    BY <1>5 DEF IsLoop
  <2>2. k - 1 \in 0..N /\ k \in 1..N
    BY <1>1
  <2>3. <<g[k - 1], k>> \in T \X (1..N)
    BY <2>1, <2>2
  <2> QED BY <2>3
<1> HIDE DEF turn
<1>7. g = [k \in 0..N |-> IF k = 0 THEN <<>> ELSE Turn(g[k - 1], k)]
  BY <1>5, <1>6 DEF IsLoop
<1>8. f = [k \in 0..N |-> IF k = 0 THEN <<>> ELSE Turn(f[k - 1], k)]
  BY <1>7, Zenon
<1> HIDE DEF f
<1>10. f[0] = <<>> /\ \A k \in 1..N : f[k] = Turn(f[k - 1], k)
  BY <1>1, <1>8
<1> DEFINE G == {n \in 0..N : f[n] \in T}
<1>11. 0 \in G /\ \A n \in 1..N : n - 1 \in G => n \in G
  BY <1>1, <1>2, <1>4, <1>10
<1>12. 0..N \subseteq G
  <2> HIDE DEF G
  <2> QED BY <1>1, <1>11, Induction
<1>13. f \in [0..N -> T]
  BY <1>8, <1>12
<1> QED BY <1>9, <1>10, <1>13 DEF IsJoin, N, Turn, T

LEMMA Joined ==
  ASSUME NEW B, NEW parts \in Seq(Seq(B)), NEW sep \in Seq(B)
  PROVE  JoinWith(parts, sep) \in Seq(B)
<1>1. PICK f : IsJoin(f, B, parts, sep) /\ JoinWith(parts, sep) = f[Len(parts)]
  BY JoinLoop
<1>2. Len(parts) \in 0..Len(parts)
  OBVIOUS
<1> QED BY <1>1, <1>2 DEF IsJoin

\* The text of more is that of parts with c behind it.
Joins(parts, sep, c, more) ==
  JoinWith(more, sep) = IF parts = <<>> THEN c ELSE JoinWith(parts, sep) \o sep \o c

LEMMA JoinAppend ==
  ASSUME NEW parts \in Seq(Text), NEW c \in Text, NEW sep \in Text,
         NEW more, more = Append(parts, c)
  PROVE  JoinWith(<<>>, sep) = <<>> /\ Joins(parts, sep, c, more)
<1> DEFINE N == Len(parts)
<1>1. JoinWith(<<>>, sep) = <<>>
  <2>1. <<>> \in Seq(Text) /\ Len(<<>>) = 0
    OBVIOUS
  <2>2. PICK f : IsJoin(f, Byte, <<>>, sep) /\ JoinWith(<<>>, sep) = f[Len(<<>>)]
    BY <2>1, JoinLoop DEF Text
  <2> QED BY <2>1, <2>2 DEF IsJoin
<1>2. /\ more \in Seq(Text) /\ Len(more) = N + 1 /\ N \in Nat /\ more[N + 1] = c
      /\ \A i \in 1..N : more[i] = parts[i]
  BY AppendProperties
<1>3. PICK f : IsJoin(f, Byte, parts, sep) /\ JoinWith(parts, sep) = f[N]
  BY JoinLoop DEF Text
<1>4. PICK g : IsJoin(g, Byte, more, sep) /\ JoinWith(more, sep) = g[N + 1]
  BY <1>2, JoinLoop DEF Text
<1> HIDE DEF N
<1>5. /\ f[0] = <<>> /\ g[0] = <<>>
      /\ \A k \in 1..N : f[k] = IF k = 1 THEN parts[1] ELSE f[k - 1] \o sep \o parts[k]
      /\ \A k \in 1..(N + 1) : g[k] = IF k = 1 THEN more[1] ELSE g[k - 1] \o sep \o more[k]
  BY <1>2, <1>3, <1>4 DEF IsJoin, N
<1> DEFINE G == {n \in 0..N : g[n] = f[n]}
<1>6. 0..N \subseteq G
  <2>1. 0 \in G
    BY <1>2, <1>5
  <2>2. ASSUME NEW n \in 1..N, n - 1 \in G PROVE n \in G
    <3>1. n \in 1..(N + 1) /\ n \in 1..N /\ n \in 0..N
      BY <1>2
    <3>2. g[n] = IF n = 1 THEN more[1] ELSE g[n - 1] \o sep \o more[n]
      BY <1>5, <3>1
    <3>3. f[n] = IF n = 1 THEN parts[1] ELSE f[n - 1] \o sep \o parts[n]
      BY <1>5, <3>1
    <3>4. g[n - 1] = f[n - 1] /\ more[n] = parts[n]
      BY <1>2, <2>2, <3>1
    <3>5. g[n] = f[n]
      BY <3>2, <3>3, <3>4
    <3> QED BY <3>1, <3>5
  <2> HIDE DEF G
  <2> QED BY <1>2, <2>1, <2>2, Induction
<1>7. g[N] = f[N] /\ N + 1 \in 1..(N + 1) /\ (N + 1) - 1 = N /\ (N + 1 = 1 <=> N = 0)
  BY <1>2, <1>6
<1>8. g[N + 1] = IF N + 1 = 1 THEN more[1] ELSE g[N] \o sep \o more[N + 1]
  BY <1>5, <1>7
<1>9. N = 0 <=> parts = <<>>
  BY DEF N
<1>10. JoinWith(more, sep) = IF parts = <<>> THEN c ELSE JoinWith(parts, sep) \o sep \o c
  <2>1. CASE N = 0
    BY <1>2, <1>4, <1>7, <1>8, <1>9, <2>1
  <2>2. CASE N # 0
    BY <1>2, <1>3, <1>4, <1>7, <1>8, <1>9, <2>2
  <2> QED BY <2>1, <2>2
<1> QED BY <1>1, <1>10 DEF Joins
-------------------------------------------------------------------------------
(* What a path resolves to *)

\* The texts C reads as they are.
NonNul == 1..255
CText == Seq(NonNul)

\* The components a path can keep.
Words(p) ==
  {c \in Text : /\ c # <<>> /\ c # <<Dot>> /\ (\A i \in 1..Len(c) : c[i] # Slash)
                /\ p \in CText => c \in CText}

\* m times "..", only in front, and never in a rooted path.
Shape(p, rooted, kept, m) ==
  /\ kept \in Seq(Words(p)) /\ m \in 0..Len(kept)
  /\ \A i \in 1..m : kept[i] = DotDot
  /\ \A i \in (m + 1)..Len(kept) : kept[i] # DotDot
  /\ rooted => m = 0

LEMMA DotDotWord ==
  ASSUME NEW p
  PROVE  /\ DotDot \in Words(p) /\ DotDot \in Text /\ Len(DotDot) = 2 /\ DotDot[1] = Dot /\ DotDot[2] = Dot
         /\ DotDot # <<Dot>> /\ DotDot # <<>>
<1>1. /\ DotDot \in Text /\ Len(DotDot) = 2 /\ DotDot[1] = Dot /\ DotDot[2] = Dot
      /\ DotDot \in CText
  BY DEF DotDot, Text, Byte, Dot, CText, NonNul
<1>2. \A i \in 1..2 : i = 1 \/ i = 2
  OBVIOUS
<1>3. Dot # Slash
  BY DEF Dot, Slash
<1>4. DotDot # <<Dot>> /\ DotDot # <<>>
  BY <1>1
<1>5. \A i \in 1..2 : DotDot[i] # Slash
  BY <1>1, <1>2, <1>3
<1> QED BY <1>1, <1>4, <1>5 DEF Words

\* A sequence without its last element.
LEMMA Fronts ==
  ASSUME NEW S, NEW u \in Seq(S), u # <<>>
  PROVE  /\ Front(u) \in Seq(S) /\ Len(Front(u)) = Len(u) - 1 /\ Len(u) \in Nat /\ Len(u) >= 1
         /\ \A i \in 1..(Len(u) - 1) : Front(u)[i] = u[i]
         /\ Last(u) = u[Len(u)] /\ Last(u) \in S /\ u = Append(Front(u), Last(u))
<1>1. Len(u) \in Nat /\ Len(u) >= 1 /\ \A i \in 1..Len(u) : u[i] \in S
  OBVIOUS
<1>2. /\ Front(u) \in Seq(S) /\ Len(Front(u)) = Len(u) - 1
      /\ \A i \in 1..(Len(u) - 1) : Front(u)[i] = u[i]
  <2>1. \A i \in 1..(Len(u) - 1) : u[i] \in S
    BY <1>1
  <2>2. 1 \in Int /\ Len(u) - 1 \in Int
    BY <1>1
  <2> DEFINE v == SubSeq(u, 1, Len(u) - 1)
  <2>3. /\ v \in Seq(S) /\ Len(v) = IF 1 <= Len(u) - 1 THEN (Len(u) - 1) - 1 + 1 ELSE 0
        /\ \A i \in 1..((Len(u) - 1) - 1 + 1) : v[i] = u[1 + i - 1]
    BY <2>1, <2>2, SubSeqProperties
  <2>4. Front(u) = v
    BY DEF Front
  <2> HIDE DEF v
  <2>5. Len(v) = Len(u) - 1 /\ (Len(u) - 1) - 1 + 1 = Len(u) - 1
    <3>1. PICK L \in Nat : L = Len(u) - 1
      BY <1>1
    <3>2. Len(v) = IF 1 <= L THEN L - 1 + 1 ELSE 0
      BY <2>3, <3>1
    <3>3. L - 1 + 1 = L /\ (IF 1 <= L THEN L - 1 + 1 ELSE 0) = L
      OBVIOUS
    <3> QED BY <3>1, <3>2, <3>3
  <2>6. \A i \in 1..(Len(u) - 1) : 1 + i - 1 = i
    BY <1>1
  <2> QED BY <2>3, <2>4, <2>5, <2>6
<1>3. Last(u) = u[Len(u)] /\ Last(u) \in S
  BY <1>1 DEF Last
<1>4. u = Append(Front(u), Last(u))
  <2>1. PICK v \in Seq(S), e \in S : v = Front(u) /\ e = Last(u)
    BY <1>2, <1>3
  <2>2. /\ Append(v, e) \in Seq(S) /\ Len(Append(v, e)) = Len(v) + 1
        /\ \A i \in 1..Len(v) : Append(v, e)[i] = v[i]
        /\ Append(v, e)[Len(v) + 1] = e
    BY AppendProperties
  <2>3. Len(v) = Len(u) - 1 /\ Len(v) + 1 = Len(u)
    BY <1>1, <1>2, <2>1
  <2>4. ASSUME NEW i \in 1..Len(u) PROVE u[i] = Append(v, e)[i]
    <3>1. CASE i = Len(u)
      BY <1>3, <2>1, <2>2, <2>3, <3>1
    <3>2. CASE i # Len(u)
      <4>1. i \in 1..(Len(u) - 1) /\ i \in 1..Len(v)
        BY <1>1, <2>3, <3>2
      <4> QED BY <1>2, <2>1, <2>2, <4>1
    <3> QED BY <3>1, <3>2
  <2>5. u = Append(v, e)
    BY <2>2, <2>3, <2>4, SeqEqual
  <2> QED BY <2>1, <2>5
<1> QED BY <1>1, <1>2, <1>3, <1>4

\* The ways a component is resolved.
ResolvesTo(p, rooted, kept, m) ==
  /\ Resolve(rooted, kept, <<Dot>>) = kept
  /\ m < Len(kept) => /\ kept # <<>> /\ Last(kept) # DotDot
                      /\ Resolve(rooted, kept, DotDot) = Front(kept)
                      /\ Shape(p, rooted, Front(kept), m)
  /\ m = Len(kept) /\ rooted => kept = <<>> /\ Resolve(rooted, kept, DotDot) = kept
  /\ m = Len(kept) /\ ~rooted => /\ Resolve(rooted, kept, DotDot) = Append(kept, DotDot)
                                 /\ Shape(p, rooted, Append(kept, DotDot), m + 1)
  /\ \A c \in Words(p) : c # DotDot =>
       Resolve(rooted, kept, c) = Append(kept, c) /\ Shape(p, rooted, Append(kept, c), m)

LEMMA Resolves ==
  ASSUME NEW p, NEW rooted \in BOOLEAN, NEW kept, NEW m, Shape(p, rooted, kept, m)
  PROVE  ResolvesTo(p, rooted, kept, m)
<1>1. /\ kept \in Seq(Words(p)) /\ Len(kept) \in Nat /\ m \in 0..Len(kept)
      /\ \A i \in 1..m : kept[i] = DotDot
      /\ \A i \in (m + 1)..Len(kept) : kept[i] # DotDot
      /\ rooted => m = 0
  BY DEF Shape
<1>2. DotDot # <<Dot>> /\ DotDot \in Words(p)
  BY DotDotWord
<1>3. Resolve(rooted, kept, <<Dot>>) = kept
  BY <1>2 DEF Resolve
<1>4. ASSUME m < Len(kept)
      PROVE  /\ kept # <<>> /\ Last(kept) # DotDot
             /\ Resolve(rooted, kept, DotDot) = Front(kept)
             /\ Shape(p, rooted, Front(kept), m)
  <2>1. kept # <<>>
    BY <1>1, <1>4
  <2>2. /\ Front(kept) \in Seq(Words(p)) /\ Len(Front(kept)) = Len(kept) - 1
        /\ \A i \in 1..(Len(kept) - 1) : Front(kept)[i] = kept[i]
        /\ Last(kept) = kept[Len(kept)]
    BY <1>1, <2>1, Fronts
  <2>3. Last(kept) # DotDot
    <3>1. Len(kept) \in (m + 1)..Len(kept)
      BY <1>1, <1>4
    <3> QED BY <1>1, <2>2, <3>1
  <2>4. Resolve(rooted, kept, DotDot) = Front(kept)
    BY <1>2, <2>1, <2>3 DEF Resolve
  <2>5. PICK u : u = Front(kept)
    OBVIOUS
  <2>6. /\ m \in 0..(Len(kept) - 1) /\ \A i \in 1..m : i \in 1..(Len(kept) - 1)
        /\ \A i \in (m + 1)..(Len(kept) - 1) : i \in 1..(Len(kept) - 1) /\ i \in (m + 1)..Len(kept)
    BY <1>1, <1>4
  <2>7. /\ \A i \in 1..m : u[i] = DotDot
        /\ \A i \in (m + 1)..(Len(kept) - 1) : u[i] # DotDot
    BY <1>1, <2>2, <2>5, <2>6
  <2>8. Shape(p, rooted, u, m)
    BY <1>1, <2>2, <2>5, <2>6, <2>7 DEF Shape
  <2> QED BY <2>1, <2>3, <2>4, <2>5, <2>8
<1>5. ASSUME m = Len(kept), rooted PROVE kept = <<>> /\ Resolve(rooted, kept, DotDot) = kept
  <2>1. kept = <<>>
    BY <1>1, <1>5
  <2> QED BY <1>2, <1>5, <2>1 DEF Resolve
<1>6. ASSUME NEW c \in Words(p)
      PROVE  LET u == Append(kept, c)
             IN  /\ u \in Seq(Words(p)) /\ Len(u) = Len(kept) + 1 /\ u[Len(kept) + 1] = c
                 /\ \A i \in 1..Len(kept) : u[i] = kept[i]
  BY <1>1, AppendProperties
<1>7. ASSUME m = Len(kept), ~rooted
      PROVE  /\ Resolve(rooted, kept, DotDot) = Append(kept, DotDot)
             /\ Shape(p, rooted, Append(kept, DotDot), m + 1)
  <2>1. ~(kept # <<>> /\ Last(kept) # DotDot)
    <3> SUFFICES ASSUME kept # <<>> PROVE Last(kept) = DotDot
      OBVIOUS
    <3>1. Len(kept) \in 1..m
      BY <1>1, <1>7
    <3> QED BY <1>1, <3>1 DEF Last
  <2>2. Resolve(rooted, kept, DotDot) = Append(kept, DotDot)
    BY <1>2, <1>7, <2>1 DEF Resolve
  <2>3. PICK u : u = Append(kept, DotDot)
    OBVIOUS
  <2>4. /\ u \in Seq(Words(p)) /\ Len(u) = Len(kept) + 1 /\ u[Len(kept) + 1] = DotDot
        /\ \A i \in 1..Len(kept) : u[i] = kept[i]
    BY <1>2, <1>6, <2>3
  <2>5. \A i \in 1..(m + 1) : u[i] = DotDot
    <3> TAKE i \in 1..(m + 1)
    <3>1. i \in 1..m \/ i = m + 1
      BY <1>1
    <3> QED BY <1>1, <1>7, <2>4, <3>1
  <2>6. m + 1 \in 0..Len(u) /\ \A i \in ((m + 1) + 1)..Len(u) : FALSE
    BY <1>1, <1>7, <2>4
  <2>7. Shape(p, rooted, u, m + 1)
    BY <1>7, <2>4, <2>5, <2>6 DEF Shape
  <2> QED BY <2>2, <2>3, <2>7
<1>8. ASSUME NEW c \in Words(p), c # DotDot
      PROVE  Resolve(rooted, kept, c) = Append(kept, c) /\ Shape(p, rooted, Append(kept, c), m)
  <2>1. c # <<Dot>>
    BY DEF Words
  <2>2. Resolve(rooted, kept, c) = Append(kept, c)
    BY <1>8, <2>1 DEF Resolve
  <2>3. PICK u : u = Append(kept, c)
    OBVIOUS
  <2>4. /\ u \in Seq(Words(p)) /\ Len(u) = Len(kept) + 1 /\ u[Len(kept) + 1] = c
        /\ \A i \in 1..Len(kept) : u[i] = kept[i]
    BY <1>6, <2>3
  <2>5. \A i \in 1..m : u[i] = DotDot
    <3>1. \A i \in 1..m : i \in 1..Len(kept)
      BY <1>1
    <3> QED BY <1>1, <2>4, <3>1
  <2>6. ASSUME NEW i \in (m + 1)..Len(u) PROVE u[i] # DotDot
    <3>1. (i \in 1..Len(kept) /\ i \in (m + 1)..Len(kept)) \/ i = Len(kept) + 1
      BY <1>1, <2>4
    <3> QED BY <1>1, <1>8, <2>4, <3>1
  <2>7. m \in 0..Len(u)
    BY <1>1, <2>4
  <2>8. Shape(p, rooted, u, m)
    BY <1>1, <2>4, <2>5, <2>6, <2>7 DEF Shape
  <2> QED BY <2>2, <2>3, <2>8
<1> QED BY <1>3, <1>4, <1>5, <1>7, <1>8 DEF ResolvesTo

\* Where the component that ends at i starts.
StartOf(t, i) == Min({j \in 1..i : \A k \in j..i : t[k] # Slash})

LEMMA ComponentFrom ==
  ASSUME NEW t \in Text, NEW i \in 1..Len(t), t[i] # Slash
  PROVE  /\ ComponentTo(t, i) = SubSeq(t, StartOf(t, i), i) /\ StartOf(t, i) \in 1..i
         /\ ComponentTo(t, i) \in Text
         /\ \A j \in 1..i : (j = 1 \/ t[j - 1] = Slash) /\ (\A k \in j..i : t[k] # Slash)
              => StartOf(t, i) = j
<1> DEFINE T == {j \in 1..i : \A k \in j..i : t[k] # Slash}
           s == StartOf(t, i)
<1>1. Len(t) \in Nat
  BY DEF Text
<1>2. i \in T /\ T \subseteq Nat
  <2>1. \A k \in i..i : k = i
    BY <1>1
  <2> QED BY <1>1, <2>1
<1>3. s \in T /\ \A j \in T : s <= j
  <2> HIDE DEF T
  <2>1. s = Min(T)
    BY DEF StartOf, T
  <2> HIDE DEF s
  <2> QED BY <1>2, <2>1, MinIsLeast
<1>4. ComponentTo(t, i) = SubSeq(t, s, i)
  BY DEF ComponentTo, StartOf
<1> HIDE DEF s
<1>5. s \in 1..i /\ \A k \in s..i : t[k] # Slash
  BY <1>3
<1>6. ComponentTo(t, i) \in Text
  <2>1. s \in 1..(Len(t) + 1) /\ i \in 0..Len(t)
    BY <1>1, <1>5
  <2> QED BY <1>4, <2>1, Stretch
<1>7. ASSUME NEW j \in 1..i, j = 1 \/ t[j - 1] = Slash, \A k \in j..i : t[k] # Slash
      PROVE  s = j
  <2>1. j \in T
    BY <1>7
  <2>2. s <= j
    BY <1>3, <2>1
  <2>3. s >= j
    <3> SUFFICES ASSUME s < j PROVE FALSE
      BY <1>1, <1>5
    <3>1. j # 1 /\ j - 1 \in s..i
      BY <1>1, <1>5
    <3> QED BY <1>5, <1>7, <3>1
  <2> QED BY <1>1, <1>5, <2>2, <2>3
<1> QED BY <1>4, <1>5, <1>6, <1>7 DEF s

\* What one byte of the path does to the components.
Resolving(rooted, t, kept, i) ==
  IF EndsComponent(t, i) THEN Resolve(rooted, kept, ComponentTo(t, i)) ELSE kept

LEMMA ResolveType ==
  ASSUME NEW rooted, NEW kept \in Seq(Text), NEW c \in Text
  PROVE  Resolve(rooted, kept, c) \in Seq(Text)
<1>1. kept # <<>> => Front(kept) \in Seq(Text)
  BY Fronts
<1>2. Append(kept, c) \in Seq(Text)
  BY AppendProperties
<1>3. CASE c = <<Dot>>
  <2>1. c # DotDot
    BY <1>3, DotDotWord
  <2> QED BY <1>3, <2>1 DEF Resolve
<1>4. CASE c = DotDot /\ kept # <<>> /\ Last(kept) # DotDot
  <2>1. c # <<Dot>>
    BY <1>4, DotDotWord
  <2> QED BY <1>1, <1>4, <2>1 DEF Resolve
<1>5. CASE c = DotDot /\ kept = <<>> /\ rooted
  <2>1. c # <<Dot>>
    BY <1>5, DotDotWord
  <2> QED BY <1>5, <2>1 DEF Resolve
<1>6. CASE ~(c = <<Dot>>) /\ ~(c = DotDot /\ kept # <<>> /\ Last(kept) # DotDot)
           /\ ~(c = DotDot /\ kept = <<>> /\ rooted)
  BY <1>2, <1>6 DEF Resolve
<1> QED BY <1>3, <1>4, <1>5, <1>6

\* f has the components that are kept of the first bytes of t.
IsResolution(f, rooted, t) ==
  /\ f \in [0..Len(t) -> Seq(Text)]
  /\ f[0] = <<>>
  /\ \A i \in 1..Len(t) : f[i] = Resolving(rooted, t, f[i - 1], i)

LEMMA ResolutionLoop ==
  ASSUME NEW rooted, NEW t \in Text
  PROVE  \E f : IsResolution(f, rooted, t) /\ ResolvedFrom(rooted, t) = f[Len(t)]
<1> DEFINE N == Len(t)
           T == Seq(Text)
           Turn(kept, i) == Resolving(rooted, t, kept, i)
           turn == [p \in T \X (1..N) |-> Turn(p[1], p[2])]
           f == CHOOSE g : g = [k \in 0..N |-> IF k = 0 THEN <<>> ELSE Turn(g[k - 1], k)]
<1>1. N \in Nat
  BY DEF Text
<1>2. \A s \in T, i \in 1..N : Turn(s, i) \in T
  <2> TAKE s \in T, i \in 1..N
  <2>1. CASE EndsComponent(t, i)
    <3>1. ComponentTo(t, i) \in Text
      BY <2>1, ComponentFrom DEF EndsComponent
    <3> QED BY <2>1, <3>1, ResolveType DEF Resolving
  <2>2. CASE ~EndsComponent(t, i)
    BY <2>2 DEF Resolving
  <2> QED BY <2>1, <2>2
<1>4. <<>> \in T
  OBVIOUS
<1>9. ResolvedFrom(rooted, t) = f[N]
  BY Zenon DEF ResolvedFrom, Loop, N, Turn, Resolving
<1> HIDE DEF Turn, N, T
<1>3. turn \in Turns(T, N)
  BY <1>2 DEF Turns
<1>5. PICK g : IsLoop(g, T, N, <<>>, turn)
  <2> HIDE DEF turn, f
  <2> QED BY <1>1, <1>3, <1>4, LoopExists
<1>6. \A k \in 0..N : k # 0 => turn[<<g[k - 1], k>>] = Turn(g[k - 1], k)
  <2> TAKE k \in 0..N
  <2> HAVE k # 0
  <2>1. g \in [0..N -> T]
    BY <1>5 DEF IsLoop
  <2>2. k - 1 \in 0..N /\ k \in 1..N
    BY <1>1
  <2>3. <<g[k - 1], k>> \in T \X (1..N)
    BY <2>1, <2>2
  <2> QED BY <2>3
<1> HIDE DEF turn
<1>7. g = [k \in 0..N |-> IF k = 0 THEN <<>> ELSE Turn(g[k - 1], k)]
  BY <1>5, <1>6 DEF IsLoop
<1>8. f = [k \in 0..N |-> IF k = 0 THEN <<>> ELSE Turn(f[k - 1], k)]
  BY <1>7, Zenon
<1> HIDE DEF f
<1>10. f[0] = <<>> /\ \A k \in 1..N : f[k] = Turn(f[k - 1], k)
  BY <1>1, <1>8
<1> DEFINE G == {n \in 0..N : f[n] \in T}
<1>11. 0 \in G /\ \A n \in 1..N : n - 1 \in G => n \in G
  BY <1>1, <1>2, <1>4, <1>10
<1>12. 0..N \subseteq G
  <2> HIDE DEF G
  <2> QED BY <1>1, <1>11, Induction
<1>13. f \in [0..N -> T]
  BY <1>8, <1>12
<1> QED BY <1>9, <1>10, <1>13 DEF IsResolution, N, Turn, T

\* A whole component, from after r to n.
IsPart(t, r, n) ==
  /\ r \in 0..(Len(t) - 1) /\ n \in (r + 1)..Len(t)
  /\ r = 0 \/ t[r] = Slash
  /\ n = Len(t) \/ t[n + 1] = Slash
  /\ \A i \in (r + 1)..n : t[i] # Slash

\* A slash keeps the components, and a component is resolved where it ends.
StepsByPart(f, rooted, t) ==
  /\ \A i \in 1..Len(t) : t[i] = Slash => f[i] = f[i - 1]
  /\ \A r, n : IsPart(t, r, n) => f[n] = Resolve(rooted, f[r], SubSeq(t, r + 1, n))

LEMMA WordStep ==
  ASSUME NEW rooted, NEW t \in Text, NEW f, IsResolution(f, rooted, t)
  PROVE  StepsByPart(f, rooted, t)
<1>1. Len(t) \in Nat
  BY DEF Text
<1>2. \A i \in 1..Len(t) : f[i] = Resolving(rooted, t, f[i - 1], i)
  BY DEF IsResolution
<1>3. \A i \in 1..Len(t) : t[i] = Slash => f[i] = f[i - 1]
  BY <1>2 DEF Resolving, EndsComponent
<1>4. ASSUME NEW r, NEW n, IsPart(t, r, n)
      PROVE  f[n] = Resolve(rooted, f[r], SubSeq(t, r + 1, n))
  <2>1. /\ r \in Nat /\ r < Len(t) /\ n \in (r + 1)..Len(t) /\ n \in Nat /\ n \in 1..Len(t)
        /\ r = 0 \/ t[r] = Slash
        /\ n = Len(t) \/ t[n + 1] = Slash
        /\ \A i \in (r + 1)..n : t[i] # Slash
    BY <1>1, <1>4 DEF IsPart
  <2> DEFINE M == (n - 1) - r
             G == {i \in 0..M : f[r + i] = f[r]}
  <2>2. M \in Nat /\ r + M = n - 1
    BY <1>1, <2>1
  <2>3. 0 \in G
    <3>1. r + 0 = r /\ 0 \in 0..M
      BY <2>1, <2>2
    <3> QED BY <3>1
  <2>4. ASSUME NEW i \in 1..M, i - 1 \in G PROVE i \in G
    <3>1. /\ r + i \in 1..Len(t) /\ r + i # Len(t) /\ (r + i) + 1 \in (r + 1)..n /\ (r + i) - 1 = r + (i - 1)
          /\ i \in 0..M
      BY <1>1, <2>1, <2>2
    <3>2. ~EndsComponent(t, r + i)
      BY <2>1, <3>1 DEF EndsComponent
    <3>3. f[r + i] = f[(r + i) - 1]
      BY <1>2, <3>1, <3>2 DEF Resolving
    <3> QED BY <2>4, <3>1, <3>3
  <2>5. M \in G
    <3>1. M \in 0..M
      BY <2>2
    <3> HIDE DEF G
    <3> QED BY <2>2, <2>3, <2>4, <3>1, Induction
  <2>6. f[n - 1] = f[r]
    BY <2>2, <2>5
  <2>7. n \in (r + 1)..n /\ r + 1 \in 1..n /\ (r + 1) - 1 = r
    BY <1>1, <2>1
  <2>8. EndsComponent(t, n)
    BY <2>1, <2>7 DEF EndsComponent
  <2>9. ComponentTo(t, n) = SubSeq(t, r + 1, n)
    <3>1. r + 1 = 1 \/ t[(r + 1) - 1] = Slash
      BY <2>1, <2>7
    <3>2. t[n] # Slash
      BY <2>1, <2>7
    <3>3. StartOf(t, n) = r + 1 /\ ComponentTo(t, n) = SubSeq(t, StartOf(t, n), n)
      BY <2>1, <2>7, <3>1, <3>2, ComponentFrom
    <3> QED BY <3>3
  <2> QED BY <1>2, <2>1, <2>6, <2>8, <2>9 DEF Resolving
<1> QED BY <1>3, <1>4 DEF StepsByPart

\* The output of clean_path's loop for the components that are kept.
Prefix(rooted) == IF rooted THEN <<Slash>> ELSE <<>>
Out(rooted, kept) == Prefix(rooted) \o JoinWith(kept, <<Slash>>)
Separator(rooted, output) ==
  IF (rooted /\ Len(output) # 1) \/ (~rooted /\ output # <<>>) THEN <<Slash>> ELSE <<>>

LEMMA SlashText == /\ <<Slash>> \in Text /\ Len(<<Slash>>) = 1 /\ <<Slash>>[1] = Slash
                   /\ <<>> \in Text /\ Len(<<>>) = 0
BY OneByte DEF Byte, Slash, Text

LEMMA JoinedBySlashes ==
  ASSUME NEW parts \in Seq(Text), NEW c \in Text
  PROVE  JoinWith(Append(parts, c), <<Slash>>) =
           IF parts = <<>> THEN c ELSE JoinWith(parts, <<Slash>>) \o <<Slash>> \o c
<1>1. PICK sep \in Text : sep = <<Slash>>
  BY SlashText
<1>2. PICK more : more = Append(parts, c)
  OBVIOUS
<1>3. Joins(parts, sep, c, more)
  BY <1>2, JoinAppend
<1> QED BY <1>1, <1>2, <1>3 DEF Joins

Regroups(a, b, c) == (a \o b) \o c = a \o (b \o c)

LEMMA Regrouping ==
  ASSUME NEW a \in Text, NEW b \in Text, NEW c \in Text
  PROVE  Regroups(a, b, c)
BY ConcatAssociative DEF Text, Regroups

LEMMA WordsAreTexts ==
  ASSUME NEW p, NEW kept \in Seq(Words(p))
  PROVE  kept \in Seq(Text) /\ JoinWith(kept, <<Slash>>) \in Text
<1>1. Words(p) \subseteq Text
  BY DEF Words
<1>2. kept \in Seq(Text)
  BY <1>1, SeqMonotonic
<1>3. JoinWith(kept, <<Slash>>) \in Text
  BY <1>2, SlashText, Joined DEF Text
<1> QED BY <1>2, <1>3

LEMMA NothingJoined == JoinWith(<<>>, <<Slash>>) = <<>>
<1>1. <<>> \in Seq(Text)
  OBVIOUS
<1>2. PICK more : more = Append(<<>>, <<>>)
  OBVIOUS
<1> QED BY <1>1, <1>2, SlashText, JoinAppend

LEMMA OutType ==
  ASSUME NEW p, NEW rooted, NEW kept \in Seq(Words(p))
  PROVE  /\ Out(rooted, kept) \in Text
         /\ Out(rooted, <<>>) = Prefix(rooted)
<1>1. Prefix(rooted) \in Text
  BY SlashText DEF Prefix
<1>2. JoinWith(kept, <<Slash>>) \in Text
  BY WordsAreTexts
<1>3. JoinWith(<<>>, <<Slash>>) = <<>>
  BY NothingJoined
<1>4. Out(rooted, kept) \in Text
  BY <1>1, <1>2, JoinedTexts DEF Out
<1>5. Out(rooted, <<>>) = Prefix(rooted)
  BY <1>1, <1>3, ConcatEmptySeq DEF Out, Text
<1> QED BY <1>4, <1>5

\* A component goes to the end, after a separator where there is one before it.
LEMMA OutAppend ==
  ASSUME NEW p, NEW rooted \in BOOLEAN, NEW kept \in Seq(Words(p)), NEW c \in Words(p)
  PROVE  /\ Separator(rooted, Out(rooted, kept)) = IF kept = <<>> THEN <<>> ELSE <<Slash>>
         /\ Out(rooted, Append(kept, c)) = Out(rooted, kept) \o Separator(rooted, Out(rooted, kept)) \o c
<1> DEFINE J(k) == JoinWith(k, <<Slash>>)
           pre == Prefix(rooted)
<1>1. /\ pre \in Text /\ Len(pre) = (IF rooted THEN 1 ELSE 0) /\ (rooted <=> pre # <<>>)
  BY SlashText DEF Prefix
<1>2. \A k \in Seq(Words(p)) : J(k) \in Text /\ k \in Seq(Text)
  BY WordsAreTexts
<1>3. c \in Text /\ c # <<>>
  BY DEF Words
<1>4. J(Append(kept, c)) = IF kept = <<>> THEN c ELSE J(kept) \o <<Slash>> \o c
  BY <1>2, <1>3, JoinedBySlashes
<1>5. kept # <<>> => J(kept) # <<>>
  <2> SUFFICES ASSUME kept # <<>> PROVE J(kept) # <<>>
    OBVIOUS
  <2>1. Front(kept) \in Seq(Words(p)) /\ Last(kept) \in Words(p) /\ kept = Append(Front(kept), Last(kept))
    BY Fronts
  <2>2. PICK k \in Seq(Words(p)), e \in Words(p) : kept = Append(k, e)
    BY <2>1
  <2>3. e \in Text /\ e # <<>> /\ k \in Seq(Text) /\ J(k) \in Text
    BY <1>2 DEF Words
  <2>4. J(kept) = IF k = <<>> THEN e ELSE J(k) \o <<Slash>> \o e
    BY <2>2, <2>3, JoinedBySlashes
  <2>5. PICK a \in Text : a = J(k) \o <<Slash>>
    BY <2>3, SlashText, JoinedTexts
  <2>6. a \o e # <<>>
    BY <2>3, ConcatEqualIffEmpty DEF Text
  <2> HIDE DEF J
  <2> QED BY <2>3, <2>4, <2>5, <2>6
<1> HIDE DEF pre
<1>6. CASE kept = <<>>
  <2>1. Out(rooted, kept) = pre
    BY <1>6, OutType DEF pre
  <2>2. Separator(rooted, pre) = <<>>
    BY <1>1 DEF Separator
  <2>3. pre \o <<>> = pre
    BY <1>1, ConcatEmptySeq DEF Text
  <2>4. Out(rooted, Append(kept, c)) = pre \o c
    BY <1>4, <1>6 DEF Out, pre
  <2> QED BY <1>6, <2>1, <2>2, <2>3, <2>4
<1>7. CASE kept # <<>>
  <2>1. PICK j \in Text : j = J(kept) /\ j # <<>>
    BY <1>2, <1>5, <1>7
  <2>2. PICK o \in Text : o = pre \o j
    BY <1>1, JoinedTexts
  <2>3. Out(rooted, kept) = o
    BY <2>1, <2>2 DEF Out, pre
  <2>4. Len(o) = Len(pre) + Len(j) /\ Len(j) \in Nat /\ Len(j) >= 1
    <3>1. Len(j) \in Nat /\ Len(j) # 0
      BY <2>1 DEF Text
    <3>2. Len(o) = Len(pre) + Len(j)
      BY <1>1, <2>2, JoinedTexts
    <3> QED BY <3>1, <3>2
  <2>5. o # <<>> /\ (rooted => Len(o) # 1)
    <3>1. Len(o) >= 1 /\ (rooted => Len(o) >= 2)
      BY <1>1, <2>4
    <3>2. Len(o) # 0
      BY <1>1, <2>4
    <3> QED BY <1>1, <2>4, <3>1, <3>2, SlashText
  <2>6. Separator(rooted, o) = <<Slash>>
    BY <2>5 DEF Separator
  <2>7. Out(rooted, Append(kept, c)) = pre \o ((j \o <<Slash>>) \o c)
    BY <1>4, <1>7, <2>1 DEF Out, pre
  <2>8. PICK js \in Text : js = j \o <<Slash>>
    BY SlashText, JoinedTexts
  <2>9. pre \o (js \o c) = (pre \o js) \o c
    <3>1. Regroups(pre, js, c)
      BY <1>1, <1>3, Regrouping
    <3> QED BY <3>1 DEF Regroups
  <2>10. pre \o js = o \o <<Slash>>
    <3>1. PICK sl \in Text : sl = <<Slash>>
      BY SlashText
    <3>2. Regroups(pre, j, sl)
      BY <1>1, Regrouping
    <3> QED BY <2>2, <2>8, <3>1, <3>2 DEF Regroups
  <2> QED BY <1>7, <2>3, <2>6, <2>7, <2>8, <2>9, <2>10
<1> QED BY <1>6, <1>7

\* Where the components that cannot be dropped end.
Floor(rooted, kept, m) == Len(Out(rooted, SubSeq(kept, 1, m)))

LEMMA FloorBelow ==
  ASSUME NEW p, NEW rooted \in BOOLEAN
  PROVE  \A kept \in Seq(Words(p)) : \A m \in 0..Len(kept) :
           Floor(rooted, kept, m) \in Nat /\ Floor(rooted, kept, m) <= Len(Out(rooted, kept))
<1> DEFINE Low(kept) == \A m \in 0..Len(kept) :
             Floor(rooted, kept, m) \in Nat /\ Floor(rooted, kept, m) <= Len(Out(rooted, kept))
           S == Words(p)
           G == {kept \in Seq(S) : Low(kept)}
<1>1. \A kept \in Seq(S) : /\ Out(rooted, kept) \in Text /\ Len(Out(rooted, kept)) \in Nat
                           /\ Floor(rooted, kept, Len(kept)) = Len(Out(rooted, kept))
  <2> TAKE kept \in Seq(S)
  <2>1. Out(rooted, kept) \in Text
    BY OutType
  <2>2. SubSeq(kept, 1, Len(kept)) = kept
    BY SubSeqFull
  <2>3. \A u \in Text : Len(u) \in Nat
    BY DEF Text
  <2> QED BY <2>1, <2>2, <2>3 DEF Floor
<1>2. Low(<<>>)
  <2>1. <<>> \in Seq(S) /\ Len(<<>>) = 0 /\ \A m \in 0..0 : m = 0
    OBVIOUS
  <2>2. Floor(rooted, <<>>, 0) = Len(Out(rooted, <<>>)) /\ Len(Out(rooted, <<>>)) \in Nat
    BY <1>1, <2>1
  <2> QED BY <2>1, <2>2
<1>3. ASSUME NEW kept \in Seq(S), NEW c \in S, Low(kept) PROVE Low(Append(kept, c))
  <2>1. PICK more \in Seq(S) : more = Append(kept, c)
    BY AppendProperties
  <2>2. Len(more) = Len(kept) + 1 /\ Len(kept) \in Nat
    BY <2>1, AppendProperties
  <2>3. Len(Out(rooted, kept)) <= Len(Out(rooted, more))
    <3>1. PICK o \in Text : o = Out(rooted, kept)
      BY <1>1
    <3>2. PICK sep \in Text : sep = Separator(rooted, o)
      BY SlashText DEF Separator
    <3>3. c \in Text
      BY DEF Words
    <3>4. Out(rooted, more) = o \o sep \o c
      BY <2>1, <3>1, <3>2, OutAppend
    <3>5. PICK os \in Text : os = o \o sep /\ Len(os) = Len(o) + Len(sep)
      BY JoinedTexts
    <3>6. Len(os \o c) = Len(os) + Len(c) /\ Len(o) \in Nat /\ Len(sep) \in Nat /\ Len(c) \in Nat
      BY <3>3, JoinedTexts
    <3>7. Len(o) <= Len(os \o c)
      BY <3>5, <3>6
    <3> QED BY <3>1, <3>4, <3>5, <3>7
  <2>4. ASSUME NEW m \in 0..Len(more)
        PROVE  Floor(rooted, more, m) \in Nat /\ Floor(rooted, more, m) <= Len(Out(rooted, more))
    <3>1. CASE m = Len(more)
      BY <1>1, <3>1
    <3>2. CASE m # Len(more)
      <4>1. m \in 0..Len(kept)
        BY <2>2, <3>2
      <4>2. SubSeq(more, 1, m) = SubSeq(kept, 1, m)
        <5>1. more = kept \o <<c>>
          BY <2>1, AppendIsConcat
        <5>2. <<c>> \in Seq(S)
          OBVIOUS
        <5> QED BY <4>1, <5>1, <5>2, PrefixOfConcat
      <4>3. Floor(rooted, more, m) = Floor(rooted, kept, m)
        BY <4>2 DEF Floor
      <4>4. Floor(rooted, kept, m) \in Nat /\ Floor(rooted, kept, m) <= Len(Out(rooted, kept))
        BY <1>3, <4>1
      <4>5. Len(Out(rooted, kept)) \in Nat /\ Len(Out(rooted, more)) \in Nat
        BY <1>1
      <4> QED BY <2>3, <4>3, <4>4, <4>5
    <3> QED BY <3>1, <3>2
  <2> QED BY <2>1, <2>4
<1> HIDE DEF Low
<1>4. <<>> \in G
  BY <1>2
<1>5. \A s \in Seq(S), e \in S : s \in G => Append(s, e) \in G
  BY <1>3, AppendProperties
<1>6. Seq(S) \subseteq G
  <2> HIDE DEF G, S
  <2> QED BY <1>4, <1>5, SeqInduction
<1> QED BY <1>6 DEF Low, S
-------------------------------------------------------------------------------
(* clean_path *)

LEMMA StretchCText ==
  ASSUME NEW t \in CText, NEW m \in 1..(Len(t) + 1), NEW n \in 0..Len(t)
  PROVE  SubSeq(t, m, n) \in CText
<1>1. Len(t) \in Nat /\ \A i \in 1..Len(t) : t[i] \in NonNul
  BY DEF CText
<1>2. \A i \in m..n : t[i] \in NonNul
  BY <1>1
<1>3. m \in Int /\ n \in Int
  BY <1>1
<1> QED BY <1>2, <1>3, SubSeqProperties DEF CText

\* The conditions of clean_path's loop.
PartEnds(p, n) == n = Len(p) \/ p[n + 1] = Slash
Skips(p, r) == p[r + 1] = Slash \/ (p[r + 1] = Dot /\ PartEnds(p, r + 1))
IsParent(p, r) == p[r + 1] = Dot /\ r + 1 < Len(p) /\ p[r + 2] = Dot /\ PartEnds(p, r + 2)
PartEnd(p, r) == Min({n \in (r + 1)..Len(p) : PartEnds(p, n)})
\* The ways a turn of clean_path can go.
TurnsTo(p, rooted, r, out, d, turn) ==
  /\ r >= Len(p) => turn = [read |-> r, output |-> out, dotdot |-> d]
  /\ r < Len(p) /\ Skips(p, r) => turn = [read |-> r + 1, output |-> out, dotdot |-> d]
  /\ r < Len(p) /\ ~Skips(p, r) /\ IsParent(p, r) /\ Len(out) > d =>
       turn = [read |-> r + 2, output |-> SubSeq(out, 1, DropTo(out, d)), dotdot |-> d]
  /\ r < Len(p) /\ ~Skips(p, r) /\ IsParent(p, r) /\ Len(out) <= d =>
       turn = IF rooted THEN [read |-> r + 2, output |-> out, dotdot |-> d]
              ELSE [read |-> r + 2, output |-> out \o Separator(rooted, out) \o DotDot,
                    dotdot |-> Len(out \o Separator(rooted, out) \o DotDot)]
  /\ r < Len(p) /\ ~Skips(p, r) /\ ~IsParent(p, r) =>
       turn = [read |-> PartEnd(p, r),
               output |-> out \o Separator(rooted, out) \o SubSeq(p, r + 1, PartEnd(p, r)),
               dotdot |-> d]

LEMMA CleanTurns ==
  ASSUME NEW p, NEW rooted \in BOOLEAN, rooted = (Head(p) = Slash), Len(p) \in Nat,
         NEW r \in Nat, NEW out, Len(out) \in Nat, NEW d \in Nat
  PROVE  TurnsTo(p, rooted, r, out, d, CleanTurn(p, [read |-> r, output |-> out, dotdot |-> d]))
<1> DEFINE s == [read |-> r, output |-> out, dotdot |-> d]
           turn == CleanTurn(p, s)
           climbed == out \o Separator(rooted, out) \o DotDot
<1>8. /\ r >= Len(p) <=> ~(r < Len(p))
      /\ Len(out) > d <=> ~(Len(out) <= d)
  OBVIOUS
<1>9. s.read = r /\ s.output = out /\ s.dotdot = d
  BY Zenon
<1>10. rooted <=> Head(p) = Slash
  BY Zenon
<1>11. \A n : [s EXCEPT !.read = n] = [read |-> n, output |-> out, dotdot |-> d]
  OBVIOUS
<1> HIDE DEF s
<1>1. r >= Len(p) => turn = s
  BY <1>8, <1>9, <1>10 DEF CleanTurn, Skips, PartEnds
<1>2. r < Len(p) /\ Skips(p, r) => turn = [s EXCEPT !.read = r + 1]
  BY <1>8, <1>9, <1>10 DEF CleanTurn, Skips, PartEnds
<1>3. r < Len(p) /\ ~Skips(p, r) /\ IsParent(p, r) /\ Len(out) > d =>
        turn = [read |-> r + 2, output |-> SubSeq(out, 1, DropTo(out, d)), dotdot |-> d]
  BY <1>8, <1>9, <1>10 DEF CleanTurn, Skips, IsParent, PartEnds
<1>4. r < Len(p) /\ ~Skips(p, r) /\ IsParent(p, r) /\ Len(out) <= d /\ Head(p) = Slash =>
        turn = [s EXCEPT !.read = r + 2]
  BY <1>8, <1>9, <1>10 DEF CleanTurn, Skips, IsParent, PartEnds
<1>5. r < Len(p) /\ ~Skips(p, r) /\ IsParent(p, r) /\ Len(out) <= d /\ ~(Head(p) = Slash) =>
        turn = [read |-> r + 2, output |-> climbed, dotdot |-> Len(climbed)]
  BY <1>8, <1>9, <1>10 DEF CleanTurn, Skips, IsParent, PartEnds, Separator
<1>6. r < Len(p) /\ ~Skips(p, r) /\ ~IsParent(p, r) =>
        turn = [read |-> PartEnd(p, r),
                output |-> out \o Separator(rooted, out) \o SubSeq(p, r + 1, PartEnd(p, r)),
                dotdot |-> d]
  BY <1>8, <1>9, <1>10 DEF CleanTurn, Skips, IsParent, PartEnds, PartEnd, Separator
<1> HIDE DEF turn
<1>7. TurnsTo(p, rooted, r, out, d, turn)
  BY <1>8, <1>10, <1>11, <1>1, <1>2, <1>3, <1>4, <1>5, <1>6 DEF TurnsTo, s
<1> QED BY <1>7 DEF turn, s

\* The end of the component that starts after r bytes.
LEMMA PartBounds ==
  ASSUME NEW p \in Text, NEW r \in 0..Len(p), r < Len(p), ~Skips(p, r)
  PROVE  LET n == PartEnd(p, r)
         IN  /\ n \in (r + 1)..Len(p) /\ PartEnds(p, n)
             /\ \A i \in (r + 1)..n : p[i] # Slash
<1> DEFINE T == {m \in (r + 1)..Len(p) : PartEnds(p, m)}
           n == PartEnd(p, r)
<1>1. Len(p) \in Nat
  BY DEF Text
<1>2. T \subseteq Nat /\ Len(p) \in T
  BY <1>1 DEF PartEnds
<1>3. n \in T /\ \A m \in T : n <= m
  <2>1. n = Min(T)
    BY DEF PartEnd
  <2> HIDE DEF T, n
  <2> QED BY <1>2, <2>1, MinIsLeast
<1> HIDE DEF n
<1>4. ASSUME NEW i \in (r + 1)..n PROVE p[i] # Slash
  <2>1. CASE i = r + 1
    BY <2>1 DEF Skips
  <2>2. CASE i # r + 1
    <3> SUFFICES ASSUME p[i] = Slash PROVE FALSE
      OBVIOUS
    <3>1. i - 1 \in (r + 1)..Len(p) /\ (i - 1) + 1 = i /\ ~(n <= i - 1)
      BY <1>1, <1>3, <2>2
    <3>2. i - 1 \in T
      BY <3>1 DEF PartEnds
    <3> QED BY <1>3, <3>1, <3>2
  <2> QED BY <2>1, <2>2
<1> QED BY <1>3, <1>4 DEF n

\* The component itself.
LEMMA Part ==
  ASSUME NEW p \in Text, NEW r \in 0..Len(p), r < Len(p), ~Skips(p, r), ~IsParent(p, r)
  PROVE  LET c == SubSeq(p, r + 1, PartEnd(p, r))
         IN  /\ c \in Text /\ c # <<>> /\ c # DotDot
             /\ \A i \in 1..Len(c) : c[i] # Slash
             /\ p \in CText => c \in CText
<1> DEFINE n == PartEnd(p, r)
           c == SubSeq(p, r + 1, n)
<1>1. Len(p) \in Nat
  BY DEF Text
<1>2. /\ n \in (r + 1)..Len(p) /\ PartEnds(p, n)
      /\ \A i \in (r + 1)..n : p[i] # Slash
  BY PartBounds
<1> HIDE DEF n
<1>3. r + 1 \in 1..(Len(p) + 1) /\ n \in 0..Len(p) /\ r + 1 <= n /\ n - (r + 1) + 1 = n - r
      /\ \A i \in 1..(n - r) : (r + 1) + i - 1 = r + i /\ r + i \in (r + 1)..n
  BY <1>1, <1>2
<1>4. /\ c \in Text
      /\ Len(c) = IF r + 1 <= n THEN n - (r + 1) + 1 ELSE 0
      /\ \A i \in 1..(n - (r + 1) + 1) : c[i] = p[(r + 1) + i - 1]
  BY <1>3, Stretch
<1>5. p \in CText => c \in CText
  BY <1>1, <1>3, StretchCText
<1> HIDE DEF c
<1>6. Len(c) = n - r /\ \A i \in 1..(n - r) : c[i] = p[r + i] /\ r + i \in (r + 1)..n
  BY <1>3, <1>4
<1>7. c # <<>>
  <2>1. n - r >= 1
    BY <1>1, <1>2
  <2> QED BY <1>6, <2>1
<1>8. \A i \in 1..Len(c) : c[i] # Slash
  BY <1>2, <1>6
<1>9. c # DotDot
  <2> SUFFICES ASSUME c = DotDot PROVE FALSE
    OBVIOUS
  <2>1. Len(c) = 2 /\ c[1] = Dot /\ c[2] = Dot
    BY DEF DotDot
  <2>2. n = r + 2 /\ 1 \in 1..(n - r) /\ 2 \in 1..(n - r)
    <3>1. n - r = 2
      BY <1>6, <2>1
    <3> QED BY <1>1, <1>2, <3>1
  <2>3. p[r + 1] = Dot /\ p[r + 2] = Dot /\ r + 1 < Len(p)
    BY <1>1, <1>2, <1>6, <2>1, <2>2
  <2> QED BY <1>2, <2>2, <2>3 DEF IsParent
<1> QED BY <1>4, <1>5, <1>7, <1>8, <1>9 DEF c, n

\* ".." drops the component at the end of the output and the separator before it.
EndsIn(out, o, sep, c, d) ==
  /\ out = o \o sep \o c /\ o \in Text /\ sep \in Text /\ c \in Text /\ d \in 0..Len(o)
  /\ c # <<>> /\ \A i \in 1..Len(c) : c[i] # Slash
  /\ sep = <<Slash>> \/ (sep = <<>> /\ d = Len(o))

LEMMA DropLast ==
  ASSUME NEW out, NEW o, NEW sep, NEW c, NEW d, EndsIn(out, o, sep, c, d)
  PROVE  /\ out \in Text /\ Len(out) > d
         /\ DropTo(out, d) = Len(o) /\ SubSeq(out, 1, Len(o)) = o
<1> DEFINE L == Len(o)
           K == Len(sep)
           T == {w \in d..(Len(out) - 1) : w = d \/ out[w + 1] = Slash}
<1>0. /\ out = o \o sep \o c /\ o \in Text /\ sep \in Text /\ c \in Text /\ d \in 0..Len(o)
      /\ c # <<>> /\ \A i \in 1..Len(c) : c[i] # Slash
      /\ sep = <<Slash>> \/ (sep = <<>> /\ d = Len(o))
  BY DEF EndsIn
<1>1. PICK os \in Text : os = o \o sep
  BY <1>0, JoinedTexts
<1>2. /\ Len(os) = L + K /\ L \in Nat /\ K \in Nat
      /\ \A i \in 1..L : os[i] = o[i]
      /\ \A i \in (L + 1)..(L + K) : os[i] = sep[i - L]
  BY <1>0, <1>1, JoinedTexts
<1>3. /\ out \in Text /\ Len(out) = Len(os) + Len(c) /\ Len(c) \in Nat
      /\ \A i \in 1..Len(os) : out[i] = os[i]
      /\ \A i \in (Len(os) + 1)..(Len(os) + Len(c)) : out[i] = c[i - Len(os)]
  BY <1>0, <1>1, JoinedTexts
<1>4. Len(c) >= 1
  <2>1. Len(c) # 0
    BY <1>0 DEF Text
  <2> QED BY <1>3, <2>1
<1>5. K = 0 \/ K = 1
  BY <1>0, SlashText
<1> HIDE DEF L, K
<1>6. d \in 0..L
  BY <1>0 DEF L
<1>7. Len(out) > d /\ L \in d..(Len(out) - 1)
  BY <1>2, <1>3, <1>4, <1>5, <1>6
<1>8. L \in T
  <2>1. CASE sep = <<Slash>>
    <3>1. K = 1 /\ sep[1] = Slash
      BY <2>1, SlashText DEF K
    <3>2. L + 1 \in (L + 1)..(L + K) /\ L + 1 \in 1..Len(os) /\ (L + 1) - L = 1
      BY <1>2, <3>1
    <3>3. out[L + 1] = Slash
      BY <1>2, <1>3, <3>1, <3>2
    <3> QED BY <1>7, <3>3
  <2>2. CASE d = L
    BY <1>7, <2>2
  <2> QED BY <1>0, <2>1, <2>2 DEF L
<1>9. ASSUME NEW w \in T PROVE w <= L
  <2> SUFFICES ASSUME w > L PROVE FALSE
    BY <1>2, <1>6
  <2>1. w # d /\ out[w + 1] = Slash
    BY <1>2, <1>6
  <2>2. w + 1 \in (Len(os) + 1)..(Len(os) + Len(c)) /\ (w + 1) - Len(os) \in 1..Len(c)
    BY <1>2, <1>3, <1>5, <1>6
  <2> QED BY <1>0, <1>3, <2>1, <2>2
<1>10. Max(T) = L
  <2>1. T \subseteq 0..(Len(out) - 1) /\ Len(out) - 1 \in Nat
    BY <1>2, <1>3, <1>4, <1>6
  <2> HIDE DEF T
  <2>2. Max(T) \in T /\ \A n \in T : n <= Max(T)
    BY <1>8, <2>1, MaxIsGreatest
  <2>3. Max(T) <= L /\ L <= Max(T) /\ Max(T) \in 0..(Len(out) - 1)
    BY <1>8, <1>9, <2>1, <2>2
  <2> QED BY <1>2, <2>1, <2>3
<1>11. DropTo(out, d) = L
  BY <1>10 DEF DropTo
<1>12. SubSeq(out, 1, L) = o
  <2>1. os \in Seq(Byte) /\ c \in Seq(Byte) /\ o \in Seq(Byte) /\ sep \in Seq(Byte)
    BY <1>0 DEF Text
  <2>2. L \in 0..Len(os) /\ L \in 0..Len(o)
    BY <1>2, <1>3 DEF L
  <2>3. SubSeq(os \o c, 1, L) = SubSeq(os, 1, L)
    BY <2>1, <2>2, PrefixOfConcat
  <2>4. SubSeq(o \o sep, 1, L) = SubSeq(o, 1, L)
    BY <2>1, <2>2, PrefixOfConcat
  <2>5. SubSeq(o, 1, L) = o
    BY <2>1, SubSeqFull DEF L
  <2> QED BY <1>0, <1>1, <2>3, <2>4, <2>5
<1> QED BY <1>3, <1>7, <1>11, <1>12 DEF L

LEMMA FloorAppend ==
  ASSUME NEW p, NEW rooted, NEW kept \in Seq(Words(p)), NEW c \in Words(p), NEW m \in 0..Len(kept)
  PROVE  Floor(rooted, Append(kept, c), m) = Floor(rooted, kept, m)
<1>1. Append(kept, c) = kept \o <<c>> /\ <<c>> \in Seq(Words(p))
  BY AppendIsConcat
<1>2. SubSeq(Append(kept, c), 1, m) = SubSeq(kept, 1, m)
  BY <1>1, PrefixOfConcat
<1> QED BY <1>2 DEF Floor

Drops(rooted, kept, out, d) == Len(out) > d /\ SubSeq(out, 1, DropTo(out, d)) = Out(rooted, kept)

LEMMA DropWord ==
  ASSUME NEW p, NEW rooted \in BOOLEAN, NEW kept \in Seq(Words(p)), NEW c \in Words(p),
         NEW m \in 0..Len(kept), NEW out, out = Out(rooted, Append(kept, c)),
         NEW d, d = Floor(rooted, kept, m)
  PROVE  Drops(rooted, kept, out, d)
<1>1. PICK o \in Text : o = Out(rooted, kept)
  BY OutType
<1>2. PICK sep \in Text : sep = Separator(rooted, o)
  BY SlashText DEF Separator
<1>3. c \in Text /\ c # <<>> /\ \A i \in 1..Len(c) : c[i] # Slash
  BY DEF Words
<1>4. out = o \o sep \o c /\ sep = (IF kept = <<>> THEN <<>> ELSE <<Slash>>)
  BY <1>1, <1>2, OutAppend
<1>5. d \in 0..Len(o)
  <2>1. d \in Nat /\ d <= Len(o)
    BY <1>1, FloorBelow
  <2>2. Len(o) \in Nat
    BY DEF Text
  <2> QED BY <2>1, <2>2
<1>6. kept = <<>> => d = Len(o)
  <2> SUFFICES ASSUME kept = <<>> PROVE d = Len(o)
    OBVIOUS
  <2>1. Len(kept) = 0 /\ m = 0
    OBVIOUS
  <2>2. SubSeq(kept, 1, 0) = kept
    BY <2>1, SubSeqFull
  <2> QED BY <1>1, <2>1, <2>2 DEF Floor
<1>7. sep = <<Slash>> \/ (sep = <<>> /\ d = Len(o))
  BY <1>4, <1>6
<1>9. EndsIn(out, o, sep, c, d)
  BY <1>3, <1>4, <1>5, <1>7 DEF EndsIn
<1>8. Len(out) > d /\ DropTo(out, d) = Len(o) /\ SubSeq(out, 1, Len(o)) = o
  BY <1>9, DropLast
<1> QED BY <1>1, <1>8 DEF Drops

\* The state of clean_path's loop: the output is that of the components kept so far, and
\* the floor is where the ".." in front of them end.
AtPart(p, r) == r = 0 \/ p[r] = Slash \/ r = Len(p) \/ p[r + 1] = Slash

Cleaning == [read : Nat, output : Text, dotdot : Nat]

CleanedAt(p, rooted, f, r, out, d, m) ==
  /\ r \in 0..Len(p) /\ AtPart(p, r) /\ Shape(p, rooted, f[r], m)
  /\ out = Out(rooted, f[r]) /\ out \in Text
  /\ d = Floor(rooted, f[r], m) /\ d \in Nat

IsCleaned(p, rooted, f, s) ==
  /\ s \in Cleaning
  /\ \E m : CleanedAt(p, rooted, f, s.read, s.output, s.dotdot, m)

\* The component that a turn reads.
LEMMA PartRead ==
  ASSUME NEW p \in Text, NEW r \in Nat, r < Len(p), AtPart(p, r), p[r + 1] # Slash
  PROVE  /\ PartEnds(p, r + 1) => IsPart(p, r, r + 1) /\ SubSeq(p, r + 1, r + 1) = <<p[r + 1]>>
         /\ IsParent(p, r) => IsPart(p, r, r + 2) /\ SubSeq(p, r + 1, r + 2) = DotDot
         /\ ~Skips(p, r) => IsPart(p, r, PartEnd(p, r))
         /\ ~Skips(p, r) /\ ~IsParent(p, r) => SubSeq(p, r + 1, PartEnd(p, r)) \in Words(p)
<1>1. Len(p) \in Nat /\ r \in 0..(Len(p) - 1) /\ r \in 0..Len(p)
  BY DEF Text
<1>2. r = 0 \/ p[r] = Slash
  BY DEF AtPart
<1>3. ASSUME PartEnds(p, r + 1)
      PROVE  IsPart(p, r, r + 1) /\ SubSeq(p, r + 1, r + 1) = <<p[r + 1]>>
  <2>1. r + 1 \in (r + 1)..Len(p) /\ \A i \in (r + 1)..(r + 1) : i = r + 1
    BY <1>1
  <2>2. IsPart(p, r, r + 1)
    BY <1>1, <1>2, <1>3, <2>1 DEF IsPart, PartEnds
  <2>3. r + 1 \in 1..Len(p)
    BY <1>1
  <2>4. SubSeq(p, r + 1, r + 1) = <<p[r + 1]>>
    <3>1. r + 1 \in 1..(Len(p) + 1) /\ r + 1 \in 0..Len(p) /\ r + 1 <= r + 1 /\ (r + 1) - (r + 1) + 1 = 1
          /\ (r + 1) + 1 - 1 = r + 1
      BY <1>1
    <3>2. PICK c : c = SubSeq(p, r + 1, r + 1)
      OBVIOUS
    <3>3. /\ c \in Text /\ Len(c) = IF r + 1 <= r + 1 THEN (r + 1) - (r + 1) + 1 ELSE 0
          /\ \A i \in 1..((r + 1) - (r + 1) + 1) : c[i] = p[(r + 1) + i - 1]
      BY <3>1, <3>2, Stretch
    <3>4. Len(c) = 1 /\ 1 \in 1..1 /\ c[1] = p[r + 1] /\ c \in Seq(Byte)
      BY <3>1, <3>3 DEF Text
    <3>5. c = <<p[r + 1]>>
      BY <3>4
    <3> QED BY <3>2, <3>5
  <2> QED BY <2>2, <2>4
<1>4. ASSUME IsParent(p, r)
      PROVE  IsPart(p, r, r + 2) /\ SubSeq(p, r + 1, r + 2) = DotDot
  <2>1. p[r + 1] = Dot /\ p[r + 2] = Dot /\ r + 1 < Len(p) /\ PartEnds(p, r + 2)
    BY <1>4 DEF IsParent
  <2>2. r + 2 \in (r + 1)..Len(p) /\ \A i \in (r + 1)..(r + 2) : i = r + 1 \/ i = r + 2
    BY <1>1, <2>1
  <2>3. \A i \in (r + 1)..(r + 2) : p[i] # Slash
    BY <2>1, <2>2 DEF Dot, Slash
  <2>4. IsPart(p, r, r + 2)
    BY <1>1, <1>2, <2>1, <2>2, <2>3 DEF IsPart, PartEnds
  <2>5. r + 1 \in 1..(Len(p) + 1) /\ r + 2 \in 0..Len(p) /\ r + 1 <= r + 2 /\ (r + 2) - (r + 1) + 1 = 2
        /\ (r + 1) + 1 - 1 = r + 1 /\ (r + 1) + 2 - 1 = r + 2
    BY <1>1, <2>1
  <2>6. PICK c : c = SubSeq(p, r + 1, r + 2)
    OBVIOUS
  <2>7. /\ c \in Text /\ Len(c) = IF r + 1 <= r + 2 THEN (r + 2) - (r + 1) + 1 ELSE 0
        /\ \A i \in 1..((r + 2) - (r + 1) + 1) : c[i] = p[(r + 1) + i - 1]
    BY <2>5, <2>6, Stretch
  <2>8. Len(c) = 2 /\ 1 \in 1..2 /\ 2 \in 1..2
    BY <2>5, <2>7
  <2>9. c[1] = Dot /\ c[2] = Dot
    BY <2>1, <2>5, <2>7, <2>8
  <2>10. DotDot \in Text /\ Len(DotDot) = 2 /\ DotDot[1] = Dot /\ DotDot[2] = Dot
    BY DotDotWord
  <2>11. \A i \in 1..Len(c) : c[i] = DotDot[i]
    <3>1. \A i \in 1..2 : i = 1 \/ i = 2
      OBVIOUS
    <3> QED BY <2>8, <2>9, <2>10, <3>1
  <2>12. c = DotDot
    BY <2>7, <2>8, <2>10, <2>11, SeqEqual DEF Text
  <2> QED BY <2>4, <2>6, <2>12
<1>5. ASSUME ~Skips(p, r)
      PROVE  IsPart(p, r, PartEnd(p, r))
  <2>1. PICK n : n = PartEnd(p, r)
    OBVIOUS
  <2>2. n \in (r + 1)..Len(p) /\ PartEnds(p, n) /\ \A i \in (r + 1)..n : p[i] # Slash
    BY <1>1, <1>5, <2>1, PartBounds
  <2> QED BY <1>1, <1>2, <2>1, <2>2 DEF IsPart, PartEnds
<1>6. ASSUME ~Skips(p, r), ~IsParent(p, r)
      PROVE  SubSeq(p, r + 1, PartEnd(p, r)) \in Words(p)
  <2>1. PICK n : n = PartEnd(p, r)
    OBVIOUS
  <2>2. n \in (r + 1)..Len(p) /\ PartEnds(p, n)
    BY <1>1, <1>6, <2>1, PartBounds
  <2>3. PICK c : c = SubSeq(p, r + 1, n)
    OBVIOUS
  <2>4. /\ c \in Text /\ c # <<>> /\ c # DotDot
        /\ \A i \in 1..Len(c) : c[i] # Slash
        /\ p \in CText => c \in CText
    BY <1>1, <1>6, <2>1, <2>3, Part
  <2>6. r + 1 \in 1..(Len(p) + 1) /\ n \in 0..Len(p) /\ r + 1 <= n
    BY <1>1, <2>2
  <2>7. /\ Len(c) = IF r + 1 <= n THEN n - (r + 1) + 1 ELSE 0
        /\ \A i \in 1..(n - (r + 1) + 1) : c[i] = p[(r + 1) + i - 1]
    BY <2>3, <2>6, Stretch
  <2>5. c # <<Dot>>
    <3> SUFFICES ASSUME c = <<Dot>> PROVE FALSE
      OBVIOUS
    <3>3. Len(c) = 1 /\ c[1] = Dot
      OBVIOUS
    <3>4. n = r + 1 /\ 1 \in 1..(n - (r + 1) + 1) /\ (r + 1) + 1 - 1 = r + 1
      BY <1>1, <2>2, <2>6, <2>7, <3>3
    <3>5. p[r + 1] = Dot
      BY <2>7, <3>3, <3>4
    <3> QED BY <1>6, <2>2, <3>4, <3>5 DEF Skips
  <2> QED BY <2>1, <2>3, <2>4, <2>5 DEF Words
<1> QED BY <1>3, <1>4, <1>5, <1>6

IsOut(rooted, kept, out) == out = Out(rooted, kept)

LEMMA OutGrows ==
  ASSUME NEW p, NEW rooted \in BOOLEAN, NEW kept \in Seq(Words(p)), NEW c \in Words(p),
         NEW out, IsOut(rooted, kept, out), NEW o, o = out \o Separator(rooted, out) \o c
  PROVE  IsOut(rooted, Append(kept, c), o)
<1>1. out = Out(rooted, kept)
  BY DEF IsOut
<1>2. o = Out(rooted, Append(kept, c))
  BY <1>1, OutAppend
<1> QED BY <1>2 DEF IsOut

\* The turn leaves a state that is cleaned further.
Advances(p, rooted, f, r, turn) == IsCleaned(p, rooted, f, turn) /\ turn.read > r

LEMMA Advance ==
  ASSUME NEW p, NEW rooted, NEW f, NEW r \in Nat, NEW turn,
         NEW n, NEW o, NEW e, turn = [read |-> n, output |-> o, dotdot |-> e],
         NEW m, CleanedAt(p, rooted, f, n, o, e, m), Len(p) \in Nat, n > r
  PROVE  Advances(p, rooted, f, r, turn)
<1>1. n \in Nat /\ o \in Text /\ e \in Nat
  BY DEF CleanedAt
<1>2. turn \in Cleaning /\ turn.read = n /\ turn.output = o /\ turn.dotdot = e
  BY <1>1 DEF Cleaning
<1>3. IsCleaned(p, rooted, f, turn)
  BY <1>2 DEF IsCleaned
<1> QED BY <1>2, <1>3 DEF Advances

\* What the turn sees of the state.
SeesAt(p, rooted, r, out, d, k, m) ==
  /\ Len(p) \in Nat /\ r \in 0..Len(p) /\ out \in Text /\ Len(out) \in Nat /\ d \in Nat
  /\ AtPart(p, r) /\ out = Out(rooted, k) /\ Shape(p, rooted, k, m) /\ d = Floor(rooted, k, m)
  /\ k \in Seq(Words(p)) /\ m \in 0..Len(k) /\ Len(k) \in Nat
  /\ m < Len(k) => /\ Front(k) \in Seq(Words(p)) /\ m \in 0..Len(Front(k))
                   /\ Drops(rooted, Front(k), out, d) /\ d = Floor(rooted, Front(k), m)
  /\ m = Len(k) => Len(out) <= d

LEMMA CleanedFacts ==
  ASSUME NEW p \in Text, NEW rooted \in BOOLEAN, NEW f,
         NEW r, NEW out, NEW d, NEW m, CleanedAt(p, rooted, f, r, out, d, m),
         NEW k, k = f[r]
  PROVE  SeesAt(p, rooted, r, out, d, k, m)
<1>1. /\ Len(p) \in Nat /\ r \in 0..Len(p) /\ out \in Text /\ Len(out) \in Nat /\ d \in Nat
      /\ AtPart(p, r) /\ out = Out(rooted, k) /\ Shape(p, rooted, k, m) /\ d = Floor(rooted, k, m)
  BY DEF CleanedAt, Text
<1>2. k \in Seq(Words(p)) /\ m \in 0..Len(k) /\ Len(k) \in Nat
  BY <1>1 DEF Shape
<1>3. ASSUME m < Len(k)
      PROVE  /\ Front(k) \in Seq(Words(p)) /\ m \in 0..Len(Front(k))
             /\ Drops(rooted, Front(k), out, d) /\ d = Floor(rooted, Front(k), m)
  <2>1. k # <<>>
    BY <1>2, <1>3
  <2>2. /\ Front(k) \in Seq(Words(p)) /\ Len(Front(k)) = Len(k) - 1 /\ Last(k) \in Words(p)
        /\ k = Append(Front(k), Last(k))
    BY <1>2, <2>1, Fronts
  <2>3. PICK a \in Seq(Words(p)), c \in Words(p) : a = Front(k) /\ c = Last(k) /\ k = Append(a, c)
    BY <2>2
  <2>4. m \in 0..Len(a)
    BY <1>2, <1>3, <2>2, <2>3
  <2>5. Floor(rooted, Append(a, c), m) = Floor(rooted, a, m)
    BY <2>4, FloorAppend
  <2>6. d = Floor(rooted, a, m) /\ out = Out(rooted, Append(a, c))
    BY <1>1, <2>3, <2>5
  <2>7. Drops(rooted, a, out, d)
    BY <2>4, <2>6, DropWord
  <2> QED BY <2>3, <2>4, <2>6, <2>7
<1>4. ASSUME m = Len(k) PROVE Len(out) <= d
  <2>1. SubSeq(k, 1, m) = k
    BY <1>2, <1>4, SubSeqFull
  <2>2. d = Len(out)
    BY <1>1, <2>1 DEF Floor
  <2> QED BY <1>1, <2>2
<1> QED BY <1>1, <1>2, <1>3, <1>4 DEF SeesAt

\* A turn resolves what it reads, and reads something.
LEMMA CleanStep ==
  ASSUME NEW p \in Text, p # <<>>, NEW rooted \in BOOLEAN, rooted = (Head(p) = Slash),
         NEW f, IsResolution(f, rooted, p),
         NEW r, NEW out, NEW d, NEW m, CleanedAt(p, rooted, f, r, out, d, m), r < Len(p),
         NEW turn, turn = CleanTurn(p, [read |-> r, output |-> out, dotdot |-> d])
  PROVE  Advances(p, rooted, f, r, turn)
<1>1. PICK k : k = f[r]
  OBVIOUS
<1>2. /\ Len(p) \in Nat /\ r \in 0..Len(p) /\ out \in Text /\ Len(out) \in Nat /\ d \in Nat
      /\ AtPart(p, r) /\ out = Out(rooted, k) /\ Shape(p, rooted, k, m) /\ d = Floor(rooted, k, m)
      /\ k \in Seq(Words(p)) /\ m \in 0..Len(k) /\ Len(k) \in Nat
      /\ m < Len(k) => /\ Front(k) \in Seq(Words(p)) /\ m \in 0..Len(Front(k))
                       /\ Drops(rooted, Front(k), out, d) /\ d = Floor(rooted, Front(k), m)
      /\ m = Len(k) => Len(out) <= d
  <2>1. SeesAt(p, rooted, r, out, d, k, m)
    BY <1>1, CleanedFacts
  <2> QED BY <2>1 DEF SeesAt
<1>3. r \in Nat
  BY <1>2
<1>4. TurnsTo(p, rooted, r, out, d, turn)
  BY <1>2, <1>3, CleanTurns
<1>5. StepsByPart(f, rooted, p)
  BY WordStep
<1>6. ResolvesTo(p, rooted, k, m)
  BY <1>2, Resolves
<1>7. ASSUME Skips(p, r) PROVE Advances(p, rooted, f, r, turn)
  <2>1. turn = [read |-> r + 1, output |-> out, dotdot |-> d]
    BY <1>4, <1>7 DEF TurnsTo
  <2>2. f[r + 1] = k /\ AtPart(p, r + 1)
    <3>1. CASE p[r + 1] = Slash
      <4>1. r + 1 \in 1..Len(p) /\ (r + 1) - 1 = r
        BY <1>2
      <4> QED BY <1>1, <1>5, <3>1, <4>1 DEF AtPart, StepsByPart
    <3>2. CASE p[r + 1] # Slash
      <4>1. p[r + 1] = Dot /\ PartEnds(p, r + 1)
        BY <1>7, <3>2 DEF Skips
      <4>2. IsPart(p, r, r + 1) /\ SubSeq(p, r + 1, r + 1) = <<p[r + 1]>>
        BY <1>2, <1>3, <3>2, <4>1, PartRead
      <4>3. f[r + 1] = Resolve(rooted, f[r], SubSeq(p, r + 1, r + 1))
        BY <1>5, <4>2 DEF StepsByPart
      <4>4. Resolve(rooted, k, <<Dot>>) = k
        BY <1>6 DEF ResolvesTo
      <4> QED BY <1>1, <4>1, <4>2, <4>3, <4>4 DEF AtPart, PartEnds
    <3> QED BY <3>1, <3>2
  <2>3. r + 1 \in 0..Len(p) /\ r + 1 > r
    BY <1>2
  <2>4. CleanedAt(p, rooted, f, r + 1, out, d, m)
    BY <1>2, <2>2, <2>3 DEF CleanedAt
  <2> QED BY <1>2, <1>3, <2>1, <2>3, <2>4, Advance
<1>8. ASSUME ~Skips(p, r), IsParent(p, r) PROVE Advances(p, rooted, f, r, turn)
  <2>1. p[r + 1] # Slash /\ r + 2 \in 0..Len(p) /\ r + 2 > r /\ PartEnds(p, r + 2)
    BY <1>2, <1>8 DEF IsParent, Skips
  <2>2. IsPart(p, r, r + 2) /\ SubSeq(p, r + 1, r + 2) = DotDot
    BY <1>2, <1>3, <1>8, <2>1, PartRead
  <2>3. f[r + 2] = Resolve(rooted, k, DotDot)
    <3>1. f[r + 2] = Resolve(rooted, f[r], SubSeq(p, r + 1, r + 2))
      BY <1>5, <2>2 DEF StepsByPart
    <3> QED BY <1>1, <2>2, <3>1
  <2>4. AtPart(p, r + 2)
    BY <2>1 DEF AtPart, PartEnds
  <2>5. CASE m < Len(k)
    <3>1. f[r + 2] = Front(k) /\ Shape(p, rooted, Front(k), m)
      BY <1>6, <2>3, <2>5 DEF ResolvesTo
    <3>2. PICK o : o = SubSeq(out, 1, DropTo(out, d))
      OBVIOUS
    <3>3. /\ Front(k) \in Seq(Words(p)) /\ Len(out) > d /\ o = Out(rooted, Front(k))
          /\ d = Floor(rooted, Front(k), m)
      BY <1>2, <2>5, <3>2 DEF Drops
    <3>4. o \in Text
      BY <3>3, OutType
    <3>5. turn = [read |-> r + 2, output |-> o, dotdot |-> d]
      BY <1>4, <1>8, <3>2, <3>3 DEF TurnsTo
    <3>6. CleanedAt(p, rooted, f, r + 2, o, d, m)
      BY <1>2, <2>1, <2>4, <3>1, <3>3, <3>4 DEF CleanedAt
    <3> QED BY <1>2, <1>3, <2>1, <3>5, <3>6, Advance
  <2>6. CASE m = Len(k) /\ rooted
    <3>1. f[r + 2] = k
      BY <1>6, <2>3, <2>6 DEF ResolvesTo
    <3>2. Len(out) <= d
      BY <1>2, <2>6
    <3>3. turn = [read |-> r + 2, output |-> out, dotdot |-> d]
      BY <1>4, <1>8, <2>6, <3>2 DEF TurnsTo
    <3>4. CleanedAt(p, rooted, f, r + 2, out, d, m)
      BY <1>2, <2>1, <2>4, <3>1 DEF CleanedAt
    <3> QED BY <1>2, <1>3, <2>1, <3>3, <3>4, Advance
  <2>7. CASE m = Len(k) /\ ~rooted
    <3>1. f[r + 2] = Append(k, DotDot) /\ Shape(p, rooted, Append(k, DotDot), m + 1)
      BY <1>6, <2>3, <2>7 DEF ResolvesTo
    <3>2. Len(out) <= d
      BY <1>2, <2>7
    <3>3. PICK o : o = out \o Separator(rooted, out) \o DotDot
      OBVIOUS
    <3>4. turn = [read |-> r + 2, output |-> o, dotdot |-> Len(o)]
      BY <1>4, <1>8, <2>7, <3>2, <3>3 DEF TurnsTo
    <3>5. DotDot \in Words(p)
      BY DotDotWord
    <3>6. o = Out(rooted, Append(k, DotDot))
      <4>1. k \in Seq(Words(p)) /\ IsOut(rooted, k, out)
        BY <1>2 DEF IsOut
      <4>2. IsOut(rooted, Append(k, DotDot), o)
        BY <3>3, <3>5, <4>1, OutGrows
      <4> QED BY <4>2 DEF IsOut
    <3>7. PICK more \in Seq(Words(p)) : more = Append(k, DotDot) /\ Len(more) = Len(k) + 1
      BY <1>2, <3>5, AppendProperties
    <3>8. o \in Text /\ Len(o) \in Nat
      <4>1. o \in Text
        BY <3>6, <3>7, OutType
      <4> QED BY <4>1 DEF Text
    <3>9. Len(o) = Floor(rooted, more, m + 1)
      <4>1. SubSeq(more, 1, m + 1) = more
        BY <2>7, <3>7, SubSeqFull
      <4> QED BY <3>6, <3>7, <4>1 DEF Floor
    <3>10. CleanedAt(p, rooted, f, r + 2, o, Len(o), m + 1)
      BY <2>1, <2>4, <3>1, <3>6, <3>7, <3>8, <3>9 DEF CleanedAt
    <3> QED BY <1>2, <1>3, <2>1, <3>4, <3>10, Advance
  <2>8. m < Len(k) \/ m = Len(k)
    BY <1>2
  <2> QED BY <2>5, <2>6, <2>7, <2>8
<1>9. ASSUME ~Skips(p, r), ~IsParent(p, r) PROVE Advances(p, rooted, f, r, turn)
  <2>1. PICK n : n = PartEnd(p, r)
    OBVIOUS
  <2>2. p[r + 1] # Slash
    BY <1>9 DEF Skips
  <2>3. n \in (r + 1)..Len(p) /\ PartEnds(p, n)
    BY <1>2, <1>9, <2>1, PartBounds
  <2>4. PICK c : c = SubSeq(p, r + 1, n)
    OBVIOUS
  <2>5. IsPart(p, r, n) /\ c \in Words(p)
    BY <1>2, <1>3, <1>9, <2>1, <2>2, <2>4, PartRead
  <2>6. c # DotDot
    BY <1>2, <1>9, <2>1, <2>4, Part
  <2>7. f[n] = Resolve(rooted, k, c)
    <3>1. f[n] = Resolve(rooted, f[r], SubSeq(p, r + 1, n))
      BY <1>5, <2>5 DEF StepsByPart
    <3> QED BY <1>1, <2>4, <3>1
  <2>8. f[n] = Append(k, c) /\ Shape(p, rooted, Append(k, c), m)
    BY <1>6, <2>5, <2>6, <2>7 DEF ResolvesTo
  <2>9. PICK o : o = out \o Separator(rooted, out) \o c
    OBVIOUS
  <2>10. o = Out(rooted, Append(k, c))
    <3>1. k \in Seq(Words(p)) /\ IsOut(rooted, k, out)
      BY <1>2 DEF IsOut
    <3>2. IsOut(rooted, Append(k, c), o)
      BY <2>5, <2>9, <3>1, OutGrows
    <3> QED BY <3>2 DEF IsOut
  <2>11. o \in Text
    <3>1. Append(k, c) \in Seq(Words(p))
      BY <1>2, <2>5, AppendProperties
    <3> QED BY <2>10, <3>1, OutType
  <2>12. d = Floor(rooted, Append(k, c), m)
    BY <1>2, <2>5, FloorAppend
  <2>13. turn = [read |-> n, output |-> o, dotdot |-> d]
    BY <1>4, <1>9, <2>1, <2>4, <2>9 DEF TurnsTo
  <2>14. n \in 0..Len(p) /\ n > r /\ AtPart(p, n)
    BY <1>2, <2>3 DEF AtPart, PartEnds
  <2>15. CleanedAt(p, rooted, f, n, o, d, m)
    BY <1>2, <2>8, <2>10, <2>11, <2>12, <2>14 DEF CleanedAt
  <2> QED BY <1>2, <1>3, <2>13, <2>14, <2>15, Advance
<1> QED BY <1>7, <1>8, <1>9

\* Where clean_path's loop starts.
CleanStart(p) ==
  LET rooted == IF Head(p) = Slash THEN 1 ELSE 0
  IN  [read |-> rooted, output |-> SubSeq(p, 1, rooted), dotdot |-> rooted]

LEMMA CleanStarts ==
  ASSUME NEW p \in Text, p # <<>>, NEW rooted \in BOOLEAN, rooted = (Head(p) = Slash),
         NEW f, IsResolution(f, rooted, p)
  PROVE  IsCleaned(p, rooted, f, CleanStart(p))
<1>1. Len(p) \in Nat /\ Len(p) >= 1 /\ 1 \in 1..Len(p) /\ Head(p) = p[1]
  <2>1. Len(p) \in Nat /\ Len(p) # 0 /\ Head(p) = p[1]
    BY DEF Text
  <2> QED BY <2>1
<1>2. f[0] = <<>>
  BY DEF IsResolution
<1>3. Shape(p, rooted, <<>>, 0)
  BY DEF Shape
<1>4. Out(rooted, <<>>) = Prefix(rooted) /\ <<>> \in Seq(Words(p)) /\ SubSeq(<<>>, 1, 0) = <<>>
  <2>1. <<>> \in Seq(Words(p)) /\ Len(<<>>) = 0
    OBVIOUS
  <2>2. SubSeq(<<>>, 1, 0) = <<>>
    BY SubSeqEmpty
  <2>3. Out(rooted, <<>>) = Prefix(rooted)
    BY <2>1, OutType, Zenon
  <2> QED BY <2>1, <2>2, <2>3
<1>5. PICK s : s = CleanStart(p)
  OBVIOUS
<1>6. CASE rooted
  <2>1. Head(p) = Slash /\ p[1] = Slash
    BY <1>1, <1>6
  <2>2. PICK o : o = SubSeq(p, 1, 1)
    OBVIOUS
  <2>3. o = <<Slash>>
    <3>1. 1 - 1 = 0 /\ 1 \in 1..Len(p)
      BY <1>1
    <3>2. SubSeq(p, 1, 1) = SubSeq(p, 1, 1 - 1) \o <<p[1]>>
      BY <3>1, SubSeqRecursiveSecond DEF Text
    <3>3. SubSeq(p, 1, 0) = <<>>
      BY SubSeqEmpty
    <3>4. <<>> \o <<Slash>> = <<Slash>>
      BY SlashText, ConcatEmptySeq DEF Text
    <3> QED BY <2>1, <2>2, <3>1, <3>2, <3>3, <3>4
  <2>4. s = [read |-> 1, output |-> o, dotdot |-> 1]
    BY <1>5, <2>1, <2>2 DEF CleanStart
  <2>5. s \in Cleaning /\ s.read = 1 /\ s.output = o /\ s.dotdot = 1
    BY <2>3, <2>4, SlashText DEF Cleaning
  <2>6. f[1] = <<>>
    <3>1. StepsByPart(f, rooted, p)
      BY WordStep
    <3>2. f[1] = f[1 - 1] /\ 1 - 1 = 0
      BY <1>1, <2>1, <3>1 DEF StepsByPart
    <3> QED BY <1>2, <3>2
  <2>7. o = Out(rooted, <<>>) /\ 1 = Floor(rooted, <<>>, 0)
    BY <1>4, <1>6, <2>3, SlashText DEF Floor, Prefix
  <2>8. AtPart(p, 1) /\ 1 \in 0..Len(p)
    BY <1>1, <2>1 DEF AtPart
  <2>9. CleanedAt(p, rooted, f, 1, o, 1, 0)
    BY <1>3, <2>3, <2>6, <2>7, <2>8, SlashText DEF CleanedAt
  <2> QED BY <1>5, <2>5, <2>9 DEF IsCleaned
<1>7. CASE ~rooted
  <2>1. Head(p) # Slash
    BY <1>7
  <2>2. SubSeq(p, 1, 0) = <<>>
    BY SubSeqEmpty
  <2>3. s = [read |-> 0, output |-> <<>>, dotdot |-> 0]
    BY <1>5, <2>1, <2>2 DEF CleanStart
  <2>4. s \in Cleaning /\ s.read = 0 /\ s.output = <<>> /\ s.dotdot = 0
    BY <2>3, SlashText DEF Cleaning
  <2>5. <<>> = Out(rooted, <<>>) /\ 0 = Floor(rooted, <<>>, 0)
    BY <1>4, <1>7, SlashText DEF Floor, Prefix
  <2>6. AtPart(p, 0) /\ 0 \in 0..Len(p)
    BY <1>1 DEF AtPart
  <2>7. CleanedAt(p, rooted, f, 0, <<>>, 0, 0)
    BY <1>2, <1>3, <2>5, <2>6, SlashText DEF CleanedAt
  <2> QED BY <1>5, <2>4, <2>7 DEF IsCleaned
<1> QED BY <1>6, <1>7

\* Every turn leaves a cleaned state, and reads something while there is something to read.
LEMMA CleanTurnOf ==
  ASSUME NEW p \in Text, p # <<>>, NEW rooted \in BOOLEAN, rooted = (Head(p) = Slash),
         NEW f, IsResolution(f, rooted, p), NEW s, IsCleaned(p, rooted, f, s)
  PROVE  /\ IsCleaned(p, rooted, f, CleanTurn(p, s))
         /\ s.read \in 0..Len(p) /\ Len(p) \in Nat
         /\ s.read < Len(p) => CleanTurn(p, s).read > s.read
         /\ s.read = Len(p) => CleanTurn(p, s) = s
<1>1. s \in Cleaning /\ \E m : CleanedAt(p, rooted, f, s.read, s.output, s.dotdot, m)
  BY DEF IsCleaned
<1>2. PICK r, out, d : r = s.read /\ out = s.output /\ d = s.dotdot
  OBVIOUS
<1>3. PICK m : CleanedAt(p, rooted, f, r, out, d, m)
  BY <1>1, <1>2
<1>4. s = [read |-> r, output |-> out, dotdot |-> d]
  BY <1>1, <1>2 DEF Cleaning
<1>5. r \in 0..Len(p) /\ Len(p) \in Nat /\ out \in Text /\ Len(out) \in Nat /\ d \in Nat /\ r \in Nat
  <2>1. r \in 0..Len(p) /\ out \in Text /\ d \in Nat
    BY <1>3 DEF CleanedAt
  <2>2. Len(p) \in Nat /\ Len(out) \in Nat
    BY <2>1 DEF Text
  <2> QED BY <2>1, <2>2
<1>6. PICK turn : turn = CleanTurn(p, s)
  OBVIOUS
<1>7. r < Len(p) => Advances(p, rooted, f, r, turn)
  BY <1>3, <1>4, <1>6, CleanStep
<1>8. r = Len(p) => turn = s
  <2>1. TurnsTo(p, rooted, r, out, d, turn)
    BY <1>4, <1>5, <1>6, CleanTurns
  <2>2. r = Len(p) => r >= Len(p)
    BY <1>5
  <2> QED BY <1>4, <2>1, <2>2 DEF TurnsTo
<1>9. r < Len(p) \/ r = Len(p)
  BY <1>5
<1> QED BY <1>2, <1>5, <1>6, <1>7, <1>8, <1>9 DEF Advances

\* What clean_path's loop has in the end.
LEMMA CleanLoop ==
  ASSUME NEW p \in Text, p # <<>>, NEW rooted \in BOOLEAN, rooted = (Head(p) = Slash),
         NEW f, IsResolution(f, rooted, p)
  PROVE  \E s : /\ IsCleaned(p, rooted, f, s) /\ s.read = Len(p)
                /\ clean_path(p) = IF s.output = <<>> THEN <<Dot>> ELSE s.output
<1> DEFINE N == Len(p)
           S == {s \in Cleaning : IsCleaned(p, rooted, f, s)}
           start == CleanStart(p)
           turn == [q \in S \X (1..N) |-> CleanTurn(p, q[1])]
           h == CHOOSE g : g = [k \in 0..N |-> IF k = 0 THEN start ELSE CleanTurn(p, g[k - 1])]
<1>1. N \in Nat
  BY DEF Text
<1>2. \A s : s \in S <=> IsCleaned(p, rooted, f, s)
  BY DEF IsCleaned
<1>3. start \in S
  BY <1>2, CleanStarts
<1>4. \A s \in S : /\ CleanTurn(p, s) \in S /\ s.read \in 0..N
                   /\ s.read < N => CleanTurn(p, s).read > s.read
                   /\ s.read = N => CleanTurn(p, s) = s
  BY <1>2, CleanTurnOf
<1>5. clean_path(p) = IF h[N].output = <<>> THEN <<Dot>> ELSE h[N].output
  BY Zenon DEF clean_path, Loop, N, CleanStart
<1> HIDE DEF N, S, start
<1>6. turn \in Turns(S, N)
  BY <1>4 DEF Turns
<1>7. PICK g : IsLoop(g, S, N, start, turn)
  <2> HIDE DEF turn, h
  <2> QED BY <1>1, <1>3, <1>6, LoopExists
<1>8. \A k \in 0..N : k # 0 => turn[<<g[k - 1], k>>] = CleanTurn(p, g[k - 1])
  <2> TAKE k \in 0..N
  <2> HAVE k # 0
  <2>1. g \in [0..N -> S]
    BY <1>7 DEF IsLoop
  <2>2. k - 1 \in 0..N /\ k \in 1..N
    BY <1>1
  <2>3. <<g[k - 1], k>> \in S \X (1..N)
    BY <2>1, <2>2
  <2> QED BY <2>3
<1> HIDE DEF turn
<1>9. g = [k \in 0..N |-> IF k = 0 THEN start ELSE CleanTurn(p, g[k - 1])]
  BY <1>7, <1>8 DEF IsLoop
<1>10. h = [k \in 0..N |-> IF k = 0 THEN start ELSE CleanTurn(p, h[k - 1])]
  BY <1>9, Zenon
<1> HIDE DEF h
<1>11. h[0] = start /\ \A k \in 1..N : h[k] = CleanTurn(p, h[k - 1])
  BY <1>1, <1>10
<1> DEFINE G == {n \in 0..N : h[n] \in S /\ h[n].read >= n}
<1>12. 0 \in G
  <2>1. start.read \in 0..N
    BY <1>3, <1>4
  <2> QED BY <1>1, <1>3, <1>11, <2>1
<1>13. ASSUME NEW n \in 1..N, n - 1 \in G PROVE n \in G
  <2>1. PICK s \in S : s = h[n - 1] /\ s.read >= n - 1
    BY <1>13
  <2>2. PICK u \in S : u = CleanTurn(p, s)
    BY <1>4
  <2>3. h[n] = u /\ n \in 0..N
    BY <1>1, <1>11, <2>1, <2>2
  <2>4. /\ s.read \in 0..N /\ u.read \in 0..N
        /\ s.read < N => u.read > s.read
        /\ s.read = N => u = s
    BY <1>4, <2>2
  <2>5. u.read >= n
    <3>1. PICK a \in 0..N, b \in 0..N : a = s.read /\ b = u.read
      BY <2>4
    <3>2. (a < N => b > a) /\ (a = N => b = a) /\ a >= n - 1
      BY <2>1, <2>4, <3>1
    <3>3. b >= n
      BY <1>1, <3>2
    <3> QED BY <3>1, <3>3
  <2> QED BY <2>3, <2>5
<1>14. 0..N \subseteq G
  <2> HIDE DEF G
  <2> QED BY <1>1, <1>12, <1>13, Induction
<1>15. h[N] \in S /\ h[N].read >= N /\ h[N].read \in 0..N
  <2>1. N \in 0..N
    BY <1>1
  <2>2. h[N] \in S /\ h[N].read >= N
    BY <1>14, <2>1
  <2> QED BY <1>4, <2>2
<1>16. h[N].read = N
  BY <1>1, <1>15
<1> QED BY <1>2, <1>5, <1>15, <1>16 DEF N

\* clean_path keeps the components that its path resolves to.
LEMMA Cleans ==
  ASSUME NEW p \in Text
  PROVE  /\ clean_path(p) = Rendered(IsRooted(p), Resolved(p))
         /\ \E m : Shape(p, IsRooted(p), Resolved(p), m)
<1>1. PICK rooted \in BOOLEAN : rooted = IsRooted(p)
  BY DEF IsRooted
<1>2. PICK f : IsResolution(f, rooted, p) /\ ResolvedFrom(rooted, p) = f[Len(p)]
  BY ResolutionLoop
<1>3. PICK kept : kept = f[Len(p)]
  OBVIOUS
<1>4. Resolved(p) = kept
  BY <1>1, <1>2, <1>3 DEF Resolved
<1>5. clean_path(p) = Rendered(rooted, kept) /\ \E m : Shape(p, rooted, kept, m)
  <2>1. CASE p = <<>>
    <3>1. ~rooted
      BY <1>1, <2>1 DEF IsRooted
    <3>2. kept = <<>>
      BY <1>2, <1>3, <2>1 DEF IsResolution
    <3>4. Rendered(rooted, kept) = <<Dot>>
      BY <3>1, <3>2, NothingJoined DEF Rendered
    <3>5. Shape(p, rooted, kept, 0)
      BY <3>2 DEF Shape
    <3> QED BY <2>1, <3>4, <3>5 DEF clean_path
  <2>2. CASE p # <<>>
    <3>1. rooted = (Head(p) = Slash)
      BY <1>1, <2>2, Zenon DEF IsRooted
    <3>2. PICK s : /\ IsCleaned(p, rooted, f, s) /\ s.read = Len(p)
                   /\ clean_path(p) = IF s.output = <<>> THEN <<Dot>> ELSE s.output
      BY <1>2, <2>2, <3>1, CleanLoop
    <3>3. PICK m : CleanedAt(p, rooted, f, Len(p), s.output, s.dotdot, m)
      BY <3>2 DEF IsCleaned
    <3>4. s.output = Out(rooted, kept) /\ Shape(p, rooted, kept, m)
      BY <1>3, <3>3 DEF CleanedAt
    <3>5. kept \in Seq(Words(p))
      BY <3>4 DEF Shape
    <3>6. PICK j \in Text : j = JoinWith(kept, <<Slash>>)
      BY <3>5, WordsAreTexts
    <3>7. CASE rooted
      <4>1. s.output = <<Slash>> \o j
        BY <3>4, <3>6, <3>7 DEF Out, Prefix
      <4>2. <<Slash>> \o j # <<>>
        BY SlashText, ConcatEqualIffEmpty DEF Text
      <4>3. Rendered(rooted, kept) = <<Slash>> \o j
        BY <3>6, <3>7 DEF Rendered
      <4> QED BY <3>2, <3>4, <4>1, <4>2, <4>3
    <3>8. CASE ~rooted
      <4>1. <<>> \o j = j
        BY ConcatEmptySeq DEF Text
      <4>2. s.output = j
        BY <3>4, <3>6, <3>8, <4>1 DEF Out, Prefix
      <4>3. Rendered(rooted, kept) = IF j = <<>> THEN <<Dot>> ELSE j
        BY <3>6, <3>8 DEF Rendered
      <4> QED BY <3>2, <3>4, <4>2, <4>3
    <3> QED BY <3>7, <3>8
  <2> QED BY <2>1, <2>2
<1> QED BY <1>1, <1>4, <1>5
-------------------------------------------------------------------------------
(* The root join *)

\* t starts with the bytes of a and a slash.
StartsWith(t, a) ==
  /\ t \in Text /\ a \in Text /\ Len(a) \in Nat /\ Len(t) \in Nat /\ Len(a) < Len(t)
  /\ t[Len(a) + 1] = Slash /\ \A i \in 1..Len(a) : t[i] = a[i]

LEMMA SameComponents ==
  ASSUME NEW t, NEW a, StartsWith(t, a), NEW i \in 1..Len(a)
  PROVE  /\ EndsComponent(t, i) <=> EndsComponent(a, i)
         /\ EndsComponent(a, i) => ComponentTo(t, i) = ComponentTo(a, i)
<1>1. /\ t \in Text /\ a \in Text /\ Len(a) \in Nat /\ Len(t) \in Nat /\ Len(a) < Len(t)
      /\ t[Len(a) + 1] = Slash /\ \A k \in 1..Len(a) : t[k] = a[k]
  BY DEF StartsWith
<1>2. EndsComponent(t, i) <=> EndsComponent(a, i)
  <2>1. t[i] = a[i] /\ i # Len(t)
    BY <1>1
  <2>2. CASE i = Len(a)
    BY <1>1, <2>1, <2>2 DEF EndsComponent
  <2>3. CASE i # Len(a)
    <3>1. i + 1 \in 1..Len(a)
      BY <1>1, <2>3
    <3> QED BY <1>1, <2>1, <2>3, <3>1 DEF EndsComponent
  <2> QED BY <2>2, <2>3
<1>3. ASSUME EndsComponent(a, i) PROVE ComponentTo(t, i) = ComponentTo(a, i)
  <2>1. a[i] # Slash /\ t[i] # Slash /\ i \in 1..Len(t)
    BY <1>1, <1>3 DEF EndsComponent
  <2>2. ComponentTo(a, i) = SubSeq(a, StartOf(a, i), i) /\ StartOf(a, i) \in 1..i
    BY <1>1, <2>1, ComponentFrom
  <2>3. ComponentTo(t, i) = SubSeq(t, StartOf(t, i), i)
    BY <1>1, <2>1, ComponentFrom
  <2>4. {j \in 1..i : \A k \in j..i : t[k] # Slash} = {j \in 1..i : \A k \in j..i : a[k] # Slash}
    <3>1. \A j \in 1..i : \A k \in j..i : k \in 1..Len(a)
      BY <1>1
    <3> QED BY <1>1, <3>1
  <2>5. StartOf(t, i) = StartOf(a, i)
    BY <2>4 DEF StartOf
  <2>6. PICK j \in 1..i : j = StartOf(a, i)
    BY <2>2
  <2>7. SubSeq(t, j, i) = SubSeq(a, j, i)
    <3>1. PICK u, v : u = SubSeq(t, j, i) /\ v = SubSeq(a, j, i)
      OBVIOUS
    <3>2. /\ j \in 1..(Len(t) + 1) /\ i \in 0..Len(t) /\ j \in 1..(Len(a) + 1) /\ i \in 0..Len(a) /\ j <= i
          /\ \A k \in 1..(i - j + 1) : j + k - 1 \in 1..Len(a)
      BY <1>1
    <3>3. /\ u \in Text /\ Len(u) = IF j <= i THEN i - j + 1 ELSE 0
          /\ \A k \in 1..(i - j + 1) : u[k] = t[j + k - 1]
      BY <1>1, <3>1, <3>2, Stretch
    <3>4. /\ v \in Text /\ Len(v) = IF j <= i THEN i - j + 1 ELSE 0
          /\ \A k \in 1..(i - j + 1) : v[k] = a[j + k - 1]
      BY <1>1, <3>1, <3>2, Stretch
    <3>5. Len(u) = Len(v) /\ \A k \in 1..Len(u) : u[k] = v[k]
      BY <1>1, <3>2, <3>3, <3>4
    <3> QED BY <3>1, <3>3, <3>4, <3>5, SeqEqual DEF Text
  <2> QED BY <2>2, <2>3, <2>5, <2>6, <2>7
<1> QED BY <1>2, <1>3

LEMMA SameResolution ==
  ASSUME NEW t, NEW a, StartsWith(t, a), NEW rooted,
         NEW f, IsResolution(f, rooted, t), NEW g, IsResolution(g, rooted, a)
  PROVE  f[Len(a)] = g[Len(a)]
<1> DEFINE N == Len(a)
           G == {i \in 0..N : f[i] = g[i]}
<1>1. N \in Nat /\ Len(t) \in Nat /\ N < Len(t)
  BY DEF StartsWith
<1>2. 0 \in G
  BY <1>1 DEF IsResolution
<1>3. ASSUME NEW i \in 1..N, i - 1 \in G PROVE i \in G
  <2>1. i \in 1..Len(t) /\ i \in 0..N
    BY <1>1
  <2>2. f[i] = Resolving(rooted, t, f[i - 1], i) /\ g[i] = Resolving(rooted, a, g[i - 1], i)
    BY <2>1 DEF IsResolution
  <2>3. f[i - 1] = g[i - 1]
    BY <1>3
  <2>4. /\ EndsComponent(t, i) <=> EndsComponent(a, i)
        /\ EndsComponent(a, i) => ComponentTo(t, i) = ComponentTo(a, i)
    BY SameComponents
  <2>5. f[i] = g[i]
    BY <2>2, <2>3, <2>4 DEF Resolving
  <2> QED BY <2>1, <2>5
<1>4. N \in G
  <2>1. N \in 0..N
    BY <1>1
  <2> HIDE DEF G
  <2> QED BY <1>1, <1>2, <1>3, <2>1, Induction
<1> QED BY <1>4

\* A slash behind a path changes nothing, and a component behind the slash is resolved.
LEMMA ResolveNext ==
  ASSUME NEW a \in Text, NEW rooted
  PROVE  /\ ResolvedFrom(rooted, a \o <<Slash>>) = ResolvedFrom(rooted, a)
         /\ \A c \in Text : c # <<>> /\ (\A i \in 1..Len(c) : c[i] # Slash) =>
              ResolvedFrom(rooted, (a \o <<Slash>>) \o c) = Resolve(rooted, ResolvedFrom(rooted, a), c)
<1>1. PICK u \in Text : u = a \o <<Slash>>
  BY SlashText, JoinedTexts
<1>2. Len(a) \in Nat /\ Len(u) = Len(a) + 1 /\ u[Len(a) + 1] = Slash /\ \A i \in 1..Len(a) : u[i] = a[i]
  <2>1. /\ Len(u) = Len(a) + 1 /\ Len(a) \in Nat /\ \A i \in 1..Len(a) : u[i] = a[i]
        /\ \A i \in (Len(a) + 1)..(Len(a) + 1) : u[i] = <<Slash>>[i - Len(a)]
    BY <1>1, SlashText, JoinedTexts
  <2>2. Len(a) + 1 \in (Len(a) + 1)..(Len(a) + 1) /\ (Len(a) + 1) - Len(a) = 1
    BY <2>1
  <2> QED BY <2>1, <2>2, SlashText
<1>3. PICK g : IsResolution(g, rooted, a) /\ ResolvedFrom(rooted, a) = g[Len(a)]
  BY ResolutionLoop
<1>4. ASSUME NEW t, NEW f, IsResolution(f, rooted, t), StartsWith(t, a)
      PROVE  f[Len(a) + 1] = ResolvedFrom(rooted, a)
  <2>1. f[Len(a)] = g[Len(a)]
    BY <1>3, <1>4, SameResolution
  <2>2. t \in Text /\ t[Len(a) + 1] = Slash /\ Len(a) + 1 \in 1..Len(t) /\ (Len(a) + 1) - 1 = Len(a)
    BY <1>4 DEF StartsWith
  <2>3. StepsByPart(f, rooted, t)
    BY <1>4, <2>2, WordStep
  <2>4. f[Len(a) + 1] = f[Len(a)]
    BY <2>2, <2>3 DEF StepsByPart
  <2> QED BY <1>3, <2>1, <2>4
<1>5. ResolvedFrom(rooted, u) = ResolvedFrom(rooted, a)
  <2>1. PICK f : IsResolution(f, rooted, u) /\ ResolvedFrom(rooted, u) = f[Len(u)]
    BY ResolutionLoop
  <2>2. StartsWith(u, a)
    BY <1>2 DEF StartsWith
  <2> QED BY <1>2, <1>4, <2>1, <2>2
<1>6. ASSUME NEW c \in Text, c # <<>>, \A i \in 1..Len(c) : c[i] # Slash
      PROVE  ResolvedFrom(rooted, u \o c) = Resolve(rooted, ResolvedFrom(rooted, a), c)
  <2> DEFINE r == Len(a) + 1
  <2>1. PICK t \in Text : t = u \o c
    BY JoinedTexts
  <2>2. /\ Len(t) = r + Len(c) /\ Len(c) \in Nat /\ r \in Nat
        /\ \A i \in 1..r : t[i] = u[i]
        /\ \A i \in (r + 1)..(r + Len(c)) : t[i] = c[i - r]
    <3>1. /\ Len(t) = Len(u) + Len(c) /\ Len(c) \in Nat /\ Len(u) \in Nat
          /\ \A i \in 1..Len(u) : t[i] = u[i]
          /\ \A i \in (Len(u) + 1)..(Len(u) + Len(c)) : t[i] = c[i - Len(u)]
      BY <2>1, JoinedTexts
    <3> HIDE DEF r
    <3>2. Len(u) = r
      BY <1>2 DEF r
    <3> QED BY <3>1, <3>2
  <2>3. Len(c) >= 1
    <3>1. Len(c) # 0
      BY <1>6 DEF Text
    <3> QED BY <2>2, <3>1
  <2>4. StartsWith(t, a)
    <3>1. Len(a) < Len(t) /\ Len(t) \in Nat /\ r \in 1..r /\ \A i \in 1..Len(a) : i \in 1..r
      BY <1>2, <2>2, <2>3
    <3> QED BY <1>2, <2>2, <3>1 DEF StartsWith
  <2>5. PICK f : IsResolution(f, rooted, t) /\ ResolvedFrom(rooted, t) = f[Len(t)]
    BY ResolutionLoop
  <2>6. f[r] = ResolvedFrom(rooted, a)
    BY <1>4, <2>4, <2>5
  <2>7. StepsByPart(f, rooted, t)
    BY <2>5, WordStep
  <2>8. IsPart(t, r, Len(t))
    <3>1. r \in 0..(Len(t) - 1) /\ Len(t) \in (r + 1)..Len(t)
      BY <2>2, <2>3
    <3>2. t[r] = Slash
      BY <2>4 DEF StartsWith
    <3>3. \A i \in (r + 1)..Len(t) : t[i] # Slash
      <4> TAKE i \in (r + 1)..Len(t)
      <4>1. i \in (r + 1)..(r + Len(c)) /\ i - r \in 1..Len(c)
        BY <2>2
      <4> QED BY <1>6, <2>2, <4>1
    <3> HIDE DEF r
    <3> QED BY <3>1, <3>2, <3>3 DEF IsPart
  <2>9. SubSeq(t, r + 1, Len(t)) = c
    <3> HIDE DEF r
    <3>1. PICK v : v = SubSeq(t, r + 1, Len(t))
      OBVIOUS
    <3>2. /\ r + 1 \in 1..(Len(t) + 1) /\ Len(t) \in 0..Len(t) /\ r + 1 <= Len(t)
          /\ Len(t) - (r + 1) + 1 = Len(c)
          /\ \A i \in 1..Len(c) : (r + 1) + i - 1 \in (r + 1)..(r + Len(c)) /\ ((r + 1) + i - 1) - r = i
      BY <2>2, <2>3
    <3>3. /\ v \in Text /\ Len(v) = IF r + 1 <= Len(t) THEN Len(t) - (r + 1) + 1 ELSE 0
          /\ \A i \in 1..(Len(t) - (r + 1) + 1) : v[i] = t[(r + 1) + i - 1]
      BY <3>1, <3>2, Stretch
    <3>4. Len(v) = Len(c) /\ \A i \in 1..Len(c) : v[i] = c[i]
      BY <2>2, <3>2, <3>3
    <3> QED BY <3>1, <3>3, <3>4, SeqEqual DEF Text
  <2>10. f[Len(t)] = Resolve(rooted, f[r], SubSeq(t, r + 1, Len(t)))
    BY <2>7, <2>8 DEF StepsByPart
  <2> QED BY <2>1, <2>5, <2>6, <2>9, <2>10
<1> QED BY <1>1, <1>5, <1>6

\* The components that go to the end of any path.
PlainWords == {c \in Text : /\ c # <<>> /\ c # <<Dot>> /\ c # DotDot
                            /\ \A i \in 1..Len(c) : c[i] # Slash}

\* A path and its plain components behind a slash resolve to what the path does and those.
ResolvesBehind(a, rooted, ws) ==
  ResolvedFrom(rooted, (a \o <<Slash>>) \o JoinWith(ws, <<Slash>>)) = ResolvedFrom(rooted, a) \o ws

LEMMA ResolvedType ==
  ASSUME NEW rooted, NEW a \in Text
  PROVE  ResolvedFrom(rooted, a) \in Seq(Text)
<1>1. PICK f : IsResolution(f, rooted, a) /\ ResolvedFrom(rooted, a) = f[Len(a)]
  BY ResolutionLoop
<1>2. Len(a) \in 0..Len(a)
  BY DEF Text
<1> QED BY <1>1, <1>2 DEF IsResolution

LEMMA ResolvePlain ==
  ASSUME NEW rooted, NEW kept, NEW c \in PlainWords
  PROVE  Resolve(rooted, kept, c) = Append(kept, c)
BY DEF PlainWords, Resolve

LEMMA ResolveBehind ==
  ASSUME NEW a \in Text, NEW rooted
  PROVE  \A ws \in Seq(PlainWords) : ResolvesBehind(a, rooted, ws)
<1> DEFINE G == {ws \in Seq(PlainWords) : ResolvesBehind(a, rooted, ws)}
           J(ws) == JoinWith(ws, <<Slash>>)
           RF(t) == ResolvedFrom(rooted, t)
<1>1. PlainWords \subseteq Text
  BY DEF PlainWords
<1>2. \A ws \in Seq(PlainWords) : ws \in Seq(Text) /\ J(ws) \in Text
  <2> TAKE ws \in Seq(PlainWords)
  <2>1. ws \in Seq(Text)
    BY <1>1, SeqMonotonic
  <2> QED BY <2>1, SlashText, Joined DEF Text
<1>3. PICK as \in Text : as = a \o <<Slash>>
  BY SlashText, JoinedTexts
<1>4. PICK base \in Seq(Text) : base = RF(a)
  BY ResolvedType
<1>5. <<>> \in G
  <2>1. as \o <<>> = as /\ base \o <<>> = base
    BY ConcatEmptySeq DEF Text
  <2>2. RF(as) = base
    BY <1>3, <1>4, ResolveNext
  <2>3. ResolvesBehind(a, rooted, <<>>)
    BY <1>3, <1>4, <2>1, <2>2, NothingJoined DEF ResolvesBehind
  <2> QED BY <2>3
<1>6. ASSUME NEW ws \in Seq(PlainWords), NEW c \in PlainWords, ws \in G
      PROVE  Append(ws, c) \in G
  <2>1. c \in Text /\ c # <<>> /\ \A i \in 1..Len(c) : c[i] # Slash
    BY DEF PlainWords
  <2>2. ws \in Seq(Text) /\ J(ws) \in Text
    BY <1>2
  <2>3. J(Append(ws, c)) = IF ws = <<>> THEN c ELSE J(ws) \o <<Slash>> \o c
    BY <2>1, <2>2, JoinedBySlashes
  <2>4. base \o Append(ws, c) = Append(base \o ws, c)
    <3>1. Append(ws, c) = ws \o <<c>> /\ <<c>> \in Seq(Text)
      BY <2>1, <2>2, AppendIsConcat
    <3>2. base \o (ws \o <<c>>) = (base \o ws) \o <<c>>
      BY <2>2, <3>1, ConcatAssociative
    <3>3. base \o ws \in Seq(Text)
      BY <2>2, ConcatProperties
    <3>4. Append(base \o ws, c) = (base \o ws) \o <<c>>
      BY <2>1, <3>3, AppendIsConcat
    <3> QED BY <3>1, <3>2, <3>4
  <2>5. RF(as \o J(Append(ws, c))) = Append(base \o ws, c)
    <3>1. CASE ws = <<>>
      <4>1. RF((a \o <<Slash>>) \o c) = Resolve(rooted, RF(a), c)
        BY <2>1, ResolveNext
      <4>2. base \o <<>> = base
        BY ConcatEmptySeq
      <4>3. Resolve(rooted, base, c) = Append(base, c)
        BY ResolvePlain
      <4> QED BY <1>3, <1>4, <2>3, <3>1, <4>1, <4>2, <4>3
    <3>2. CASE ws # <<>>
      <4>1. PICK j \in Text : j = J(ws)
        BY <2>2
      <4>2. PICK v \in Text : v = as \o j
        BY JoinedTexts
      <4>3. RF(v) = base \o ws
        BY <1>3, <1>4, <1>6, <4>1, <4>2 DEF ResolvesBehind
      <4>4. RF((v \o <<Slash>>) \o c) = Resolve(rooted, RF(v), c)
        BY <2>1, ResolveNext
      <4>5. PICK k : k = base \o ws
        OBVIOUS
      <4>6. Resolve(rooted, k, c) = Append(k, c)
        BY ResolvePlain
      <4>7. as \o J(Append(ws, c)) = (v \o <<Slash>>) \o c
        <5>1. PICK sl \in Text : sl = <<Slash>>
          BY SlashText
        <5>2. PICK js \in Text : js = j \o sl
          BY JoinedTexts
        <5>6. PICK e \in Text : e = c
          BY <2>1
        <5>3. Regroups(as, js, e)
          BY Regrouping
        <5>4. Regroups(as, j, sl)
          BY Regrouping
        <5>5. J(Append(ws, c)) = js \o c
          BY <2>3, <3>2, <4>1, <5>1, <5>2
        <5> HIDE DEF J
        <5> QED BY <4>2, <5>1, <5>2, <5>3, <5>4, <5>5, <5>6 DEF Regroups
      <4> HIDE DEF J, RF
      <4> QED BY <4>3, <4>4, <4>5, <4>6, <4>7
    <3> QED BY <3>1, <3>2
  <2>6. ResolvesBehind(a, rooted, Append(ws, c))
    BY <1>3, <1>4, <2>4, <2>5 DEF ResolvesBehind
  <2>7. Append(ws, c) \in Seq(PlainWords)
    BY AppendProperties
  <2> QED BY <2>6, <2>7
<1>7. Seq(PlainWords) \subseteq G
  <2> HIDE DEF G
  <2> QED BY <1>5, <1>6, SeqInduction
<1> QED BY <1>7

\* A root and a slash-separated path behind it.
Under(root) == IF root = <<>> THEN <<Dot>> ELSE root

LEMMA RootOf ==
  ASSUME NEW root \in Text
  PROVE  /\ Under(root) \in Text /\ Under(root) # <<>>
         /\ IsRooted(Under(root)) = IsRooted(root)
         /\ Resolved(Under(root)) = Resolved(root)
<1>1. /\ <<Dot>> \in Text /\ <<Dot>> # <<>> /\ Len(<<Dot>>) = 1 /\ <<Dot>>[1] = Dot /\ Head(<<Dot>>) = Dot
  BY OneByte DEF Byte, Dot
<1>2. CASE root # <<>>
  BY <1>2 DEF Under
<1>3. CASE root = <<>>
  <2>1. Under(root) = <<Dot>>
    BY <1>3 DEF Under
  <2>2. IsRooted(<<Dot>>) = FALSE /\ IsRooted(<<>>) = FALSE
    BY <1>1 DEF IsRooted, Dot, Slash
  <2>3. <<>> \in Text /\ Len(<<>>) = 0
    BY SlashText
  <2>4. ResolvedFrom(FALSE, <<>>) = <<>>
    <3>1. PICK f : IsResolution(f, FALSE, <<>>) /\ ResolvedFrom(FALSE, <<>>) = f[Len(<<>>)]
      BY <2>3, ResolutionLoop
    <3> QED BY <2>3, <3>1 DEF IsResolution
  <2>5. ResolvedFrom(FALSE, <<Dot>>) = <<>>
    <3>1. PICK t \in Text : t = <<Dot>>
      BY <1>1
    <3>2. PICK f : IsResolution(f, FALSE, t) /\ ResolvedFrom(FALSE, t) = f[Len(t)]
      BY ResolutionLoop
    <3>3. Len(t) = 1 /\ t[1] = Dot
      BY <1>1, <3>1
    <3>4. StepsByPart(f, FALSE, t)
      BY <3>2, WordStep
    <3>5. IsPart(t, 0, 1)
      <4>1. 0 \in 0..(1 - 1) /\ 1 \in (0 + 1)..1 /\ \A i \in (0 + 1)..1 : i = 1
        OBVIOUS
      <4> QED BY <3>3, <4>1 DEF IsPart, Dot, Slash
    <3>6. f[1] = Resolve(FALSE, f[0], SubSeq(t, 0 + 1, 1)) /\ f[0] = <<>>
      BY <3>2, <3>4, <3>5 DEF StepsByPart, IsResolution
    <3>7. SubSeq(t, 0 + 1, 1) = t
      <4>1. SubSeq(t, 1, Len(t)) = t
        BY SubSeqFull DEF Text
      <4> QED BY <3>3, <4>1
    <3>8. Resolve(FALSE, <<>>, <<Dot>>) = <<>>
      BY DotDotWord DEF Resolve
    <3> QED BY <3>1, <3>2, <3>3, <3>6, <3>7, <3>8
  <2> QED BY <1>1, <1>3, <2>1, <2>2, <2>4, <2>5 DEF Resolved
<1> QED BY <1>2, <1>3

\* The path a request names below the root.
LEMMA Below ==
  ASSUME NEW t \in Text
  PROVE  LET q == <<Slash>> \o t
             below == Resolved(q)
         IN  /\ q \in Text /\ IsRooted(q)
             /\ below \in Seq(PlainWords) /\ below \in Seq(Words(q)) /\ DotDot \notin Range(below)
             /\ join_with_slash(<<>>, t) = q
             /\ clean_path(q) = <<Slash>> \o JoinWith(below, <<Slash>>)
<1>1. PICK q \in Text : q = <<Slash>> \o t
  BY SlashText, JoinedTexts
<1>2. IsRooted(q)
  <2>1. Len(q) = 1 + Len(t) /\ Len(t) \in Nat /\ \A i \in 1..1 : q[i] = <<Slash>>[i]
    BY <1>1, SlashText, JoinedTexts
  <2>2. q # <<>> /\ q[1] = Slash
    <3>1. Len(q) # 0 /\ 1 \in 1..1
      BY <2>1
    <3> QED BY <2>1, <3>1, SlashText
  <2>3. Head(q) = q[1]
    BY <2>2 DEF Text
  <2> QED BY <2>2, <2>3 DEF IsRooted
<1>3. PICK below : below = Resolved(q)
  OBVIOUS
<1>4. IsRooted(q) = TRUE
  BY <1>2 DEF IsRooted
<1>5. clean_path(q) = Rendered(TRUE, below) /\ \E m : Shape(q, TRUE, below, m)
  BY <1>3, <1>4, Cleans
<1>6. PICK m : Shape(q, TRUE, below, m)
  BY <1>5
<1>7. /\ below \in Seq(Words(q)) /\ Len(below) \in Nat
      /\ \A i \in 1..Len(below) : below[i] # DotDot /\ below[i] \in Words(q)
  <2>1. /\ below \in Seq(Words(q)) /\ m = 0 /\ \A i \in (m + 1)..Len(below) : below[i] # DotDot
    BY <1>6 DEF Shape
  <2> QED BY <2>1
<1>8. below \in Seq(PlainWords)
  <2>1. \A i \in 1..Len(below) : below[i] \in PlainWords
    BY <1>7 DEF PlainWords, Words
  <2>2. Len(below) \in Nat /\ below \in [1..Len(below) -> PlainWords]
    BY <1>7, <2>1
  <2> QED BY <2>2, FunctionIsSeq
<1>9. DotDot \notin Range(below)
  BY <1>7 DEF Range
<1>10. join_with_slash(<<>>, t) = q
  <2>1. <<>> \o <<Slash>> = <<Slash>>
    BY SlashText, ConcatEmptySeq DEF Text
  <2> QED BY <1>1, <2>1 DEF join_with_slash
<1>11. clean_path(q) = <<Slash>> \o JoinWith(below, <<Slash>>)
  BY <1>5 DEF Rendered
<1> QED BY <1>1, <1>2, <1>3, <1>7, <1>8, <1>9, <1>10, <1>11

\* A cleaned path is a path, never an empty one, with the bytes of the one it was.
LEMMA CleanedText ==
  ASSUME NEW p \in Text
  PROVE  /\ clean_path(p) \in Text /\ clean_path(p) # <<>>
         /\ p \in CText => clean_path(p) \in CText
<1>1. PICK rooted \in BOOLEAN : rooted = IsRooted(p)
  BY DEF IsRooted
<1>2. PICK kept : kept = Resolved(p)
  OBVIOUS
<1>3. clean_path(p) = Rendered(rooted, kept) /\ \E m : Shape(p, rooted, kept, m)
  BY <1>1, <1>2, Cleans
<1>4. kept \in Seq(Words(p))
  BY <1>3 DEF Shape
<1>5. PICK j \in Text : j = JoinWith(kept, <<Slash>>)
  BY <1>4, WordsAreTexts
<1>6. p \in CText => j \in CText
  <2> SUFFICES ASSUME p \in CText PROVE j \in CText
    OBVIOUS
  <2>1. Words(p) \subseteq CText
    BY DEF Words
  <2>2. kept \in Seq(Seq(NonNul))
    BY <1>4, <2>1, SeqMonotonic DEF CText
  <2>3. <<Slash>> \in Seq(NonNul)
    BY DEF Slash, NonNul
  <2> QED BY <1>5, <2>2, <2>3, Joined DEF CText
<1>7. /\ <<Dot>> \in Text /\ <<Dot>> # <<>> /\ <<Dot>> \in CText /\ <<Slash>> \in CText
  BY OneByte DEF Byte, Dot, Slash, CText, NonNul
<1>8. CASE rooted
  <2>1. clean_path(p) = <<Slash>> \o j
    BY <1>3, <1>5, <1>8 DEF Rendered
  <2>2. <<Slash>> \o j \in Text /\ <<Slash>> \o j # <<>>
    <3>1. <<Slash>> \o j \in Text
      BY SlashText, JoinedTexts
    <3>2. <<Slash>> \o j # <<>>
      BY SlashText, ConcatEqualIffEmpty DEF Text
    <3> QED BY <3>1, <3>2
  <2>3. p \in CText => <<Slash>> \o j \in CText
    BY <1>6, <1>7, ConcatProperties DEF CText
  <2> QED BY <2>1, <2>2, <2>3
<1>9. CASE ~rooted
  <2>1. clean_path(p) = IF j = <<>> THEN <<Dot>> ELSE j
    BY <1>3, <1>5, <1>9 DEF Rendered
  <2> QED BY <1>6, <1>7, <2>1
<1> QED BY <1>8, <1>9

\* sanitized_path_join puts the request's components behind the root's.
LEMMA JoinsUnderRoot ==
  ASSUME NEW root \in Text, NEW t \in Text
  PROVE  LET below == Resolved(<<Slash>> \o t)
             trailing == IF Len(t) > 1 /\ Last(t) = Slash THEN <<Slash>> ELSE <<>>
         IN  sanitized_path_join(root, t) = Rendered(IsRooted(root), Resolved(root) \o below) \o trailing
<1>1. PICK base \in Text : base = Under(root)
  BY RootOf
<1>2. base # <<>> /\ IsRooted(base) = IsRooted(root) /\ Resolved(base) = Resolved(root)
  BY <1>1, RootOf
<1>3. PICK q : q = <<Slash>> \o t
  OBVIOUS
<1>4. PICK below : below = Resolved(q)
  OBVIOUS
<1>5. /\ below \in Seq(PlainWords) /\ below \in Seq(Words(q)) /\ join_with_slash(<<>>, t) = q
      /\ clean_path(q) = <<Slash>> \o JoinWith(below, <<Slash>>)
  BY <1>3, <1>4, Below
<1>6. PICK j \in Text : j = JoinWith(below, <<Slash>>)
  BY <1>5, WordsAreTexts
<1>7. PICK sl \in Text : sl = <<Slash>>
  BY SlashText
<1>8. PICK cleaned \in Text : cleaned = sl \o j
  BY JoinedTexts
<1>9. PICK bs \in Text : bs = base \o sl
  BY JoinedTexts
<1>10. PICK whole \in Text : whole = bs \o cleaned
  BY JoinedTexts
<1>11. PICK rooted \in BOOLEAN : rooted = IsRooted(root)
  BY DEF IsRooted
<1>12. IsRooted(whole) = rooted
  <2>1. Len(base) \in Nat /\ Len(base) >= 1
    <3>1. Len(base) \in Nat /\ Len(base) # 0
      BY <1>2 DEF Text
    <3> QED BY <3>1
  <2>2. Len(bs) = Len(base) + 1 /\ \A i \in 1..Len(base) : bs[i] = base[i]
    BY <1>7, <1>9, SlashText, JoinedTexts
  <2>3. Len(whole) = Len(bs) + Len(cleaned) /\ Len(cleaned) \in Nat /\ \A i \in 1..Len(bs) : whole[i] = bs[i]
    BY <1>10, JoinedTexts
  <2>4. 1 \in 1..Len(base) /\ 1 \in 1..Len(bs) /\ Len(whole) # 0
    BY <2>1, <2>2, <2>3
  <2>5. whole[1] = base[1] /\ whole # <<>>
    BY <2>2, <2>3, <2>4, SlashText
  <2>6. Head(whole) = whole[1] /\ Head(base) = base[1]
    BY <1>2, <2>5 DEF Text
  <2>7. IsRooted(whole) = IsRooted(base)
    BY <1>2, <2>5, <2>6 DEF IsRooted
  <2> QED BY <1>2, <1>11, <2>7
<1>13. Resolved(whole) = Resolved(root) \o below
  <2>1. whole = (bs \o sl) \o j
    <3>1. Regroups(bs, sl, j)
      BY Regrouping
    <3> QED BY <1>8, <1>10, <3>1 DEF Regroups
  <2>2. ResolvesBehind(bs, rooted, below)
    BY <1>5, ResolveBehind
  <2>3. ResolvedFrom(rooted, bs) = ResolvedFrom(rooted, base)
    BY <1>7, <1>9, ResolveNext
  <2>4. ResolvedFrom(rooted, whole) = ResolvedFrom(rooted, base) \o below
    BY <1>6, <1>7, <2>1, <2>2, <2>3 DEF ResolvesBehind
  <2>5. Resolved(whole) = ResolvedFrom(rooted, whole)
    BY <1>12 DEF Resolved
  <2>6. Resolved(base) = ResolvedFrom(rooted, base)
    BY <1>2, <1>11 DEF Resolved
  <2> QED BY <1>2, <2>4, <2>5, <2>6
<1>14. clean_path(whole) = Rendered(rooted, Resolved(root) \o below)
  BY <1>12, <1>13, Cleans
<1>15. join_with_slash(base, cleaned) = whole
  BY <1>7, <1>9, <1>10 DEF join_with_slash
<1>16. clean_path(join_with_slash(<<>>, t)) = cleaned
  BY <1>5, <1>6, <1>7, <1>8
<1>17. PICK made : made = clean_path(whole)
  OBVIOUS
<1>18. sanitized_path_join(root, t) = IF Len(t) > 1 /\ Last(t) = Slash THEN made \o <<Slash>> ELSE made
  BY <1>1, <1>15, <1>16, <1>17 DEF sanitized_path_join, Under
<1>19. made \in Text
  BY <1>17, CleanedText
<1>20. made \o <<>> = made
  BY <1>19, ConcatEmptySeq DEF Text
<1> QED BY <1>3, <1>4, <1>11, <1>14, <1>17, <1>18, <1>20
-------------------------------------------------------------------------------
(* The name C opens *)

LEMMA PlainText ==
  ASSUME NEW t \in Text, Nul \notin Range(t)
  PROVE  t \in CText
<1>1. Len(t) \in Nat /\ DOMAIN t = 1..Len(t) /\ \A i \in 1..Len(t) : t[i] \in Byte
  BY DEF Text
<1>2. \A i \in 1..Len(t) : t[i] \in Byte /\ t[i] # 0
  BY <1>1 DEF Range, Nul
<1>3. \A i \in 1..Len(t) : t[i] \in NonNul
  BY <1>2 DEF Byte, NonNul
<1>4. t \in [1..Len(t) -> NonNul]
  <2>1. t = [i \in 1..Len(t) |-> t[i]]
    BY <1>1 DEF Text
  <2> QED BY <1>3, <2>1
<1> QED BY <1>1, <1>4, FunctionIsSeq DEF CText

LEMMA TextWithoutNul ==
  ASSUME NEW t \in CText
  PROVE  t \in Text /\ Nul \notin Range(t)
<1>1. Len(t) \in Nat /\ DOMAIN t = 1..Len(t) /\ \A i \in 1..Len(t) : t[i] \in NonNul
  BY DEF CText
<1>2. \A i \in 1..Len(t) : t[i] \in Byte /\ t[i] # 0
  <2>1. \A b \in NonNul : b \in Byte /\ b # 0
    BY DEF Byte, NonNul
  <2> QED BY <1>1, <2>1
<1>3. t \in [1..Len(t) -> Byte]
  <2>1. t = [i \in 1..Len(t) |-> t[i]]
    BY <1>1 DEF CText
  <2> QED BY <1>2, <2>1
<1>4. t \in Text
  BY <1>1, <1>3, FunctionIsSeq DEF Text
<1> QED BY <1>1, <1>2, <1>4 DEF Range, Nul

LEMMA ConcatCText ==
  ASSUME NEW s \in CText, NEW t \in CText
  PROVE  s \o t \in CText
BY ConcatProperties DEF CText

LEMMA SlashCText == <<Slash>> \in CText /\ <<Dot>> \in CText /\ <<>> \in CText
BY DEF CText, NonNul, Slash, Dot

\* A path without NUL under a root without NUL is a file name without NUL.
LEMMA FileName ==
  ASSUME NEW root \in CText, NEW t \in CText
  PROVE  sanitized_path_join(root, t) \in CText /\ sanitized_path_join(root, t) # <<>>
<1>1. PICK base \in CText : base = IF root = <<>> THEN <<Dot>> ELSE root
  BY SlashCText
<1>2. PICK q \in CText : q = <<>> \o <<Slash>> \o t
  <2>1. <<>> \o <<Slash>> \in CText
    BY SlashCText, ConcatCText
  <2> QED BY <2>1, ConcatCText
<1>3. PICK cleaned \in CText : cleaned = clean_path(q)
  BY CleanedText, TextWithoutNul
<1>4. PICK whole \in CText : whole = base \o <<Slash>> \o cleaned
  <2>1. base \o <<Slash>> \in CText
    BY SlashCText, ConcatCText
  <2> QED BY <2>1, ConcatCText
<1>5. PICK joined \in CText : joined = clean_path(whole) /\ joined # <<>>
  BY CleanedText, TextWithoutNul
<1>6. joined \o <<Slash>> \in CText /\ joined \o <<Slash>> # <<>>
  <2>1. joined \o <<Slash>> \in CText
    BY SlashCText, ConcatCText
  <2>2. joined \o <<Slash>> # <<>>
    BY <1>5, SlashCText, ConcatEqualIffEmpty DEF CText
  <2> QED BY <2>1, <2>2
<1>7. join_with_slash(<<>>, t) = q /\ join_with_slash(base, cleaned) = whole
  BY <1>2, <1>4 DEF join_with_slash
<1>8. sanitized_path_join(root, t) = IF Len(t) > 1 /\ Last(t) = Slash THEN joined \o <<Slash>> ELSE joined
  BY <1>1, <1>3, <1>5, <1>7 DEF sanitized_path_join
<1> QED BY <1>5, <1>6, <1>8

\* The part of the path that names the script.
LEMMA ScriptName ==
  ASSUME NEW root, NEW t \in CText
  PROVE  \E name \in CText :
           split_cgi_path(root, <<PhpExt>>, t).script_filename = sanitized_path_join(root, name)
<1> DEFINE s == split_cgi_path(root, <<PhpExt>>, t)
           a == SubSeq(t, 1, Len(t) - Len(s.path_info))
<1>1. t \in Text /\ Len(t) \in Nat
  <2>1. t \in Text
    BY TextWithoutNul
  <2> QED BY <2>1 DEF Text
<1>2. Len(s.path_info) \in 0..Len(t)
  <2>1. CASE MatchEnds(t, PhpExt) = {}
    <3>1. s.path_info = <<>>
      BY <1>1, <2>1, Split
    <3> HIDE DEF s
    <3> QED BY <1>1, <3>1
  <2>2. CASE MatchEnds(t, PhpExt) # {}
    <3>1. PICK n \in 1..Len(t) : s.path_info = SubSeq(t, n + 1, Len(t))
      BY <1>1, <2>2, Split
    <3>2. n + 1 \in 1..(Len(t) + 1) /\ Len(t) \in 0..Len(t)
      BY <1>1
    <3>3. PICK v : v = SubSeq(t, n + 1, Len(t))
      OBVIOUS
    <3>4. Len(v) = IF n + 1 <= Len(t) THEN Len(t) - (n + 1) + 1 ELSE 0
      BY <1>1, <3>2, <3>3, Stretch
    <3>5. Len(v) \in 0..Len(t)
      BY <1>1, <3>4
    <3> QED BY <3>1, <3>3, <3>5
  <2> QED BY <2>1, <2>2
<1>3. s.script_filename = sanitized_path_join(root, ensure_leading_slash(a))
  BY DEF split_cgi_path
<1> HIDE DEF s
<1>4. 1 \in 1..(Len(t) + 1) /\ Len(t) - Len(s.path_info) \in 0..Len(t)
  BY <1>1, <1>2
<1>5. a \in CText
  BY <1>4, StretchCText
<1> HIDE DEF a
<1>6. ensure_leading_slash(a) \in CText
  <2>1. <<Slash>> \o a \in CText
    BY <1>5, SlashCText, ConcatCText
  <2> QED BY <1>5, <2>1 DEF ensure_leading_slash
<1> QED BY <1>3, <1>6 DEF s

\* C opens the file that was computed.
LEMMA WholeName ==
  ASSUME NEW root \in CText, NEW t \in Text, Nul \notin Range(t)
  PROVE  LET file == split_cgi_path(root, <<PhpExt>>, resolve_directory_index(t)).script_filename
         IN  CString(ScriptPath(file)) = file /\ file # <<>>
<1>1. t \in CText
  BY PlainText
<1>2. IndexFile \in CText
  <2>1. IndexFile \in Text /\ Nul \notin Range(IndexFile)
    BY CgiPathsAssumption DEF Text
  <2> QED BY <2>1, PlainText
<1>3. PICK r \in CText : r = resolve_directory_index(t)
  <2>1. t \o IndexFile \in CText
    BY <1>1, <1>2, ConcatCText
  <2> QED BY <1>1, <2>1 DEF resolve_directory_index
<1>4. PICK name \in CText :
        split_cgi_path(root, <<PhpExt>>, r).script_filename = sanitized_path_join(root, name)
  BY ScriptName
<1>5. PICK file \in CText : file = sanitized_path_join(root, name) /\ file # <<>>
  BY FileName
<1>6. file \in Text /\ Nul \notin Range(file)
  BY TextWithoutNul
<1>7. CString(file \o <<Nul>>) = CString(file)
  BY <1>6, TerminatedText
<1>8. CString(file) = file
  BY <1>6, FirstNul
<1>9. ScriptPath(file) = file \o <<Nul>>
  BY <1>5 DEF ScriptPath
<1> QED BY <1>3, <1>4, <1>5, <1>7, <1>8, <1>9

LEMMA IndexFound ==
  ASSUME text \in Text
  PROVE  IndexIsTheScript
<1> DEFINE r == resolve_directory_index(text)
           before == split_cgi_path(<<>>, <<PhpExt>>, text)
           after == split_cgi_path(<<>>, <<PhpExt>>, r)
<1>1. /\ r \in Text /\ IsSuffix(after.path_info, text)
      /\ r # text => after.path_info = <<>> /\ after.doc_uri = r
      /\ MatchEnds(text, PhpExt) # {} => r = text
  BY IndexSplit
<1>2. before.doc_uri # <<>> => MatchEnds(text, PhpExt) # {}
  BY Split
<1>3. before.doc_uri # <<>> => after = before
  BY <1>1, <1>2
<1> QED BY <1>1, <1>3 DEF IndexIsTheScript
-------------------------------------------------------------------------------
(* Reading back what was escaped *)

Codes == Seq(Nat)

LEMMA RegroupingCodes ==
  ASSUME NEW a \in Codes, NEW b \in Codes, NEW c \in Codes
  PROVE  Regroups(a, b, c)
BY ConcatAssociative DEF Codes, Regroups

\* The states of Unescape's loop.
UnescapeLoop(u) ==
  CHOOSE f : f = [k \in 0..Len(u) |-> IF k = 0 THEN [rest |-> u, output |-> <<>>]
                                      ELSE UnescapeTurn(f[k - 1])]

LEMMA UnescapeStates ==
  ASSUME NEW u \in Codes
  PROVE  /\ Unescape(u) = UnescapeLoop(u)[Len(u)].output
         /\ UnescapeLoop(u)[0] = [rest |-> u, output |-> <<>>]
         /\ \A k \in 1..Len(u) : UnescapeLoop(u)[k] = UnescapeTurn(UnescapeLoop(u)[k - 1])
<1> DEFINE b == [rest |-> u, output |-> <<>>]
           States(n, f) == f = [k \in 0..n |-> IF k = 0 THEN b ELSE UnescapeTurn(f[k - 1])]
           G == {n \in Nat : \E f : States(n, f)}
           N == Len(u)
<1>0. N \in Nat
  BY DEF Codes
<1> HIDE DEF b, N
<1>1. 0 \in G
  <2> DEFINE f == [k \in 0..0 |-> b]
  <2>1. States(0, f)
    OBVIOUS
  <2> QED BY <2>1
<1>2. ASSUME NEW n \in 1..N, n - 1 \in G PROVE n \in G
  <2>1. PICK f : States(n - 1, f)
    BY <1>2
  <2> DEFINE g == [k \in 0..n |-> IF k = n THEN UnescapeTurn(f[n - 1]) ELSE f[k]]
  <2>2. \A k \in 0..(n - 1) : g[k] = f[k] /\ f[k] = IF k = 0 THEN b ELSE UnescapeTurn(f[k - 1])
    BY <2>1
  <2>3. g[n] = UnescapeTurn(g[n - 1])
    BY <2>2
  <2>4. \A k \in 0..n : g[k] = IF k = 0 THEN b ELSE UnescapeTurn(g[k - 1])
    <3> TAKE k \in 0..n
    <3>1. CASE k = n
      BY <3>1, <2>3
    <3>2. CASE k # n
      <4>1. k \in 0..(n - 1) /\ (k # 0 => k - 1 \in 0..(n - 1))
        BY <3>2
      <4> QED BY <4>1, <2>2
    <3> QED BY <3>1, <3>2
  <2>5. g = [k \in 0..n |-> g[k]]
    OBVIOUS
  <2> HIDE DEF g
  <2>6. States(n, g)
    BY <2>4, <2>5
  <2> QED BY <2>6
<1>3. N \in G
  <2> HIDE DEF G
  <2> QED BY <1>0, <1>1, <1>2, Induction
<1>4. \E f : States(N, f)
  BY <1>3
<1>5. UnescapeLoop(u) = CHOOSE f : States(N, f)
  BY Zenon DEF UnescapeLoop, b, N
<1> DEFINE l == UnescapeLoop(u)
<1>6. States(N, l)
  <2> HIDE DEF States
  <2> QED BY <1>4, <1>5, Zenon
<1>7. l[0] = b /\ \A k \in 1..N : l[k] = UnescapeTurn(l[k - 1])
  <2> HIDE DEF l
  <2> QED BY <1>0, <1>6
<1>8. Unescape(u) = l[N].output
  BY Zenon DEF Unescape, Loop, UnescapeLoop, N
<1> QED BY <1>7, <1>8 DEF b, N

\* One turn reads the code and finds the bytes.
ReadAs(code, bytes) ==
  /\ code \in Codes /\ code # <<>> /\ bytes \in Codes
  /\ \A tail, out \in Codes :
       UnescapeTurn([rest |-> code \o tail, output |-> out]) = [rest |-> tail, output |-> out \o bytes]

\* Some turns read the codes, in front of anything, and find the bytes.
Reads(codes, bytes) ==
  /\ codes \in Codes /\ bytes \in Codes
  /\ \A tail \in Codes : \E n \in 0..Len(codes) :
       UnescapeLoop(codes \o tail)[n] = [rest |-> tail, output |-> bytes]

LEMMA ReadsNothing == Reads(<<>>, <<>>)
<1>1. <<>> \in Codes /\ Len(<<>>) = 0
  BY DEF Codes
<1>2. ASSUME NEW tail \in Codes
      PROVE  UnescapeLoop(<<>> \o tail)[0] = [rest |-> tail, output |-> <<>>]
  <2>1. <<>> \o tail = tail
    BY ConcatEmptySeq DEF Codes
  <2> QED BY <2>1, UnescapeStates
<1>3. 0 \in 0..Len(<<>>)
  BY <1>1
<1> QED BY <1>1, <1>2, <1>3 DEF Reads

LEMMA ReadsOn ==
  ASSUME NEW codes, NEW bytes, Reads(codes, bytes), NEW code, NEW more, ReadAs(code, more)
  PROVE  Reads(codes \o code, bytes \o more)
<1>1. /\ codes \in Codes /\ bytes \in Codes /\ code \in Codes /\ more \in Codes
      /\ Len(codes) \in Nat /\ Len(code) \in Nat /\ Len(code) # 0
  BY DEF Reads, ReadAs, Codes
<1>2. /\ codes \o code \in Codes /\ bytes \o more \in Codes
      /\ Len(codes \o code) = Len(codes) + Len(code)
  BY <1>1, ConcatProperties DEF Codes
<1>3. ASSUME NEW tail \in Codes
      PROVE  \E n \in 0..Len(codes \o code) :
               UnescapeLoop((codes \o code) \o tail)[n] = [rest |-> tail, output |-> bytes \o more]
  <2> DEFINE u == codes \o (code \o tail)
  <2>1. (codes \o code) \o tail = u
    <3>1. Regroups(codes, code, tail)
      BY <1>1, RegroupingCodes
    <3> QED BY <3>1 DEF Regroups
  <2>2. code \o tail \in Codes /\ u \in Codes /\ Len(u) = Len(codes) + Len(code) + Len(tail) /\ Len(tail) \in Nat
    BY <1>1, ConcatProperties DEF Codes
  <2>3. PICK n \in 0..Len(codes) : UnescapeLoop(u)[n] = [rest |-> code \o tail, output |-> bytes]
    BY <2>2 DEF Reads
  <2> HIDE DEF u
  <2>4. n + 1 \in 1..Len(u) /\ n + 1 \in 0..Len(codes \o code) /\ (n + 1) - 1 = n
    BY <1>1, <1>2, <2>2
  <2>5. UnescapeLoop(u)[n + 1] = UnescapeTurn(UnescapeLoop(u)[n])
    BY <2>2, <2>4, UnescapeStates
  <2>6. UnescapeLoop(u)[n + 1] = [rest |-> tail, output |-> bytes \o more]
    BY <1>1, <2>3, <2>5 DEF ReadAs
  <2> QED BY <2>1, <2>4, <2>6
<1> QED BY <1>2, <1>3 DEF Reads

LEMMA ReadsAll ==
  ASSUME NEW codes, NEW bytes, Reads(codes, bytes)
  PROVE  Unescape(codes) = bytes
<1> DEFINE f == UnescapeLoop(codes)
           N == Len(codes)
           s == [rest |-> <<>>, output |-> bytes]
<1>1. codes \in Codes /\ N \in Nat /\ <<>> \in Codes
  BY DEF Reads, Codes
<1>2. codes \o <<>> = codes
  BY <1>1, ConcatEmptySeq DEF Codes
<1>3. PICK n \in 0..N : f[n] = s
  BY <1>1, <1>2 DEF Reads
<1>4. UnescapeTurn(s) = s
  <2>1. s.rest = <<>>
    OBVIOUS
  <2> HIDE DEF s
  <2> QED BY <2>1, Zenon DEF UnescapeTurn
<1>5. \A k \in 1..N : f[k] = UnescapeTurn(f[k - 1])
  BY <1>1, UnescapeStates
<1> DEFINE G == {k \in 0..N : k >= n => f[k] = s}
<1> HIDE DEF f, N, s
<1>6. 0 \in G
  BY <1>1, <1>3
<1>7. ASSUME NEW k \in 1..N, k - 1 \in G PROVE k \in G
  <2>1. CASE k <= n
    BY <2>1, <1>3, <1>7
  <2>2. CASE k > n
    <3>1. k - 1 >= n
      BY <2>2
    <3> QED BY <3>1, <1>4, <1>5, <1>7
  <2> QED BY <2>1, <2>2
<1>8. N \in G
  <2> HIDE DEF G
  <2> QED BY <1>1, <1>6, <1>7, Induction
<1>9. f[N] = s
  BY <1>1, <1>3, <1>8
<1>10. Unescape(codes) = f[N].output
  BY <1>1, UnescapeStates DEF f, N
<1> QED BY <1>9, <1>10 DEF s

LEMMA HexDigitBack ==
  ASSUME NEW n \in 0..15
  PROVE  /\ HexDigit(n) \in Nat /\ HexDigit(n) \in 32..126 /\ HexDigit(n) # Backslash
         /\ HexValue(HexDigit(n)) = n
BY DEF HexDigit, HexValue, Backslash

LEMMA HexType ==
  ASSUME NEW n, NEW width \in Nat, NEW q, IsHex(n, width, q)
  PROVE  /\ Hex(n, width) \in Codes /\ Len(Hex(n, width)) = width
         /\ \A i \in 1..width : /\ Hex(n, width)[i] \in 32..126
                                /\ HexValue(Hex(n, width)[i]) = q[width - i] % 16
<1> DEFINE h == Hex(n, width)
<1>1. \A i \in 1..width : q[width - i] % 16 \in 0..15 /\ h[i] = HexDigit(q[width - i] % 16)
  <2> TAKE i \in 1..width
  <2>1. width - i \in 0..width
    OBVIOUS
  <2>2. q[width - i] \in Nat
    BY <2>1 DEF IsHex
  <2>3. q[width - i] % 16 \in 0..15
    BY <2>2
  <2> QED BY <2>3 DEF IsHex
<1>2. \A i \in 1..width : h[i] \in Nat /\ h[i] \in 32..126 /\ HexValue(h[i]) = q[width - i] % 16
  BY <1>1, HexDigitBack
<1>3. h \in [1..width -> Nat]
  <2>1. h = [i \in 1..width |-> h[i]]
    BY DEF IsHex
  <2> HIDE DEF h
  <2> QED BY <1>2, <2>1
<1> HIDE DEF h
<1>4. h \in Codes /\ Len(h) = width
  BY <1>3, FunctionIsSeq DEF Codes
<1> QED BY <1>2, <1>4 DEF h

LEMMA FromHexLoop ==
  ASSUME NEW h \in Codes
  PROVE  \E f : /\ f[0] = 0 /\ FromHex(h) = f[Len(h)]
                /\ \A k \in 1..Len(h) : f[k] = (f[k - 1] * 16) + HexValue(h[k])
<1> DEFINE N == Len(h)
           Push(v, i) == (v * 16) + HexValue(h[i])
           turn == [p \in Int \X (1..N) |-> Push(p[1], p[2])]
           f == CHOOSE g : g = [k \in 0..N |-> IF k = 0 THEN 0 ELSE Push(g[k - 1], k)]
<1>1. N \in Nat /\ \A i \in 1..N : h[i] \in Nat
  BY DEF Codes
<1>2. ASSUME NEW v \in Int, NEW i \in 1..N PROVE Push(v, i) \in Int
  BY <1>1 DEF HexValue
<1>3. turn \in Turns(Int, N)
  BY <1>2 DEF Turns
<1>4. \E g : g = [k \in 0..N |-> IF k = 0 THEN 0 ELSE Push(g[k - 1], k)]
  <2>1. PICK g \in [0..N -> Int] :
               g = [k \in 0..N |-> IF k = 0 THEN 0 ELSE turn[<<g[k - 1], k>>]]
    <3> HIDE DEF turn, N
    <3>1. PICK g : IsLoop(g, Int, N, 0, turn)
      BY <1>1, <1>3, LoopExists
    <3> QED BY <3>1 DEF IsLoop
  <2>2. \A k \in 0..N : k # 0 => turn[<<g[k - 1], k>>] = Push(g[k - 1], k)
    <3> TAKE k \in 0..N
    <3> HAVE k # 0
    <3>1. <<g[k - 1], k>> \in Int \X (1..N)
      BY <1>1
    <3> HIDE DEF Push
    <3> QED BY <3>1
  <2> HIDE DEF turn, Push
  <2> QED BY <2>1, <2>2
<1>5. f = [k \in 0..N |-> IF k = 0 THEN 0 ELSE Push(f[k - 1], k)]
  <2> HIDE DEF Push, N
  <2> QED BY <1>4, Zenon
<1>6. FromHex(h) = f[N]
  BY Zenon DEF FromHex, Loop
<1> HIDE DEF f
<1>7. f[0] = 0 /\ \A k \in 1..N : f[k] = Push(f[k - 1], k)
  <2> HIDE DEF Push
  <2> QED BY <1>1, <1>5
<1> QED BY <1>6, <1>7

\* The digits give n again when there are enough of them.
LEMMA HexBack ==
  ASSUME NEW n \in Nat, NEW width \in Nat, NEW q, IsHex(n, width, q), q[width] = 0
  PROVE  FromHex(Hex(n, width)) = n
<1> DEFINE h == Hex(n, width)
<1>1. h \in Codes /\ Len(h) = width /\ \A i \in 1..width : HexValue(h[i]) = q[width - i] % 16
  BY HexType
<1> HIDE DEF h
<1>2. PICK f : /\ f[0] = 0 /\ FromHex(h) = f[Len(h)]
               /\ \A k \in 1..Len(h) : f[k] = (f[k - 1] * 16) + HexValue(h[k])
  BY <1>1, FromHexLoop
<1> DEFINE G == {k \in 0..width : f[k] = q[width - k]}
<1>3. 0 \in G
  BY <1>2
<1>4. ASSUME NEW k \in 1..width, k - 1 \in G PROVE k \in G
  <2> DEFINE v == q[width - k]
  <2>1. width - k \in 0..width /\ (width - k) + 1 \in 1..width /\ width - (k - 1) = (width - k) + 1
    OBVIOUS
  <2>2. v \in Nat /\ q[(width - k) + 1] = v \div 16
    BY <2>1 DEF IsHex
  <2>3. f[k] = ((v \div 16) * 16) + (v % 16)
    BY <1>1, <1>2, <1>4, <2>1, <2>2
  <2> HIDE DEF v
  <2>4. f[k] = v
    BY <2>2, <2>3
  <2> QED BY <2>4 DEF v
<1>5. width \in G
  <2> HIDE DEF G
  <2> QED BY <1>3, <1>4, Induction
<1>6. FromHex(h) = q[0]
  BY <1>1, <1>2, <1>5
<1> QED BY <1>6 DEF h, IsHex

Runes == {n \in Nat : n < 17 * 65536}

\* The escapes have digits enough.
LEMMA HexFits ==
  ASSUME NEW n \in Nat, NEW q
  PROVE  /\ IsHex(n, 2, q) /\ n < 256 => q[2] = 0
         /\ IsHex(n, 4, q) /\ n < 65536 => q[4] = 0
         /\ IsHex(n, 8, q) /\ n \in Runes => q[8] = 0
<1>1. ASSUME IsHex(n, 2, q), n < 256 PROVE q[2] = 0
  BY <1>1 DEF IsHex
<1>2. ASSUME IsHex(n, 4, q), n < 65536 PROVE q[4] = 0
  <2>1. q[0] = n /\ q[1] = q[0] \div 16 /\ q[2] = q[1] \div 16 /\ q[3] = q[2] \div 16 /\ q[4] = q[3] \div 16
    BY <1>2 DEF IsHex
  <2>2. q[2] \in Nat /\ q[2] < 256
    BY <1>2, <2>1
  <2> QED BY <2>1, <2>2
<1>3. ASSUME IsHex(n, 8, q), n \in Runes PROVE q[8] = 0
  <2>1. q \in [0..8 -> Nat] /\ q[0] = n /\ n < 17 * 65536
    BY <1>3 DEF IsHex, Runes
  <2>2. \A k \in 1..8 : q[k] = q[k - 1] \div 16
    BY <1>3 DEF IsHex
  <2> QED BY <2>1, <2>2
<1> QED BY <1>1, <1>2, <1>3

\* What follows a code, and what is in it.
LEMMA InFront ==
  ASSUME NEW code \in Codes, NEW tail \in Codes, code # <<>>
  PROVE  LET u == code \o tail
         IN  /\ u \in Codes /\ u # <<>> /\ Len(code) >= 1
             /\ \A i \in 1..Len(code) : u[i] = code[i]
             /\ SubSeq(u, Len(code) + 1, Len(u)) = tail
             /\ \A m \in 1..Len(code) : SubSeq(u, m, Len(code)) = SubSeq(code, m, Len(code))
<1> DEFINE u == code \o tail
           n == Len(code)
<1>1. code \in Seq(Nat) /\ tail \in Seq(Nat) /\ n \in Nat /\ Len(tail) \in Nat /\ n >= 1
  BY DEF Codes
<1>2. /\ u \in Seq(Nat) /\ Len(u) = n + Len(tail)
      /\ \A i \in 1..n : u[i] = code[i]
      /\ \A i \in 1..Len(tail) : u[n + i] = tail[i]
  <2>1. /\ u \in Seq(Nat) /\ Len(u) = n + Len(tail)
        /\ \A i \in 1..(n + Len(tail)) : u[i] = IF i <= n THEN code[i] ELSE tail[i - n]
    BY <1>1, ConcatProperties
  <2> HIDE DEF u, n
  <2>2. \A i \in 1..Len(tail) : u[n + i] = tail[i]
    <3> TAKE i \in 1..Len(tail)
    <3>1. n + i \in 1..(n + Len(tail)) /\ ~(n + i <= n) /\ (n + i) - n = i
      BY <1>1
    <3> QED BY <2>1, <3>1
  <2>3. \A i \in 1..n : u[i] = code[i]
    <3> TAKE i \in 1..n
    <3>1. i \in 1..(n + Len(tail)) /\ i <= n
      BY <1>1
    <3> QED BY <2>1, <3>1
  <2> QED BY <2>1, <2>2, <2>3
<1> DEFINE w == SubSeq(u, n + 1, Len(u))
<1> HIDE DEF u, n
<1>3. w = tail
  <2>1. \A i \in (n + 1)..Len(u) : u[i] \in Nat
    BY <1>1, <1>2
  <2>2. n + 1 \in Int /\ Len(u) \in Int
    BY <1>1, <1>2
  <2>3. /\ w \in Seq(Nat)
        /\ Len(w) = IF n + 1 <= Len(u) THEN Len(u) - (n + 1) + 1 ELSE 0
        /\ \A i \in 1..(Len(u) - (n + 1) + 1) : w[i] = u[n + 1 + i - 1]
    BY <2>1, <2>2, SubSeqProperties
  <2> HIDE DEF w
  <2>4. Len(w) = Len(tail)
    BY <1>1, <1>2, <2>3
  <2>5. \A i \in 1..Len(tail) : w[i] = tail[i]
    <3> TAKE i \in 1..Len(tail)
    <3>1. i \in 1..(Len(u) - (n + 1) + 1) /\ n + 1 + i - 1 = n + i
      BY <1>1, <1>2
    <3> QED BY <1>2, <2>3, <3>1
  <2> QED BY <1>1, <2>3, <2>4, <2>5, SeqEqual
<1>4. \A m \in 1..n : SubSeq(u, m, n) = SubSeq(code, m, n)
  <2> TAKE m \in 1..n
  <2>1. n \in 1..n
    BY <1>1
  <2> QED BY <1>1, <2>1, SubSeqOfConcat1 DEF u, n
<1>5. u # <<>>
  BY <1>1, <1>2
<1> QED BY <1>1, <1>2, <1>3, <1>4, <1>5 DEF u, n, w, Codes

Letters(t) == {c \in DOMAIN ControlLetters : t[2] = ControlLetters[c]}

LEMMA LettersOf ==
  ASSUME NEW t
  PROVE  /\ \A c \in 7..13 : t[2] = ControlLetters[c] => Letters(t) = {c}
         /\ t[2] \in {Backslash, Quote, 120, 117, 85} => Letters(t) = {}
<1>1. /\ DOMAIN ControlLetters = 7..13
      /\ ControlLetters[7] = 97 /\ ControlLetters[8] = 98 /\ ControlLetters[9] = 116
      /\ ControlLetters[10] = 110 /\ ControlLetters[11] = 118 /\ ControlLetters[12] = 102
      /\ ControlLetters[13] = 114
  BY DEF ControlLetters
<1>2. \A c \in 7..13 : c \in {7, 8, 9, 10, 11, 12, 13}
  OBVIOUS
<1>3. \A c, e \in 7..13 : ControlLetters[c] = ControlLetters[e] => c = e
  BY <1>1, <1>2
<1>4. \A c \in 7..13 : ControlLetters[c] \notin {Backslash, Quote, 120, 117, 85}
  BY <1>1, <1>2 DEF Backslash, Quote
<1> QED BY <1>1, <1>3, <1>4 DEF Letters

Took(s, n, bytes) ==
  [rest |-> SubSeq(s.rest, n + 1, Len(s.rest)), output |-> s.output \o bytes]

\* The four things a turn can find.
LEMMA UnescapeFinds ==
  ASSUME NEW s, s.rest # <<>>
  PROVE  LET t == s.rest
             b == t[2]
         IN  /\ t[1] # Backslash => UnescapeTurn(s) = Took(s, 1, EncodeRune(t[1]))
             /\ t[1] = Backslash =>
                  /\ \A c \in 7..13 : b = ControlLetters[c] => UnescapeTurn(s) = Took(s, 2, <<c>>)
                  /\ b \in {Backslash, Quote} => UnescapeTurn(s) = Took(s, 2, <<b>>)
                  /\ b = 120 => UnescapeTurn(s) = Took(s, 4, <<FromHex(SubSeq(t, 3, 4))>>)
                  /\ b = 117 => UnescapeTurn(s) = Took(s, 6, EncodeRune(FromHex(SubSeq(t, 3, 6))))
                  /\ b = 85 => UnescapeTurn(s) = Took(s, 10, EncodeRune(FromHex(SubSeq(t, 3, 10))))
<1> DEFINE t == s.rest
           b == t[2]
           width == CASE t[2] = 120 -> 2 [] t[2] = 117 -> 4 [] OTHER -> 8
           code == FromHex(SubSeq(t, 3, 2 + width))
<1>1. UnescapeTurn(s) =
        CASE t = <<>> -> s
          [] t # <<>> /\ t[1] # Backslash -> Took(s, 1, EncodeRune(t[1]))
          [] t # <<>> /\ t[1] = Backslash /\ Letters(t) # {} -> Took(s, 2, <<CHOOSE c \in Letters(t) : TRUE>>)
          [] t # <<>> /\ t[1] = Backslash /\ t[2] \in {Backslash, Quote} -> Took(s, 2, <<t[2]>>)
          [] OTHER -> Took(s, 2 + width, IF width = 2 THEN <<code>> ELSE EncodeRune(code))
  BY Zenon DEF UnescapeTurn, Took, Letters
<1>2. /\ \A c \in 7..13 : b = ControlLetters[c] => Letters(t) = {c}
      /\ b \in {Backslash, Quote, 120, 117, 85} => Letters(t) = {}
  BY LettersOf
<1>3. ASSUME t[1] # Backslash PROVE UnescapeTurn(s) = Took(s, 1, EncodeRune(t[1]))
  <2> HIDE DEF t, code
  <2> QED BY <1>1, <1>3 DEF t
<1>4. ASSUME t[1] = Backslash, NEW c \in 7..13, b = ControlLetters[c]
      PROVE  UnescapeTurn(s) = Took(s, 2, <<c>>)
  <2>1. Letters(t) = {c} /\ t # <<>>
    BY <1>2, <1>4
  <2>2. (CHOOSE e \in Letters(t) : TRUE) = c
    BY <2>1
  <2>3. t[2] \notin {Backslash, Quote}
    BY <1>2, <2>1
  <2> HIDE DEF t, code
  <2> QED BY <1>1, <1>4, <2>1, <2>2, <2>3
<1>5. ASSUME t[1] = Backslash, b \in {Backslash, Quote} PROVE UnescapeTurn(s) = Took(s, 2, <<b>>)
  <2>1. Letters(t) = {} /\ t # <<>>
    BY <1>2, <1>5
  <2> HIDE DEF t, code
  <2> QED BY <1>1, <1>5, <2>1
<1>6. ASSUME t[1] = Backslash, b \in {120, 117, 85}
      PROVE  UnescapeTurn(s) = Took(s, 2 + width, IF width = 2 THEN <<code>> ELSE EncodeRune(code))
  <2>1. Letters(t) = {} /\ t # <<>> /\ t[2] \notin {Backslash, Quote}
    BY <1>2, <1>6 DEF Backslash, Quote
  <2> HIDE DEF t, code, width
  <2> QED BY <1>1, <1>6, <2>1
<1>7. /\ b = 120 => width = 2 /\ 2 + width = 4
      /\ b = 117 => width = 4 /\ 2 + width = 6
      /\ b = 85 => width = 8 /\ 2 + width = 10
  OBVIOUS
<1>8. t[1] = Backslash => /\ b = 120 => UnescapeTurn(s) = Took(s, 4, <<FromHex(SubSeq(t, 3, 4))>>)
                          /\ b = 117 => UnescapeTurn(s) = Took(s, 6, EncodeRune(FromHex(SubSeq(t, 3, 6))))
                          /\ b = 85 => UnescapeTurn(s) = Took(s, 10, EncodeRune(FromHex(SubSeq(t, 3, 10))))
  <2> HIDE DEF t, width
  <2> QED BY <1>6, <1>7
<1> QED BY <1>3, <1>4, <1>5, <1>8

LEMMA PlainRead ==
  ASSUME NEW c \in Nat, c # Backslash, EncodeRune(c) \in Codes
  PROVE  ReadAs(<<c>>, EncodeRune(c))
<1>1. <<c>> \in Codes /\ <<c>> # <<>> /\ Len(<<c>>) = 1 /\ <<c>>[1] = c
  BY DEF Codes
<1>2. ASSUME NEW tail \in Codes, NEW out \in Codes
      PROVE  UnescapeTurn([rest |-> <<c>> \o tail, output |-> out])
               = [rest |-> tail, output |-> out \o EncodeRune(c)]
  <2> DEFINE u == <<c>> \o tail
             s == [rest |-> u, output |-> out]
  <2>1. u # <<>> /\ u[1] = c /\ SubSeq(u, 1 + 1, Len(u)) = tail
    BY <1>1, InFront
  <2>2. s.rest = u /\ s.output = out
    OBVIOUS
  <2> HIDE DEF u, s
  <2>3. UnescapeTurn(s) = Took(s, 1, EncodeRune(c))
    BY <2>1, <2>2, UnescapeFinds
  <2>4. Took(s, 1, EncodeRune(c)) = [rest |-> tail, output |-> out \o EncodeRune(c)]
    BY <2>1, <2>2 DEF Took
  <2> QED BY <2>3, <2>4 DEF s, u
<1> QED BY <1>1, <1>2 DEF ReadAs

\* The escapes of one letter.
LEMMA LetterRead ==
  ASSUME NEW b \in Nat, NEW c \in Nat,
         (b \in {Backslash, Quote} /\ c = b) \/ (c \in 7..13 /\ b = ControlLetters[c])
  PROVE  ReadAs(<<Backslash, b>>, <<c>>)
<1> DEFINE code == <<Backslash, b>>
<1>1. /\ code \in Codes /\ code # <<>> /\ Len(code) = 2 /\ code[1] = Backslash /\ code[2] = b
      /\ <<c>> \in Codes
  BY DEF Codes, Backslash
<1> HIDE DEF code
<1>2. ASSUME NEW tail \in Codes, NEW out \in Codes
      PROVE  UnescapeTurn([rest |-> code \o tail, output |-> out])
               = [rest |-> tail, output |-> out \o <<c>>]
  <2> DEFINE u == code \o tail
             s == [rest |-> u, output |-> out]
  <2>1. u # <<>> /\ u[1] = Backslash /\ u[2] = b /\ SubSeq(u, 2 + 1, Len(u)) = tail
    <3>1. 1 \in 1..Len(code) /\ 2 \in 1..Len(code)
      BY <1>1
    <3> QED BY <1>1, <3>1, InFront
  <2>2. s.rest = u /\ s.output = out
    OBVIOUS
  <2> HIDE DEF u, s
  <2>3. UnescapeTurn(s) = Took(s, 2, <<c>>)
    BY <2>1, <2>2, UnescapeFinds
  <2>4. Took(s, 2, <<c>>) = [rest |-> tail, output |-> out \o <<c>>]
    BY <2>1, <2>2 DEF Took
  <2> QED BY <2>3, <2>4 DEF s, u
<1> QED BY <1>1, <1>2 DEF ReadAs, code

\* The escapes with digits: \x, \u and \U.
DigitEscape(b, width, n, bytes) ==
  \/ b = 120 /\ width = 2 /\ n < 256 /\ bytes = <<n>>
  \/ b = 117 /\ width = 4 /\ n < 65536 /\ bytes = EncodeRune(n)
  \/ b = 85 /\ width = 8 /\ n \in Runes /\ bytes = EncodeRune(n)

LEMMA HexRead ==
  ASSUME NEW b \in Nat, NEW width \in Nat, NEW n \in Nat, NEW bytes \in Codes,
         DigitEscape(b, width, n, bytes)
  PROVE  /\ ReadAs(<<Backslash, b>> \o Hex(n, width), bytes)
         /\ \A i \in 1..Len(<<Backslash, b>> \o Hex(n, width)) :
              (<<Backslash, b>> \o Hex(n, width))[i] \in 32..126
<1> DEFINE p == <<Backslash, b>>
           h == Hex(n, width)
           code == p \o h
<1>1. PICK q : IsHex(n, width, q)
  BY HexQuotients
<1>2. h \in Codes /\ Len(h) = width /\ \A i \in 1..width : h[i] \in 32..126
  BY <1>1, HexType
<1>3. FromHex(h) = n
  <2>1. q[width] = 0
    BY <1>1, HexFits DEF DigitEscape
  <2> QED BY <1>1, <2>1, HexBack
<1>4. p \in Codes /\ p # <<>> /\ Len(p) = 2 /\ p[1] = Backslash /\ p[2] = b
  BY DEF Codes, Backslash
<1> HIDE DEF p, h
<1>w. width > 0 /\ b \in 32..126
  BY DEF DigitEscape
<1>5. /\ code \in Codes /\ code # <<>> /\ Len(code) = 2 + width
      /\ code[1] = Backslash /\ code[2] = b /\ SubSeq(code, 3, Len(code)) = h
  <2>1. /\ code \in Codes /\ code # <<>> /\ code[1] = p[1] /\ code[2] = p[2]
        /\ SubSeq(code, Len(p) + 1, Len(code)) = h
    <3>1. 1 \in 1..Len(p) /\ 2 \in 1..Len(p)
      BY <1>4
    <3> QED BY <1>2, <1>4, <3>1, InFront
  <2>2. Len(code) = Len(p) + Len(h)
    BY <1>2, <1>4, ConcatProperties DEF Codes
  <2> HIDE DEF code
  <2> QED BY <1>2, <1>4, <2>1, <2>2
<1>6. \A i \in 1..Len(code) : code[i] \in 32..126
  <2> TAKE i \in 1..Len(code)
  <2>1. code[i] = IF i <= 2 THEN p[i] ELSE h[i - 2]
    BY <1>2, <1>4, <1>5, ConcatProperties DEF Codes
  <2> HIDE DEF code
  <2>2. CASE i <= 2
    <3>1. i = 1 \/ i = 2
      BY <2>2, <1>5
    <3>2. p[1] \in 32..126 /\ p[2] \in 32..126
      BY <1>4, <1>w DEF Backslash
    <3>3. code[i] = p[i]
      BY <2>1, <2>2
    <3> QED BY <3>1, <3>2, <3>3
  <2>3. CASE ~(i <= 2)
    <3>1. i - 2 \in 1..width
      BY <2>3, <1>5
    <3> QED BY <3>1, <2>1, <2>3, <1>2
  <2> QED BY <2>2, <2>3
<1> HIDE DEF code
<1>7. ASSUME NEW tail \in Codes, NEW out \in Codes
      PROVE  UnescapeTurn([rest |-> code \o tail, output |-> out])
               = [rest |-> tail, output |-> out \o bytes]
  <2> DEFINE u == code \o tail
             s == [rest |-> u, output |-> out]
  <2>1. /\ u # <<>> /\ u[1] = Backslash /\ u[2] = b
        /\ SubSeq(u, (2 + width) + 1, Len(u)) = tail
        /\ SubSeq(u, 3, 2 + width) = h
    <3>1. 1 \in 1..Len(code) /\ 2 \in 1..Len(code) /\ 3 \in 1..Len(code)
      BY <1>w, <1>5
    <3> QED BY <1>5, <3>1, InFront
  <2>2. s.rest = u /\ s.output = out
    OBVIOUS
  <2> HIDE DEF u, s
  <2>3. UnescapeTurn(s) = Took(s, 2 + width, bytes)
    <3>1. CASE b = 120 /\ width = 2 /\ bytes = <<n>>
      <4>1. 2 + width = 4 /\ SubSeq(u, 3, 4) = h
        BY <3>1, <2>1
      <4>2. UnescapeTurn(s) = Took(s, 4, <<n>>)
        BY <3>1, <4>1, <1>3, <2>1, <2>2, UnescapeFinds
      <4> QED BY <3>1, <4>1, <4>2
    <3>2. CASE b = 117 /\ width = 4 /\ bytes = EncodeRune(n)
      <4>1. 2 + width = 6 /\ SubSeq(u, 3, 6) = h
        BY <3>2, <2>1
      <4>2. UnescapeTurn(s) = Took(s, 6, EncodeRune(n))
        BY <3>2, <4>1, <1>3, <2>1, <2>2, UnescapeFinds
      <4> QED BY <3>2, <4>1, <4>2
    <3>3. CASE b = 85 /\ width = 8 /\ bytes = EncodeRune(n)
      <4>1. 2 + width = 10 /\ SubSeq(u, 3, 10) = h
        BY <3>3, <2>1
      <4>2. UnescapeTurn(s) = Took(s, 10, EncodeRune(n))
        BY <3>3, <4>1, <1>3, <2>1, <2>2, UnescapeFinds
      <4> QED BY <3>3, <4>1, <4>2
    <3> QED BY <3>1, <3>2, <3>3 DEF DigitEscape
  <2>4. Took(s, 2 + width, bytes) = [rest |-> tail, output |-> out \o bytes]
    BY <2>1, <2>2 DEF Took
  <2> QED BY <2>3, <2>4 DEF s, u
<1>8. ReadAs(code, bytes)
  BY <1>5, <1>7 DEF ReadAs
<1> QED BY <1>6, <1>8 DEF code, p, h

-------------------------------------------------------------------------------
(* UTF-8 *)

\* The value that UTF-8 gives to one to four bytes.
RuneValue(b) ==
  CASE Len(b) = 1 -> b[1] % 128
    [] Len(b) = 2 -> ((b[1] % 32) * 64) + (b[2] % 64)
    [] Len(b) = 3 -> ((((b[1] % 16) * 64) + (b[2] % 64)) * 64) + (b[3] % 64)
    [] OTHER -> ((((((b[1] % 8) * 64) + (b[2] % 64)) * 64) + (b[3] % 64)) * 64) + (b[4] % 64)

LEMMA RuneLoop ==
  ASSUME NEW b \in Text, Len(b) \in 1..4
  PROVE  RuneBits(b) = RuneValue(b) /\ RuneBits(b) \in Nat
<1>1. Len(b) \in Nat /\ Len(b) \in 1..4 /\ \A i \in 1..Len(b) : b[i] \in Nat
  <2>1. Len(b) \in Nat /\ \A i \in 1..Len(b) : b[i] \in Byte
    BY DEF Text
  <2>2. Byte \subseteq Nat
    BY DEF Byte
  <2> QED BY <2>1, <2>2
<1> DEFINE N == Len(b)
           p == <<128, 32, 16, 8>>[N]
           Push(v, i) == IF i = 1 THEN b[1] % p ELSE (v * 64) + (b[i] % 64)
           turn == [x \in Nat \X (1..N) |-> Push(x[1], x[2])]
           f == CHOOSE g : g = [k \in 0..N |-> IF k = 0 THEN 0 ELSE Push(g[k - 1], k)]
<1>n. N \in Nat /\ N \in 1..4
  BY <1>1
<1>p. /\ N = 1 => p = 128
      /\ N = 2 => p = 32
      /\ N = 3 => p = 16
      /\ N = 4 => p = 8
  <2> HIDE DEF N
  <2> QED OBVIOUS
<1> HIDE DEF p
<1>2. ASSUME NEW v \in Nat, NEW i \in 1..N PROVE Push(v, i) \in Nat
  <2>1. b[1] % p \in Nat /\ b[i] % 64 \in Nat
    BY <1>1, <1>p
  <2> QED BY <2>1
<1>3. turn \in Turns(Nat, N)
  BY <1>2 DEF Turns
<1>4. \E g : g = [k \in 0..N |-> IF k = 0 THEN 0 ELSE Push(g[k - 1], k)]
  <2>1. PICK g \in [0..N -> Nat] :
               g = [k \in 0..N |-> IF k = 0 THEN 0 ELSE turn[<<g[k - 1], k>>]]
    <3> HIDE DEF turn, N
    <3>1. PICK g : IsLoop(g, Nat, N, 0, turn)
      BY <1>n, <1>3, LoopExists
    <3> QED BY <3>1 DEF IsLoop
  <2>2. \A k \in 0..N : k # 0 => turn[<<g[k - 1], k>>] = Push(g[k - 1], k)
    <3> TAKE k \in 0..N
    <3> HAVE k # 0
    <3>1. <<g[k - 1], k>> \in Nat \X (1..N)
      BY <1>1
    <3> HIDE DEF Push
    <3> QED BY <3>1
  <2> HIDE DEF turn, Push
  <2> QED BY <2>1, <2>2
<1>5. f = [k \in 0..N |-> IF k = 0 THEN 0 ELSE Push(f[k - 1], k)]
  <2> HIDE DEF Push, N
  <2> QED BY <1>4, Zenon
<1>6. RuneBits(b) = f[N]
  BY Zenon DEF RuneBits, Loop, p
<1> HIDE DEF f
<1>7. f[0] = 0 /\ \A k \in 1..N : f[k] = Push(f[k - 1], k)
  <2> HIDE DEF Push
  <2> QED BY <1>1, <1>5
<1>8. /\ f[1] = b[1] % p
      /\ N >= 2 => f[2] = (f[1] * 64) + (b[2] % 64)
      /\ N >= 3 => f[3] = (f[2] * 64) + (b[3] % 64)
      /\ N >= 4 => f[4] = (f[3] * 64) + (b[4] % 64)
  <2> HIDE DEF N
  <2>1. f[1] = b[1] % p
    <3>1. 1 \in 1..N
      BY <1>n
    <3> QED BY <3>1, <1>7
  <2>2. ASSUME NEW k \in 2..4, N >= k PROVE f[k] = (f[k - 1] * 64) + (b[k] % 64)
    <3>1. k \in 1..N /\ k # 1
      BY <1>n, <2>2
    <3> QED BY <3>1, <1>7
  <2>3. /\ 2 \in 2..4 /\ 3 \in 2..4 /\ 4 \in 2..4
        /\ 2 - 1 = 1 /\ 3 - 1 = 2 /\ 4 - 1 = 3
    OBVIOUS
  <2> HIDE DEF f
  <2> QED BY <2>1, <2>2, <2>3
<1>9. f[N] = RuneValue(b)
  <2>1. CASE N = 1
    BY <2>1, <1>8, <1>p DEF RuneValue
  <2>2. CASE N = 2
    BY <2>2, <1>8, <1>p DEF RuneValue
  <2>3. CASE N = 3
    BY <2>3, <1>8, <1>p DEF RuneValue
  <2>4. CASE N = 4
    BY <2>4, <1>8, <1>p DEF RuneValue
  <2> QED BY <1>1, <2>1, <2>2, <2>3, <2>4
<1>10. RuneValue(b) \in Nat
  <2>1. \A n \in Nat : n % 128 \in Nat /\ n % 64 \in Nat /\ n % 32 \in Nat /\ n % 16 \in Nat /\ n % 8 \in Nat
    OBVIOUS
  <2>2. CASE N = 1
    BY <2>1, <2>2, <1>1 DEF RuneValue
  <2>3. CASE N = 2
    BY <2>1, <2>3, <1>1 DEF RuneValue
  <2>4. CASE N = 3
    BY <2>1, <2>4, <1>1 DEF RuneValue
  <2>5. CASE N = 4
    BY <2>1, <2>5, <1>1 DEF RuneValue
  <2> QED BY <1>n, <2>2, <2>3, <2>4, <2>5
<1> QED BY <1>6, <1>9, <1>10

LEMMA Tables ==
  /\ Weights[1] = 1 /\ Weights[2] = 64 /\ Weights[3] = 4096 /\ Weights[4] = 262144
  /\ LeadMarks[1] = 0 /\ LeadMarks[2] = 192 /\ LeadMarks[3] = 224 /\ LeadMarks[4] = 240
  /\ Smallest[1] = 0 /\ Smallest[2] = 128 /\ Smallest[3] = 2048 /\ Smallest[4] = 65536
  /\ LeadBytes[1] = 0..127 /\ LeadBytes[2] = 192..223 /\ LeadBytes[3] = 224..239
  /\ LeadBytes[4] = 240..247
BY SMT DEF Weights, LeadMarks, Smallest, LeadBytes

Lengths == {1, 2, 3, 4}

LEMMA Encoded ==
  ASSUME NEW v \in Nat
  PROVE  /\ RuneLength(v) \in Lengths /\ DOMAIN EncodeRune(v) = 1..RuneLength(v)
         /\ EncodeRune(v)[1] = LeadMarks[RuneLength(v)] + (v \div Weights[RuneLength(v)])
         /\ \A i \in 2..RuneLength(v) :
              EncodeRune(v)[i] = 128 + ((v \div Weights[RuneLength(v) - i + 1]) % 64)
         /\ EncodeRune(v) \in Codes
<1>1. RuneLength(v) \in Lengths
  BY DEF RuneLength, Lengths
<1> DEFINE n == RuneLength(v)
<1>2. n \in Nat /\ n >= 1
  BY <1>1 DEF Lengths
<1> HIDE DEF n
<1>3. EncodeRune(v) = [i \in 1..n |-> IF i = 1 THEN LeadMarks[n] + (v \div Weights[n])
                                      ELSE 128 + ((v \div Weights[n - i + 1]) % 64)]
  BY DEF EncodeRune, n
<1>4. \A k \in 1..n : Weights[k] \in {1, 64, 4096, 262144} /\ LeadMarks[k] \in Nat
  BY <1>1, Tables DEF n, Lengths
<1>5. \A k \in 1..n : v \div Weights[k] \in Nat
  <2>1. \A w \in {1, 64, 4096, 262144} : v \div w \in Nat
    OBVIOUS
  <2> QED BY <1>4, <2>1
<1>6. ASSUME NEW i \in 1..n PROVE EncodeRune(v)[i] \in Nat
  <2>1. CASE i = 1
    BY <1>2, <1>3, <1>4, <1>5, <2>1
  <2>2. CASE i # 1
    <3>1. n - i + 1 \in 1..n
      BY <1>2, <2>2
    <3> DEFINE x == v \div Weights[n - i + 1]
    <3>2. x \in Nat
      BY <1>5, <3>1
    <3>3. EncodeRune(v)[i] = 128 + (x % 64)
      BY <1>3, <2>2
    <3> HIDE DEF x
    <3> QED BY <3>2, <3>3
  <2> QED BY <2>1, <2>2
<1>7. EncodeRune(v) \in [1..n -> Nat]
  BY <1>3, <1>6
<1>8. EncodeRune(v) \in Codes
  BY <1>2, <1>7, FunctionIsSeq DEF Codes
<1> QED BY <1>1, <1>2, <1>3, <1>8 DEF n

\* What a valid encoding is.
IsRune(b, v) ==
  /\ b[1] \in LeadBytes[Len(b)] /\ \A i \in 2..Len(b) : b[i] \in 128..191
  /\ v = RuneValue(b) /\ v >= Smallest[Len(b)] /\ v \in Runes

LEMMA RuneFacts ==
  ASSUME NEW b \in Text, Len(b) \in 1..4, Rune(b) >= 0
  PROVE  IsRune(b, Rune(b))
<1> DEFINE v == RuneBits(b)
           valid == /\ b[1] \in LeadBytes[Len(b)]
                    /\ \A i \in 2..Len(b) : Continuation(b[i])
                    /\ v >= Smallest[Len(b)] /\ IsChar(v)
<1>1. Rune(b) = IF valid THEN v ELSE -1
  BY Zenon DEF Rune
<1>2. valid /\ Rune(b) = v
  <2> HIDE DEF valid, v
  <2>1. CASE valid
    BY <1>1, <2>1
  <2>2. CASE ~valid
    <3>1. Rune(b) = -1
      BY <1>1, <2>2
    <3> QED BY <3>1
  <2> QED BY <2>1, <2>2
<1>3. v = RuneValue(b)
  BY RuneLoop
<1>4. b[1] \in LeadBytes[Len(b)] /\ v >= Smallest[Len(b)] /\ IsChar(v)
  BY <1>2, Zenon
<1>5. \A i \in 2..Len(b) : b[i] \in 128..191
  <2>1. \A i \in 2..Len(b) : Continuation(b[i])
    BY <1>2, Zenon
  <2> QED BY <2>1 DEF Continuation
<1>6. v \in Nat
  BY RuneLoop
<1> HIDE DEF v
<1>7. v \in Runes
  BY <1>4, <1>6, SMT DEF Runes, IsChar
<1>8. Rune(b) = v
  BY <1>2
<1> QED BY <1>8, <1>3, <1>4, <1>5, <1>7, Zenon DEF IsRune

LEMMA TextsAreCodes ==
  ASSUME NEW t \in Text
  PROVE  t \in Codes
<1>1. Len(t) \in Nat /\ t \in [1..Len(t) -> Byte]
  BY DEF Text
<1>2. Byte \subseteq Nat
  BY DEF Byte
<1>3. t \in [1..Len(t) -> Nat]
  BY <1>1, <1>2
<1> QED BY <1>1, <1>3, FunctionIsSeq DEF Codes

\* The bytes are those that carry v, in as many bytes as it takes.
Carries(b, v) ==
  LET n == RuneLength(v)
  IN  /\ v \in Nat /\ Len(b) = n
      /\ b[1] = LeadMarks[n] + (v \div Weights[n])
      /\ \A i \in 2..n : b[i] = 128 + ((v \div Weights[n - i + 1]) % 64)

LEMMA CarriedIsEncoded ==
  ASSUME NEW b \in Text, NEW v, Carries(b, v)
  PROVE  EncodeRune(v) = b
<1> DEFINE n == RuneLength(v)
           e == EncodeRune(v)
<1>1. /\ v \in Nat /\ Len(b) = n
      /\ b[1] = LeadMarks[n] + (v \div Weights[n])
      /\ \A i \in 2..n : b[i] = 128 + ((v \div Weights[n - i + 1]) % 64)
  BY DEF Carries
<1>2. /\ n \in Lengths /\ DOMAIN e = 1..n /\ e \in Codes
      /\ e[1] = LeadMarks[n] + (v \div Weights[n])
      /\ \A i \in 2..n : e[i] = 128 + ((v \div Weights[n - i + 1]) % 64)
  BY <1>1, Encoded
<1> HIDE DEF e, n
<1>3. n \in Nat /\ \A i \in 1..n : i = 1 \/ i \in 2..n
  BY <1>2 DEF Lengths
<1>4. \A i \in 1..n : e[i] = b[i]
  <2>1. e[1] = b[1]
    BY <1>1, <1>2, Zenon
  <2>2. \A i \in 2..n : e[i] = b[i]
    BY <1>1, <1>2, Zenon
  <2> QED BY <1>3, <2>1, <2>2, Zenon
<1>5. b \in Codes
  BY TextsAreCodes
<1>6. Len(e) = n
  BY <1>2, <1>3 DEF Codes
<1>7. Len(b) = Len(e) /\ \A i \in 1..Len(e) : e[i] = b[i]
  BY <1>1, <1>4, <1>6, Zenon
<1>8. e = b
  BY <1>2, <1>5, <1>7, SeqEqual DEF Codes
<1> QED BY <1>8 DEF e

\* The payload x, y, z and w of four bytes.
Fourfold(v, x, y, z, w) ==
  /\ v \in Nat /\ v \div Weights[4] = x /\ (v \div Weights[3]) % 64 = y
  /\ (v \div Weights[2]) % 64 = z /\ (v \div Weights[1]) % 64 = w

LEMMA Payload ==
  ASSUME NEW x \in 0..7, NEW y \in 0..63, NEW z \in 0..63, NEW w \in 0..63,
         NEW v, v = (((((x * 64) + y) * 64) + z) * 64) + w
  PROVE  Fourfold(v, x, y, z, w)
<1> DEFINE a == (x * 64) + y
           c == (a * 64) + z
<1>1. a \in Nat /\ a \div 64 = x /\ a % 64 = y
  OBVIOUS
<1> HIDE DEF a
<1>2. c \in Nat /\ c \div 64 = a /\ c % 64 = z
  BY <1>1
<1> HIDE DEF c
<1>3. (c * 64) + w \in Nat /\ ((c * 64) + w) \div 64 = c /\ ((c * 64) + w) % 64 = w
  BY <1>2
<1>4. v = (c * 64) + w
  BY DEF c, a
<1>5. v \in Nat /\ v \div 64 = c /\ v % 64 = w /\ v \div 1 = v
  BY <1>3, <1>4
<1>6. v \div 4096 = a
  BY <1>1, <1>2, <1>5, SMT
<1>7. v \div 262144 = x
  BY <1>1, <1>2, <1>5, <1>6, SMT
<1> QED BY <1>1, <1>2, <1>5, <1>6, <1>7, Tables, SMT DEF Fourfold

LEMMA FourBytes ==
  ASSUME NEW b \in Text, Len(b) = 4, b[1] \in 240..247,
         \A i \in 2..4 : b[i] \in 128..191, RuneValue(b) >= Smallest[4]
  PROVE  EncodeRune(RuneValue(b)) = b
<1> DEFINE v == RuneValue(b)
<1>1. b[2] \in 128..191 /\ b[3] \in 128..191 /\ b[4] \in 128..191
  OBVIOUS
<1>2. v = (((((((b[1] % 8) * 64) + (b[2] % 64)) * 64) + (b[3] % 64)) * 64) + (b[4] % 64))
  BY DEF RuneValue
<1>3. /\ b[1] % 8 \in 0..7 /\ b[1] = 240 + (b[1] % 8)
      /\ b[2] % 64 \in 0..63 /\ b[2] = 128 + (b[2] % 64)
      /\ b[3] % 64 \in 0..63 /\ b[3] = 128 + (b[3] % 64)
      /\ b[4] % 64 \in 0..63 /\ b[4] = 128 + (b[4] % 64)
  BY <1>1
<1> DEFINE x == b[1] % 8
           y == b[2] % 64
           z == b[3] % 64
           w == b[4] % 64
<1>4. x \in 0..7 /\ y \in 0..63 /\ z \in 0..63 /\ w \in 0..63
  BY <1>3
<1>5. v = (((((x * 64) + y) * 64) + z) * 64) + w
  BY <1>2
<1>6. b[1] = 240 + x /\ b[2] = 128 + y /\ b[3] = 128 + z /\ b[4] = 128 + w
  BY <1>3
<1>7. v >= Smallest[4]
  OBVIOUS
<1> HIDE DEF v, x, y, z, w
<1>8. Fourfold(v, x, y, z, w)
  BY <1>4, <1>5, Payload
<1>9. v \in Nat
  BY <1>8 DEF Fourfold
<1>10. RuneLength(v) = 4
  BY <1>7, <1>9, Tables, SMT DEF RuneLength
<1>11. b[1] = LeadMarks[4] + (v \div Weights[4])
  <2>1. LeadMarks[4] = 240
    BY Tables
  <2>2. v \div Weights[4] = x
    BY <1>8 DEF Fourfold
  <2> QED BY <1>6, <2>1, <2>2
<1>12. ASSUME NEW i \in 2..4 PROVE b[i] = 128 + ((v \div Weights[4 - i + 1]) % 64)
  <2>1. (v \div Weights[3]) % 64 = y /\ (v \div Weights[2]) % 64 = z /\ (v \div Weights[1]) % 64 = w
    BY <1>8 DEF Fourfold
  <2>2. (i = 2 /\ 4 - i + 1 = 3) \/ (i = 3 /\ 4 - i + 1 = 2) \/ (i = 4 /\ 4 - i + 1 = 1)
    OBVIOUS
  <2> QED BY <1>6, <2>1, <2>2, Zenon
<1>13. Carries(b, v)
  BY <1>9, <1>10, <1>11, <1>12, Zenon DEF Carries
<1> QED BY <1>13, CarriedIsEncoded DEF v

Threefold(v, x, y, z) ==
  /\ v \in Nat /\ v < 65536 /\ v \div Weights[3] = x
  /\ (v \div Weights[2]) % 64 = y /\ (v \div Weights[1]) % 64 = z

LEMMA ThreeBytes ==
  ASSUME NEW b \in Text, Len(b) = 3, b[1] \in 224..239,
         \A i \in 2..3 : b[i] \in 128..191, RuneValue(b) >= Smallest[3]
  PROVE  EncodeRune(RuneValue(b)) = b
<1> DEFINE v == RuneValue(b)
<1>1. b[2] \in 128..191 /\ b[3] \in 128..191
  OBVIOUS
<1>2. v = (((((b[1] % 16) * 64) + (b[2] % 64)) * 64) + (b[3] % 64))
  BY DEF RuneValue
<1>3. /\ b[1] % 16 \in 0..15 /\ b[1] = 224 + (b[1] % 16)
      /\ b[2] % 64 \in 0..63 /\ b[2] = 128 + (b[2] % 64)
      /\ b[3] % 64 \in 0..63 /\ b[3] = 128 + (b[3] % 64)
  BY <1>1
<1> DEFINE x == b[1] % 16
           y == b[2] % 64
           z == b[3] % 64
<1>4. x \in 0..15 /\ y \in 0..63 /\ z \in 0..63
  BY <1>3
<1>5. v = (((x * 64) + y) * 64) + z
  BY <1>2
<1>6. b[1] = 224 + x /\ b[2] = 128 + y /\ b[3] = 128 + z
  BY <1>3
<1>7. v >= Smallest[3]
  OBVIOUS
<1> HIDE DEF v, x, y, z
<1>8. Threefold(v, x, y, z)
  <2> DEFINE a == (x * 64) + y
  <2>1. a \in Nat /\ a \div 64 = x /\ a % 64 = y /\ a < 1024
    BY <1>4
  <2>2. v = (a * 64) + z
    BY <1>5
  <2> HIDE DEF a
  <2>3. v \in Nat /\ v \div 64 = a /\ v % 64 = z /\ v \div 1 = v
    BY <1>4, <2>1, <2>2
  <2>4. v < 65536
    BY <1>4, <2>1, <2>2, SMT
  <2>5. v \div 4096 = x
    BY <2>1, <2>3, SMT
  <2> QED BY <2>1, <2>3, <2>4, <2>5, Tables, SMT DEF Threefold
<1>9. v \in Nat
  BY <1>8 DEF Threefold
<1>10. RuneLength(v) = 3
  BY <1>7, <1>8, Tables, SMT DEF RuneLength, Threefold
<1>11. b[1] = LeadMarks[3] + (v \div Weights[3])
  <2>1. LeadMarks[3] = 224
    BY Tables
  <2>2. v \div Weights[3] = x
    BY <1>8 DEF Threefold
  <2> QED BY <1>6, <2>1, <2>2
<1>12. ASSUME NEW i \in 2..3 PROVE b[i] = 128 + ((v \div Weights[3 - i + 1]) % 64)
  <2>1. (v \div Weights[2]) % 64 = y /\ (v \div Weights[1]) % 64 = z
    BY <1>8 DEF Threefold
  <2>2. (i = 2 /\ 3 - i + 1 = 2) \/ (i = 3 /\ 3 - i + 1 = 1)
    OBVIOUS
  <2> QED BY <1>6, <2>1, <2>2, Zenon
<1>13. Carries(b, v)
  BY <1>9, <1>10, <1>11, <1>12, Zenon DEF Carries
<1> QED BY <1>13, CarriedIsEncoded DEF v

LEMMA TwoBytes ==
  ASSUME NEW b \in Text, Len(b) = 2, b[1] \in 192..223, b[2] \in 128..191,
         RuneValue(b) >= Smallest[2]
  PROVE  EncodeRune(RuneValue(b)) = b
<1> DEFINE v == RuneValue(b)
<1>1. v = (((b[1] % 32) * 64) + (b[2] % 64))
  BY DEF RuneValue
<1>2. v \in Nat /\ v < 2048 /\ b[1] = 192 + (v \div 64) /\ b[2] = 128 + ((v \div 1) % 64)
  BY <1>1
<1>3. v >= Smallest[2]
  OBVIOUS
<1> HIDE DEF v
<1>4. RuneLength(v) = 2
  BY <1>2, <1>3, Tables, SMT DEF RuneLength
<1>5. b[1] = LeadMarks[2] + (v \div Weights[2])
  BY <1>2, Tables, SMT
<1>6. ASSUME NEW i \in 2..2 PROVE b[i] = 128 + ((v \div Weights[2 - i + 1]) % 64)
  <2>1. i = 2 /\ 2 - i + 1 = 1
    OBVIOUS
  <2>2. b[2] = 128 + ((v \div Weights[1]) % 64)
    BY <1>2, Tables, SMT
  <2> QED BY <2>1, <2>2, Zenon
<1>7. v \in Nat
  BY <1>2
<1>8. Carries(b, v)
  BY <1>4, <1>5, <1>6, <1>7, Zenon DEF Carries
<1> QED BY <1>8, CarriedIsEncoded DEF v

\* A code point below 128 is one byte.
LEMMA Ascii ==
  ASSUME NEW c \in Nat, c < 128
  PROVE  EncodeRune(c) = <<c>> /\ <<c>> \in Codes
<1>1. RuneLength(c) = 1
  BY SMT DEF RuneLength
<1>2. <<c>> \in Text /\ Len(<<c>>) = 1 /\ <<c>>[1] = c
  BY DEF Text, Byte
<1> DEFINE b == <<c>>
<1> HIDE DEF b
<1>3. b[1] = LeadMarks[1] + (c \div Weights[1])
  <2>1. b[1] = 0 + (c \div 1)
    BY <1>2 DEF b
  <2> QED BY <2>1, Tables, SMT
<1>4. \A i \in 2..1 : b[i] = 128 + ((c \div Weights[1 - i + 1]) % 64)
  <2>1. 2..1 = {}
    OBVIOUS
  <2> QED BY <2>1, Zenon
<1>5. Carries(b, c)
  BY <1>1, <1>2, <1>3, <1>4, Zenon DEF Carries, b
<1> QED BY <1>2, <1>5, CarriedIsEncoded, TextsAreCodes DEF b

\* Encoding undoes decoding.
LEMMA RuneBytes ==
  ASSUME NEW b \in Text, Len(b) \in 1..4, Rune(b) >= 0
  PROVE  Rune(b) \in Runes /\ EncodeRune(Rune(b)) = b
<1> DEFINE v == Rune(b)
<1>1. IsRune(b, v)
  BY RuneFacts
<1> HIDE DEF v
<1>2. v = RuneValue(b) /\ v >= Smallest[Len(b)] /\ b[1] \in LeadBytes[Len(b)]
  BY <1>1 DEF IsRune
<1>3. \A i \in 2..Len(b) : b[i] \in 128..191
  BY <1>1 DEF IsRune
<1>4. Len(b) = 1 \/ Len(b) = 2 \/ Len(b) = 3 \/ Len(b) = 4
  OBVIOUS
<1>5. v \in Runes
  BY <1>1 DEF IsRune
<1>6. CASE Len(b) = 1
  <2>1. b[1] \in 0..127 /\ v = b[1] % 128
    BY <1>2, <1>6, Tables, SMT DEF RuneValue
  <2>2. v = b[1] /\ v \in Nat /\ v < 128
    BY <2>1
  <2>3. EncodeRune(v) = <<b[1]>>
    BY <2>2, Ascii
  <2>4. b = <<b[1]>>
    BY <1>6 DEF Text
  <2> QED BY <1>5, <2>3, <2>4 DEF v
<1>7. CASE Len(b) = 2
  <2>1. b[1] \in 192..223 /\ b[2] \in 128..191
    BY <1>2, <1>3, <1>7, Tables, SMT
  <2>2. EncodeRune(v) = b
    BY <1>2, <1>7, <2>1, TwoBytes
  <2> QED BY <1>5, <2>2 DEF v
<1>8. CASE Len(b) = 3
  <2>1. b[1] \in 224..239
    BY <1>2, <1>8, Tables, SMT
  <2>2. EncodeRune(v) = b
    BY <1>2, <1>3, <1>8, <2>1, ThreeBytes
  <2> QED BY <1>5, <2>2 DEF v
<1>9. CASE Len(b) = 4
  <2>1. b[1] \in 240..247
    BY <1>2, <1>9, Tables, SMT
  <2>2. EncodeRune(v) = b
    BY <1>2, <1>3, <1>9, <2>1, FourBytes
  <2> QED BY <1>5, <2>2 DEF v
<1> QED BY <1>4, <1>6, <1>7, <1>8, <1>9

-------------------------------------------------------------------------------
(* Quoting *)

\* Every element of the code is in S.
Within(code, S) == \A i \in 1..Len(code) : code[i] \in S

PrintableAscii == 32..126
Visible == {n \in Nat : n >= 32 /\ n # 127}

LEMMA AsciiIsVisible ==
  ASSUME NEW code, Within(code, PrintableAscii)
  PROVE  Within(code, Visible)
<1>1. PrintableAscii \subseteq Visible
  BY DEF PrintableAscii, Visible
<1> QED BY <1>1, Zenon DEF Within

LEMMA OneWithin ==
  ASSUME NEW S, NEW c \in S
  PROVE  Within(<<c>>, S)
BY DEF Within

LEMMA LetterWithin ==
  ASSUME NEW b \in PrintableAscii
  PROVE  Within(<<Backslash, b>>, PrintableAscii)
<1>1. Backslash \in PrintableAscii
  BY DEF Backslash, PrintableAscii
<1> DEFINE s == <<Backslash, b>>
<1>2. Len(s) = 2 /\ s[1] = Backslash /\ s[2] = b
  OBVIOUS
<1> HIDE DEF s
<1>3. \A i \in 1..2 : i = 1 \/ i = 2
  OBVIOUS
<1>4. Within(s, PrintableAscii)
  BY <1>1, <1>2, <1>3 DEF Within
<1> QED BY <1>4 DEF s

LEMMA HexWithin ==
  ASSUME NEW b \in Nat, NEW width \in Nat, NEW n \in Nat, NEW bytes \in Codes,
         DigitEscape(b, width, n, bytes)
  PROVE  /\ ReadAs(<<Backslash, b>> \o Hex(n, width), bytes)
         /\ Within(<<Backslash, b>> \o Hex(n, width), PrintableAscii)
<1> DEFINE s == <<Backslash, b>> \o Hex(n, width)
<1>1. ReadAs(s, bytes) /\ \A i \in 1..Len(s) : s[i] \in 32..126
  BY HexRead
<1> HIDE DEF s
<1>2. Within(s, PrintableAscii)
  BY <1>1, Zenon DEF Within, PrintableAscii
<1> QED BY <1>1, <1>2 DEF s

LEMMA BothWithin ==
  ASSUME NEW S, NEW a \in Codes, NEW c \in Codes, Within(a, S), Within(c, S)
  PROVE  Within(a \o c, S)
<1>1. Len(a) \in Nat /\ Len(c) \in Nat
  BY DEF Codes
<1> DEFINE j == a \o c
<1>2. /\ Len(j) = Len(a) + Len(c)
      /\ \A i \in 1..(Len(a) + Len(c)) : j[i] = IF i <= Len(a) THEN a[i] ELSE c[i - Len(a)]
  BY ConcatProperties DEF Codes
<1> HIDE DEF j
<1>3. ASSUME NEW i \in 1..Len(j) PROVE j[i] \in S
  <2>1. CASE i <= Len(a)
    <3>1. i \in 1..Len(a) /\ j[i] = a[i]
      BY <1>1, <1>2, <2>1
    <3> QED BY <3>1 DEF Within
  <2>2. CASE ~(i <= Len(a))
    <3>1. i - Len(a) \in 1..Len(c) /\ j[i] = c[i - Len(a)]
      BY <1>1, <1>2, <2>2
    <3> QED BY <3>1 DEF Within
  <2> QED BY <2>1, <2>2
<1>4. Within(j, S)
  BY <1>3 DEF Within
<1> QED BY <1>4 DEF j

LEMMA IsPrint ==
  ASSUME NEW r \in Nat
  PROVE  /\ r <= 255 => go_is_print(r) = IsPrintLatin(r)
         /\ r > 255 /\ FirstPlane(r) =>
              (go_is_print(r) <=> /\ InPairAt(GO_IS_PRINT_16, PartitionPoint(GO_IS_PRINT_16, r), r)
                                  /\ r \notin Range(GO_IS_NOT_PRINT_16))
         /\ ~FirstPlane(r) =>
              (go_is_print(r) <=> /\ InPairAt(GO_IS_PRINT_32, PartitionPoint(GO_IS_PRINT_32, r), r)
                                  /\ ~IsHole32(r))
<1>1. r <= 255 => FirstPlane(r)
  BY SMT DEF FirstPlane
<1>2. ~(r <= 255 /\ r > 255)
  OBVIOUS
<1> DEFINE B == /\ InPairAt(GO_IS_PRINT_16, PartitionPoint(GO_IS_PRINT_16, r), r)
                /\ r \notin Range(GO_IS_NOT_PRINT_16)
           C == InPairAt(GO_IS_PRINT_32, PartitionPoint(GO_IS_PRINT_32, r), r) /\ ~IsHole32(r)
<1>3. go_is_print(r) = CASE r <= 255 -> IsPrintLatin(r) [] r > 255 /\ FirstPlane(r) -> B
                         [] ~FirstPlane(r) -> C
  BY DEF go_is_print
<1> HIDE DEF B, C
<1>4. r <= 255 => (go_is_print(r) = IsPrintLatin(r))
  BY <1>1, <1>2, <1>3
<1>5. r > 255 /\ FirstPlane(r) => (go_is_print(r) = B)
  BY <1>1, <1>2, <1>3
<1>6. ~FirstPlane(r) => (go_is_print(r) = C)
  BY <1>1, <1>2, <1>3
<1> QED BY <1>4, <1>5, <1>6, Zenon DEF B, C

\* What is printable shows, and what is not has an escape.
LEMMA PrintShows ==
  ASSUME NEW r \in Nat
  PROVE  /\ go_is_print(r) => r >= 32 /\ r # 127
         /\ ~go_is_print(r) => r < 32 \/ r > 126
<1>1. CASE r <= 255
  <2>1. go_is_print(r) = IsPrintLatin(r)
    BY <1>1, IsPrint
  <2>2. IsPrintLatin(r) => r >= 32 /\ r # 127
    BY DEF IsPrintLatin
  <2>3. ~IsPrintLatin(r) => r < 32 \/ r > 126
    BY DEF IsPrintLatin
  <2> QED BY <2>1, <2>2, <2>3, Zenon
<1>2. CASE ~(r <= 255)
  BY <1>2
<1> QED BY <1>1, <1>2

LEMMA RuneIsRead ==
  ASSUME NEW r \in Runes
  PROVE  ReadAs(quote_rune(r), EncodeRune(r)) /\ Within(quote_rune(r), Visible)
<1> DEFINE quoted == r \in {Quote, Backslash}
           print == go_is_print(r)
           letter == r \in DOMAIN ControlLetters
           control == r < 32 \/ r = 127
           high == r > 127
           first == FirstPlane(r)
           e == EncodeRune(r)
<1>1. r \in Nat
  BY DEF Runes
<1>2. quote_rune(r) =
        CASE quoted -> <<Backslash, r>>
          [] ~quoted /\ print -> <<r>>
          [] ~print /\ letter -> <<Backslash, ControlLetters[r]>>
          [] ~print /\ ~letter /\ control -> <<Backslash, 120>> \o Hex(r, 2)
          [] ~print /\ high /\ first -> <<Backslash, 117>> \o Hex(r, 4)
          [] OTHER -> <<Backslash, 85>> \o Hex(r, 8)
  BY DEF quote_rune
<1>3. e \in Codes /\ (r < 128 => e = <<r>>)
  BY <1>1, Encoded, Ascii
<1>4. letter => r < 32 /\ ~high
  BY <1>1 DEF ControlLetters
<1>5. high <=> ~(r < 128)
  BY <1>1
<1>6. ~print /\ ~control => high
  BY <1>1, PrintShows
<1>7. quoted => print /\ ~letter /\ ~control /\ ~high
  <2>1. ASSUME quoted PROVE r \in 32..126 /\ r <= 255
    BY <2>1 DEF Quote, Backslash
  <2>2. quoted => IsPrintLatin(r)
    BY <2>1 DEF IsPrintLatin
  <2>3. quoted => print
    BY <1>1, <2>1, <2>2, IsPrint
  <2> QED BY <1>4, <2>1, <2>3
<1>8. control => ~high
  BY <1>1
<1> HIDE DEF print, e
<1>9. CASE quoted
  <2>1. quote_rune(r) = <<Backslash, r>>
    <3> HIDE DEF quoted, letter, control, high, first
    <3> QED BY <1>2, <1>7, <1>9
  <2>2. r < 128 /\ r \in PrintableAscii
    BY <1>9 DEF Quote, Backslash, PrintableAscii
  <2>3. ReadAs(<<Backslash, r>>, <<r>>)
    BY <1>1, <1>9, LetterRead
  <2>4. Within(<<Backslash, r>>, Visible)
    BY <2>2, LetterWithin, AsciiIsVisible
  <2> QED BY <1>3, <2>1, <2>2, <2>3, <2>4 DEF e
<1>10. CASE ~quoted /\ print
  <2>1. quote_rune(r) = <<r>>
    <3> HIDE DEF quoted, letter, control, high, first
    <3> QED BY <1>2, <1>10
  <2>2. r # Backslash /\ r >= 32 /\ r # 127
    BY <1>1, <1>10, PrintShows DEF print
  <2>3. ReadAs(<<r>>, e)
    BY <1>1, <1>3, <2>2, PlainRead DEF e
  <2>4. Within(<<r>>, Visible)
    BY <1>1, <2>2, OneWithin DEF Visible
  <2> QED BY <2>1, <2>3, <2>4 DEF e
<1>11. CASE ~print /\ letter
  <2>1. quote_rune(r) = <<Backslash, ControlLetters[r]>>
    <3> HIDE DEF quoted, letter, control, high, first
    <3> QED BY <1>2, <1>7, <1>11, <1>4, <1>8
  <2>2. r \in 7..13 /\ ControlLetters[r] \in PrintableAscii /\ ControlLetters[r] \in Nat /\ r < 128
    BY <1>11 DEF ControlLetters, PrintableAscii
  <2>3. ReadAs(<<Backslash, ControlLetters[r]>>, <<r>>)
    BY <1>1, <2>2, LetterRead
  <2>4. Within(<<Backslash, ControlLetters[r]>>, Visible)
    BY <2>2, LetterWithin, AsciiIsVisible
  <2> QED BY <1>3, <2>1, <2>2, <2>3, <2>4 DEF e
<1>12. CASE ~print /\ ~letter /\ control
  <2>1. quote_rune(r) = <<Backslash, 120>> \o Hex(r, 2)
    <3> HIDE DEF quoted, letter, control, high, first
    <3> QED BY <1>2, <1>7, <1>8, <1>12
  <2>2. r < 128
    BY <1>1, <1>12
  <2>3. DigitEscape(120, 2, r, e)
    BY <1>1, <1>3, <2>2 DEF DigitEscape
  <2> QED BY <1>1, <1>3, <2>1, <2>3, HexWithin, AsciiIsVisible DEF e
<1>13. CASE ~print /\ ~control /\ first
  <2>1. quote_rune(r) = <<Backslash, 117>> \o Hex(r, 4)
    <3>1. ~quoted /\ ~letter /\ high
      BY <1>1, <1>4, <1>6, <1>7, <1>13
    <3> HIDE DEF quoted, letter, control, high, first
    <3> QED BY <1>2, <1>13, <3>1
  <2>2. DigitEscape(117, 4, r, e)
    BY <1>1, <1>13, SMT DEF DigitEscape, FirstPlane, e
  <2> QED BY <1>1, <1>3, <2>1, <2>2, HexWithin, AsciiIsVisible DEF e
<1>14. CASE ~print /\ ~control /\ ~first
  <2>1. quote_rune(r) = <<Backslash, 85>> \o Hex(r, 8)
    <3>1. ~quoted /\ ~letter
      BY <1>1, <1>4, <1>7, <1>14
    <3> HIDE DEF quoted, letter, control, high, first
    <3> QED BY <1>2, <1>14, <3>1
  <2>2. DigitEscape(85, 8, r, e)
    BY SMT DEF DigitEscape, e
  <2> QED BY <1>1, <1>3, <2>1, <2>2, HexWithin, AsciiIsVisible DEF e
<1> QED BY <1>9, <1>10, <1>11, <1>12, <1>13, <1>14

LEMMA Width ==
  ASSUME NEW t \in Text
  PROVE  LET w == RuneWidth(t)
         IN  w = 0 \/ (w \in 1..4 /\ w <= Len(t) /\ Rune(SubSeq(t, 1, w)) >= 0)
<1> DEFINE W == {w \in 1..4 : w <= Len(t) /\ Rune(SubSeq(t, 1, w)) >= 0}
<1>1. RuneWidth(t) = IF W = {} THEN 0 ELSE Min(W)
  BY Zenon DEF RuneWidth
<1>2. W \subseteq Nat
  OBVIOUS
<1>3. W # {} => Min(W) \in W
  <2> HIDE DEF W
  <2> QED BY <1>2, MinIsLeast
<1>4. \A w \in W : w \in 1..4 /\ w <= Len(t) /\ Rune(SubSeq(t, 1, w)) >= 0
  OBVIOUS
<1> HIDE DEF W
<1> QED BY <1>1, <1>3, <1>4, Zenon

LEMMA Halves ==
  ASSUME NEW t \in Text, NEW n \in 1..Len(t)
  PROVE  /\ SubSeq(t, 1, n) \in Text /\ SubSeq(t, n + 1, Len(t)) \in Text
         /\ SubSeq(t, 1, n) \o SubSeq(t, n + 1, Len(t)) = t
         /\ Len(SubSeq(t, 1, n)) = n /\ Len(SubSeq(t, n + 1, Len(t))) = Len(t) - n
<1>1. Len(t) \in Nat
  BY DEF Text
<1>2. /\ 1 \in 1..(Len(t) + 1) /\ n \in 0..Len(t) /\ n + 1 \in 1..(Len(t) + 1)
      /\ Len(t) \in 0..Len(t) /\ n \in (1 - 1)..Len(t) /\ Len(t) \in n..Len(t)
  BY <1>1
<1>3. SubSeq(t, 1, n) \in Text /\ Len(SubSeq(t, 1, n)) = IF 1 <= n THEN n - 1 + 1 ELSE 0
  BY <1>2, Stretch
<1>4. /\ SubSeq(t, n + 1, Len(t)) \in Text
      /\ Len(SubSeq(t, n + 1, Len(t))) = IF n + 1 <= Len(t) THEN Len(t) - (n + 1) + 1 ELSE 0
  BY <1>2, Stretch
<1>5. SubSeq(t, 1, n) \o SubSeq(t, n + 1, Len(t)) = SubSeq(t, 1, Len(t))
  BY <1>2, ConcatAdjacentSubSeq DEF Text
<1>6. SubSeq(t, 1, Len(t)) = t
  BY SubSeqFull DEF Text
<1>7. Len(SubSeq(t, 1, n)) = n /\ Len(SubSeq(t, n + 1, Len(t))) = Len(t) - n
  BY <1>1, <1>3, <1>4
<1> QED BY <1>3, <1>4, <1>5, <1>6, <1>7, Zenon

LEMMA OneAndRest ==
  ASSUME NEW t \in Text, Len(t) >= 1
  PROVE  Tail(t) = SubSeq(t, 1 + 1, Len(t)) /\ SubSeq(t, 1, 1) = <<t[1]>>
<1>1. Len(t) \in Nat /\ t # <<>> /\ 1 \in 1..Len(t) /\ t[1] \in Byte
  BY DEF Text
<1>2. /\ SubSeq(t, 1, 1) \in Text /\ Len(SubSeq(t, 1, 1)) = 1
      /\ SubSeq(t, 1, 1) \o SubSeq(t, 1 + 1, Len(t)) = t
      /\ SubSeq(t, 1 + 1, Len(t)) \in Text
  BY <1>1, Halves
<1>3. SubSeq(t, 1, 1)[1] = t[1]
  BY <1>1
<1>4. SubSeq(t, 1, 1) = <<t[1]>>
  <2> DEFINE b == SubSeq(t, 1, 1)
  <2>1. b \in Text /\ Len(b) = 1 /\ b[1] = t[1]
    BY <1>2, <1>3
  <2> HIDE DEF b
  <2>2. b = <<b[1]>>
    BY <2>1 DEF Text
  <2> QED BY <2>1, <2>2 DEF b
<1>5. Tail(t) = SubSeq(t, 1 + 1, Len(t))
  <2>1. Tail(t) = SubSeq(t, 2, Len(t))
    BY <1>1, TailIsSubSeq DEF Text
  <2> QED BY <2>1
<1> QED BY <1>4, <1>5

\* What a turn of go_quote does.
QuotesOn(s, n, code) ==
  /\ n \in 1..Len(s.rest) /\ ReadAs(code, SubSeq(s.rest, 1, n)) /\ Within(code, Visible)
  /\ QuoteTurn(s) = [rest |-> SubSeq(s.rest, n + 1, Len(s.rest)), output |-> s.output \o code]

LEMMA QuoteOn ==
  ASSUME NEW s, s.rest \in Text, s.output \in Codes, s.rest # <<>>
  PROVE  \E n, code : QuotesOn(s, n, code)
<1> DEFINE t == s.rest
           w == RuneWidth(t)
           head == SubSeq(t, 1, w)
<1>1. QuoteTurn(s) = CASE t = <<>> -> s
                       [] t # <<>> /\ w = 0 ->
                            [rest |-> Tail(t), output |-> s.output \o <<Backslash, 120>> \o Hex(t[1], 2)]
                       [] OTHER -> [rest |-> SubSeq(t, w + 1, Len(t)),
                                    output |-> s.output \o quote_rune(Rune(head))]
  BY Zenon DEF QuoteTurn
<1>2. Len(t) \in Nat /\ Len(t) >= 1 /\ t[1] \in Byte /\ t \in Text
  BY DEF Text
<1>3. w = 0 \/ (w \in 1..4 /\ w <= Len(t) /\ Rune(head) >= 0)
  BY <1>2, Width
<1> HIDE DEF t, w, head
<1>4. CASE w = 0
  <2> DEFINE h == Hex(t[1], 2)
             p == <<Backslash, 120>>
             code == p \o h
  <2>1. QuoteTurn(s) = [rest |-> Tail(t), output |-> (s.output \o p) \o h]
    <3> HIDE DEF p, h
    <3> QED BY <1>1, <1>2, <1>4 DEF t, p, h
  <2>2. Tail(t) = SubSeq(t, 1 + 1, Len(t)) /\ SubSeq(t, 1, 1) = <<t[1]>>
    BY <1>2, OneAndRest
  <2>3. t[1] \in Nat /\ t[1] < 256 /\ <<t[1]>> \in Codes
    <3>0. \A c \in Byte : c \in Nat /\ c < 256
      BY DEF Byte
    <3>1. t[1] \in Nat /\ t[1] < 256
      BY <1>2, <3>0
    <3> QED BY <3>1 DEF Codes
  <2>4. DigitEscape(120, 2, t[1], <<t[1]>>)
    BY <2>3 DEF DigitEscape
  <2>5. ReadAs(code, <<t[1]>>) /\ Within(code, Visible)
    BY <2>3, <2>4, HexWithin, AsciiIsVisible
  <2>6. h \in Codes /\ p \in Codes
    <3>1. h \in Text
      BY <1>2, TwoDigits
    <3> QED BY <3>1, TextsAreCodes DEF Codes, Backslash
  <2>7. (s.output \o p) \o h = s.output \o code
    <3>1. Regroups(s.output, p, h)
      BY <2>6, RegroupingCodes
    <3> QED BY <3>1 DEF Regroups
  <2> HIDE DEF h, p, code
  <2>8. QuotesOn(s, 1, code)
    <3>1. 1 \in 1..Len(t)
      BY <1>2
    <3> QED BY <2>1, <2>2, <2>5, <2>7, <3>1, Zenon DEF QuotesOn, t
  <2> QED BY <2>8
<1>5. CASE w # 0
  <2>1. w \in 1..4 /\ w <= Len(t) /\ Rune(head) >= 0 /\ w \in 1..Len(t)
    BY <1>2, <1>3, <1>5
  <2>2. QuoteTurn(s) = [rest |-> SubSeq(t, w + 1, Len(t)), output |-> s.output \o quote_rune(Rune(head))]
    BY <1>1, <1>2, <1>5 DEF t
  <2>3. head \in Text /\ Len(head) = w
    BY <1>2, <2>1, Halves DEF head
  <2>4. Rune(head) \in Runes /\ EncodeRune(Rune(head)) = head
    BY <2>1, <2>3, RuneBytes
  <2>5. ReadAs(quote_rune(Rune(head)), head) /\ Within(quote_rune(Rune(head)), Visible)
    BY <2>4, RuneIsRead
  <2>6. QuotesOn(s, w, quote_rune(Rune(head)))
    BY <2>1, <2>2, <2>5 DEF QuotesOn, t, head
  <2> QED BY <2>6
<1> QED BY <1>4, <1>5

\* What was quoted so far can be read back, and the rest is still to come.
Quoted(text0, s) ==
  /\ s \in [rest : Text, output : Codes] /\ Within(s.output, Visible)
  /\ \E p \in Text : Reads(s.output, p) /\ p \o s.rest = text0

LEMMA QuotedOn ==
  ASSUME NEW text0, NEW s, Quoted(text0, s), s.rest # <<>>
  PROVE  Quoted(text0, QuoteTurn(s)) /\ Len(QuoteTurn(s).rest) < Len(s.rest)
<1>1. s.rest \in Text /\ s.output \in Codes /\ Within(s.output, Visible)
  BY DEF Quoted
<1>2. PICK p \in Text : Reads(s.output, p) /\ p \o s.rest = text0
  BY DEF Quoted
<1>3. PICK n, code : QuotesOn(s, n, code)
  BY <1>1, QuoteOn
<1> DEFINE a == SubSeq(s.rest, 1, n)
           c == SubSeq(s.rest, n + 1, Len(s.rest))
           z == QuoteTurn(s)
<1>4. n \in 1..Len(s.rest) /\ ReadAs(code, a) /\ Within(code, Visible) /\ z = [rest |-> c, output |-> s.output \o code]
  BY <1>3 DEF QuotesOn
<1>5. a \in Text /\ c \in Text /\ a \o c = s.rest /\ Len(c) = Len(s.rest) - n
  BY <1>1, <1>4, Halves
<1> HIDE DEF a, c, z
<1>6. z.rest = c /\ z.output = s.output \o code
  BY <1>4
<1>7. Reads(s.output \o code, p \o a)
  BY <1>2, <1>4, ReadsOn
<1>8. code \in Codes
  BY <1>4 DEF ReadAs
<1>9. s.output \o code \in Codes /\ Within(s.output \o code, Visible)
  BY <1>1, <1>4, <1>8, BothWithin, ConcatProperties DEF Codes
<1>10. p \o a \in Text /\ (p \o a) \o c = text0
  <2>1. Regroups(p, a, c)
    BY <1>5, Regrouping
  <2>2. p \o a \in Text
    BY <1>5, JoinedTexts
  <2> QED BY <1>2, <1>5, <2>1, <2>2 DEF Regroups
<1>11. Len(s.rest) \in Nat
  BY <1>1 DEF Text
<1>12. z \in [rest : Text, output : Codes]
  BY <1>4, <1>5, <1>9
<1>13. Quoted(text0, z)
  BY <1>6, <1>7, <1>9, <1>10, <1>12 DEF Quoted
<1>14. Len(z.rest) < Len(s.rest)
  BY <1>4, <1>5, <1>6, <1>11
<1> QED BY <1>13, <1>14 DEF z

QuoteStates == [rest : Text, output : Codes]

\* go_quote's loop ends with nothing left, so all of the text can be read back.
LEMMA QuoteBack ==
  ASSUME NEW t \in Text
  PROVE  \E out : /\ Reads(out, t) /\ Within(out, Visible)
                  /\ go_quote(t) = <<Quote>> \o out \o <<Quote>>
<1> DEFINE b == [rest |-> t, output |-> <<>>]
           N == Len(t)
           turn == [x \in QuoteStates \X (1..N) |-> IF Quoted(t, x[1]) THEN QuoteTurn(x[1]) ELSE b]
           f == CHOOSE g : g = [k \in 0..N |-> IF k = 0 THEN b ELSE QuoteTurn(g[k - 1])]
<1>1. N \in Nat /\ <<>> \in Codes /\ <<>> \in Text /\ Len(<<>>) = 0
  BY DEF Text, Codes
<1>2. b.rest = t /\ b.output = <<>> /\ b \in QuoteStates
  BY <1>1 DEF QuoteStates
<1>3. Quoted(t, b)
  <2>1. <<>> \o t = t
    BY ConcatEmptySeq DEF Text
  <2>2. Within(<<>>, Visible)
    BY <1>1 DEF Within
  <2> HIDE DEF b
  <2> QED BY <1>1, <1>2, <2>1, <2>2, ReadsNothing DEF Quoted, QuoteStates
<1>4. ASSUME NEW s, Quoted(t, s) PROVE Quoted(t, QuoteTurn(s))
  <2>1. CASE s.rest = <<>>
    <3>1. QuoteTurn(s) = s
      BY <2>1, Zenon DEF QuoteTurn
    <3> QED BY <1>4, <3>1
  <2>2. CASE s.rest # <<>>
    BY <1>4, <2>2, QuotedOn
  <2> QED BY <2>1, <2>2
<1>5. \A s : Quoted(t, s) => s \in QuoteStates
  BY DEF Quoted, QuoteStates
<1>6. turn \in Turns(QuoteStates, N)
  <2>1. \A x \in QuoteStates \X (1..N) :
          (IF Quoted(t, x[1]) THEN QuoteTurn(x[1]) ELSE b) \in QuoteStates
    <3> HIDE DEF b
    <3> QED BY <1>2, <1>4, <1>5
  <2> HIDE DEF b, N
  <2> QED BY <2>1 DEF Turns
<1> HIDE DEF b, N
<1>7. PICK g : IsLoop(g, QuoteStates, N, b, turn)
  <2> HIDE DEF turn
  <2> QED BY <1>1, <1>2, <1>6, LoopExists
<1> DEFINE G == {k \in 0..N : Quoted(t, g[k])}
<1>8. g \in [0..N -> QuoteStates] /\ g[0] = b
  BY <1>7 DEF IsLoop
<1>9. ASSUME NEW k \in 1..N, Quoted(t, g[k - 1]) PROVE g[k] = QuoteTurn(g[k - 1])
  <2>1. g[k - 1] \in QuoteStates
    BY <1>9, <1>5
  <2>2. g[k] = turn[<<g[k - 1], k>>]
    <3> HIDE DEF turn
    <3> QED BY <1>7 DEF IsLoop
  <2>3. <<g[k - 1], k>> \in QuoteStates \X (1..N)
    BY <2>1
  <2>4. turn[<<g[k - 1], k>>] = QuoteTurn(g[k - 1])
    BY <1>9, <2>3
  <2> QED BY <2>2, <2>4
<1> HIDE DEF turn
<1>10. 0..N \subseteq G
  <2>1. 0 \in G
    BY <1>1, <1>3, <1>8
  <2>2. ASSUME NEW k \in 1..N, k - 1 \in G PROVE k \in G
    BY <1>4, <1>9, <2>2
  <2> HIDE DEF G
  <2> QED BY <1>1, <2>1, <2>2, Induction
<1>11. g = [k \in 0..N |-> IF k = 0 THEN b ELSE QuoteTurn(g[k - 1])]
  <2>1. \A k \in 0..N : g[k] = IF k = 0 THEN b ELSE QuoteTurn(g[k - 1])
    <3> TAKE k \in 0..N
    <3>1. CASE k = 0
      BY <1>8, <3>1
    <3>2. CASE k # 0
      <4>1. k \in 1..N /\ k - 1 \in 0..N
        BY <1>1, <3>2
      <4> QED BY <1>9, <1>10, <3>2, <4>1
    <3> QED BY <3>1, <3>2
  <2>2. g = [k \in 0..N |-> g[k]]
    BY <1>8
  <2> QED BY <2>1, <2>2
<1>12. f = [k \in 0..N |-> IF k = 0 THEN b ELSE QuoteTurn(f[k - 1])]
  BY <1>11, Zenon
<1>13. go_quote(t) = <<Quote>> \o f[N].output \o <<Quote>>
  BY Zenon DEF go_quote, Loop, b, N
<1> HIDE DEF f
<1>14. f[0] = b /\ \A k \in 1..N : f[k] = QuoteTurn(f[k - 1])
  BY <1>1, <1>12
<1> DEFINE H == {k \in 0..N : Quoted(t, f[k]) /\ Len(f[k].rest) <= N - k}
<1>15. 0 \in H
  BY <1>1, <1>2, <1>3, <1>14 DEF N
<1>16. ASSUME NEW k \in 1..N, k - 1 \in H PROVE k \in H
  <2> DEFINE s == f[k - 1]
  <2>1. Quoted(t, s) /\ Len(s.rest) <= N - (k - 1) /\ f[k] = QuoteTurn(s)
    BY <1>14, <1>16
  <2> HIDE DEF s
  <2>2. Quoted(t, f[k])
    BY <1>4, <2>1
  <2>3. CASE s.rest = <<>>
    <3>1. QuoteTurn(s) = s
      BY <2>3, Zenon DEF QuoteTurn
    <3>2. Len(f[k].rest) = 0
      BY <1>1, <2>1, <2>3, <3>1
    <3> QED BY <1>1, <2>2, <3>2
  <2>4. CASE s.rest # <<>>
    <3>1. Len(f[k].rest) < Len(s.rest)
      BY <2>1, <2>4, QuotedOn
    <3>2. s.rest \in Text /\ f[k].rest \in Text
      BY <2>1, <2>2 DEF Quoted
    <3>3. Len(s.rest) \in Nat /\ Len(f[k].rest) \in Nat
      BY <3>2 DEF Text
    <3>4. Len(f[k].rest) <= N - k
      BY <1>1, <2>1, <3>1, <3>3
    <3> QED BY <2>2, <3>4
  <2> QED BY <2>3, <2>4
<1>17. N \in H
  <2> HIDE DEF H
  <2> QED BY <1>1, <1>15, <1>16, Induction
<1> DEFINE z == f[N]
<1>18. Quoted(t, z) /\ Len(z.rest) <= 0
  BY <1>1, <1>17
<1> HIDE DEF z
<1>19. z.rest = <<>>
  <2>1. z.rest \in Text
    BY <1>18 DEF Quoted
  <2>2. Len(z.rest) = 0
    BY <1>18, <2>1 DEF Text
  <2> QED BY <2>1, <2>2, EmptySeq DEF Text
<1>20. PICK p \in Text : Reads(z.output, p) /\ p \o z.rest = t
  BY <1>18 DEF Quoted
<1>21. p = t
  <2>1. p \o <<>> = p
    BY ConcatEmptySeq DEF Text
  <2> QED BY <1>19, <1>20, <2>1
<1>22. Within(z.output, Visible)
  BY <1>18 DEF Quoted
<1> QED BY <1>13, <1>20, <1>21, <1>22 DEF z

LEMMA JoinedCodes ==
  ASSUME NEW a \in Codes, NEW c \in Codes
  PROVE  /\ a \o c \in Codes /\ Len(a \o c) = Len(a) + Len(c)
         /\ \A i \in 1..(Len(a) + Len(c)) : (a \o c)[i] = IF i <= Len(a) THEN a[i] ELSE c[i - Len(a)]
BY ConcatProperties DEF Codes

LEMMA QuotedBody ==
  ASSUME NEW out \in Codes
  PROVE  LET quoted == <<Quote>> \o out \o <<Quote>>
         IN  SubSeq(quoted, 2, Len(quoted) - 1) = out
<1> DEFINE q == <<Quote>>
           u == q \o out
           quoted == u \o q
           N == Len(out)
<1>1. N \in Nat /\ q \in Codes /\ Len(q) = 1
  BY DEF Codes, Quote
<1> HIDE DEF q, N
<1>2. /\ u \in Codes /\ Len(u) = 1 + N
      /\ \A i \in 1..(1 + N) : u[i] = IF i <= 1 THEN q[i] ELSE out[i - 1]
  <2>1. /\ u \in Codes /\ Len(u) = Len(q) + N
        /\ \A i \in 1..(Len(q) + N) : u[i] = IF i <= Len(q) THEN q[i] ELSE out[i - Len(q)]
    BY <1>1, JoinedCodes DEF N
  <2> HIDE DEF u
  <2> QED BY <1>1, <2>1
<1> HIDE DEF u
<1>3. /\ quoted \in Codes /\ Len(quoted) = 1 + N + 1
      /\ \A i \in 1..(1 + N + 1) : quoted[i] = IF i <= 1 + N THEN u[i] ELSE q[i - (1 + N)]
  <2>1. /\ quoted \in Codes /\ Len(quoted) = Len(u) + Len(q)
        /\ \A i \in 1..(Len(u) + Len(q)) : quoted[i] = IF i <= Len(u) THEN u[i] ELSE q[i - Len(u)]
    BY <1>1, <1>2, JoinedCodes
  <2> HIDE DEF quoted
  <2> QED BY <1>1, <1>2, <2>1
<1> HIDE DEF quoted
<1> DEFINE body == SubSeq(quoted, 2, Len(quoted) - 1)
<1>4. Len(quoted) - 1 = 1 + N
  BY <1>1, <1>3
<1>5. \A i \in 2..(1 + N) : quoted[i] \in Nat
  BY <1>1, <1>3 DEF Codes
<1>6. /\ body \in Codes /\ Len(body) = IF 2 <= 1 + N THEN (1 + N) - 2 + 1 ELSE 0
      /\ \A i \in 1..((1 + N) - 2 + 1) : body[i] = quoted[2 + i - 1]
  <2>1. 2 \in Int /\ 1 + N \in Int
    BY <1>1
  <2> QED BY <1>4, <1>5, <2>1, SubSeqProperties DEF Codes
<1> HIDE DEF body
<1>7. Len(body) = N
  BY <1>1, <1>6
<1>8. ASSUME NEW i \in 1..N PROVE body[i] = out[i]
  <2>1. /\ i \in 1..((1 + N) - 2 + 1) /\ 2 + i - 1 = i + 1 /\ i + 1 \in 1..(1 + N + 1)
        /\ i + 1 <= 1 + N /\ i + 1 \in 1..(1 + N) /\ ~(i + 1 <= 1) /\ (i + 1) - 1 = i
    BY <1>1
  <2> QED BY <1>2, <1>3, <1>6, <2>1
<1>9. body = out
  BY <1>6, <1>7, <1>8, SeqEqual DEF Codes, N
<1> QED BY <1>9 DEF body, quoted, u, q

\* What a rejection says of a value can be read back.
LEMMA Quoting ==
  ASSUME text \in Text
  PROVE  QuoteIsReversible
<1> DEFINE quoted == go_quote(text)
           body == SubSeq(quoted, 2, Len(quoted) - 1)
<1>1. PICK out : /\ Reads(out, text) /\ Within(out, Visible)
                 /\ quoted = <<Quote>> \o out \o <<Quote>>
  BY QuoteBack
<1>2. out \in Codes
  BY <1>1 DEF Reads
<1>3. body = out
  BY <1>1, <1>2, QuotedBody
<1>4. Unescape(body) = text
  BY <1>1, <1>3, ReadsAll
<1>5. \A i \in DOMAIN body : body[i] >= 32 /\ body[i] # 127
  <2> HIDE DEF body
  <2>1. DOMAIN body = 1..Len(body)
    BY <1>2, <1>3 DEF Codes
  <2>2. Within(body, Visible)
    BY <1>1, <1>3
  <2>3. \A c \in Visible : c >= 32 /\ c # 127
    BY DEF Visible
  <2>4. \A i \in 1..Len(body) : body[i] \in Visible
    BY <2>2 DEF Within
  <2> QED BY <2>1, <2>3, <2>4
<1> QED BY <1>4, <1>5, Zenon DEF QuoteIsReversible

-------------------------------------------------------------------------------
(* Escaping a log line *)

LEMMA EscapeIsRead ==
  ASSUME NEW b \in Byte
  PROVE  ReadAs(EscapeByte(b), <<b>>) /\ Within(EscapeByte(b), PrintableAscii)
<1>1. b \in Nat /\ b < 256 /\ <<b>> \in Codes
  BY DEF Byte, Codes
<1>2. /\ ControlLetters[10] = 110 /\ ControlLetters[13] = 114 /\ ControlLetters[9] = 116
      /\ 10 \in 7..13 /\ 13 \in 7..13 /\ 9 \in 7..13
  BY DEF ControlLetters
<1>3. /\ Backslash \in PrintableAscii /\ 110 \in PrintableAscii /\ 114 \in PrintableAscii
      /\ 116 \in PrintableAscii /\ PrintableAscii \subseteq Nat
  BY DEF PrintableAscii, Backslash
<1>4. CASE b = Backslash
  <2>1. EscapeByte(b) = <<Backslash, Backslash>>
    BY <1>4 DEF EscapeByte, Backslash, Newline, Return
  <2>2. ReadAs(<<Backslash, Backslash>>, <<b>>)
    BY <1>1, <1>4, LetterRead
  <2> QED BY <1>3, <2>1, <2>2, LetterWithin
<1>5. CASE b = 10
  <2>1. EscapeByte(b) = <<Backslash, 110>>
    BY <1>5 DEF EscapeByte, Backslash, Newline, Return
  <2>2. ReadAs(<<Backslash, 110>>, <<b>>)
    BY <1>1, <1>2, <1>5, LetterRead
  <2> QED BY <1>3, <2>1, <2>2, LetterWithin
<1>6. CASE b = 13
  <2>1. EscapeByte(b) = <<Backslash, 114>>
    BY <1>6 DEF EscapeByte, Backslash, Newline, Return
  <2>2. ReadAs(<<Backslash, 114>>, <<b>>)
    BY <1>1, <1>2, <1>6, LetterRead
  <2> QED BY <1>3, <2>1, <2>2, LetterWithin
<1>7. CASE b = 9
  <2>1. EscapeByte(b) = <<Backslash, 116>>
    BY <1>7 DEF EscapeByte, Backslash, Newline, Return
  <2>2. ReadAs(<<Backslash, 116>>, <<b>>)
    BY <1>1, <1>2, <1>7, LetterRead
  <2> QED BY <1>3, <2>1, <2>2, LetterWithin
<1>8. CASE b \in 32..126 /\ b # Backslash
  <2>1. EscapeByte(b) = <<b>>
    BY <1>8 DEF EscapeByte, Backslash, Newline, Return
  <2>2. EncodeRune(b) = <<b>>
    BY <1>1, <1>8, Ascii
  <2>3. ReadAs(<<b>>, <<b>>)
    BY <1>1, <1>8, <2>2, PlainRead
  <2> QED BY <1>8, <2>1, <2>3, OneWithin DEF PrintableAscii
<1>9. CASE b # Backslash /\ b # 10 /\ b # 13 /\ b # 9 /\ b \notin 32..126
  <2>1. EscapeByte(b) = <<Backslash, 120>> \o Hex(b, 2)
    BY <1>9 DEF EscapeByte, Newline, Return
  <2>2. DigitEscape(120, 2, b, <<b>>)
    BY <1>1 DEF DigitEscape
  <2> QED BY <1>1, <2>1, <2>2, HexWithin
<1> QED BY <1>4, <1>5, <1>6, <1>7, <1>8, <1>9

LEMMA EscapeBack ==
  ASSUME NEW t \in Text
  PROVE  Reads(escape_for_log_line(t), t) /\ Within(escape_for_log_line(t), PrintableAscii)
<1> DEFINE N == Len(t)
           Push(out, i) == out \o EscapeByte(t[i])
           turn == [p \in Codes \X (1..N) |-> Push(p[1], p[2])]
           f == CHOOSE g : g = [k \in 0..N |-> IF k = 0 THEN <<>> ELSE Push(g[k - 1], k)]
<1>1. N \in Nat /\ <<>> \in Codes /\ Len(<<>>) = 0 /\ \A i \in 1..N : t[i] \in Byte
  BY DEF Codes, Text
<1>2. ASSUME NEW out \in Codes, NEW i \in 1..N PROVE Push(out, i) \in Codes
  <2>1. EscapeByte(t[i]) \in Codes
    BY <1>1, EscapeIsRead DEF ReadAs
  <2> QED BY <2>1, JoinedCodes
<1>3. turn \in Turns(Codes, N)
  <2> HIDE DEF Push, N
  <2> QED BY <1>2 DEF Turns
<1>4. \E g : g = [k \in 0..N |-> IF k = 0 THEN <<>> ELSE Push(g[k - 1], k)]
  <2>1. PICK g \in [0..N -> Codes] :
               g = [k \in 0..N |-> IF k = 0 THEN <<>> ELSE turn[<<g[k - 1], k>>]]
    <3> HIDE DEF turn, N
    <3>1. PICK g : IsLoop(g, Codes, N, <<>>, turn)
      BY <1>1, <1>3, LoopExists
    <3> QED BY <3>1 DEF IsLoop
  <2>2. \A k \in 0..N : k # 0 => turn[<<g[k - 1], k>>] = Push(g[k - 1], k)
    <3> TAKE k \in 0..N
    <3> HAVE k # 0
    <3>1. <<g[k - 1], k>> \in Codes \X (1..N)
      BY <1>1
    <3> HIDE DEF Push
    <3> QED BY <3>1
  <2> HIDE DEF turn, Push
  <2> QED BY <2>1, <2>2
<1>5. f = [k \in 0..N |-> IF k = 0 THEN <<>> ELSE Push(f[k - 1], k)]
  <2> HIDE DEF Push, N
  <2> QED BY <1>4, Zenon
<1>6. escape_for_log_line(t) = f[N]
  BY Zenon DEF escape_for_log_line, Loop
<1> HIDE DEF f
<1>7. f[0] = <<>> /\ \A k \in 1..N : f[k] = Push(f[k - 1], k)
  <2> HIDE DEF Push
  <2> QED BY <1>1, <1>5
<1> DEFINE Ok(k) == Reads(f[k], SubSeq(t, 1, k)) /\ Within(f[k], PrintableAscii)
           G == {k \in 0..N : Ok(k)}
<1>8. 0 \in G
  <2>1. SubSeq(t, 1, 0) = <<>>
    BY SubSeqEmpty DEF Text
  <2>2. Within(<<>>, PrintableAscii)
    BY <1>1 DEF Within
  <2>3. Ok(0)
    BY <1>7, <2>1, <2>2, ReadsNothing, Zenon
  <2> HIDE DEF Ok
  <2> QED BY <1>1, <2>3
<1>9. ASSUME NEW k \in 1..N, k - 1 \in G PROVE k \in G
  <2> DEFINE p == SubSeq(t, 1, k - 1)
             e == EscapeByte(t[k])
  <2>1. Reads(f[k - 1], p) /\ Within(f[k - 1], PrintableAscii) /\ f[k] = f[k - 1] \o e
    BY <1>7, <1>9
  <2>2. ReadAs(e, <<t[k]>>) /\ Within(e, PrintableAscii)
    BY <1>1, EscapeIsRead
  <2> HIDE DEF p, e
  <2>3. Reads(f[k], p \o <<t[k]>>)
    BY <2>1, <2>2, ReadsOn
  <2>4. Within(f[k], PrintableAscii)
    <3>1. f[k - 1] \in Codes /\ e \in Codes
      BY <2>1, <2>2 DEF Reads, ReadAs
    <3> QED BY <2>1, <2>2, <3>1, BothWithin
  <2>5. p \o <<t[k]>> = SubSeq(t, 1, k)
    <3>1. 1 \in 1..Len(t) /\ k \in 1..Len(t)
      BY <1>1
    <3> QED BY <3>1, SubSeqRecursiveSecond DEF p, Text
  <2>6. Ok(k)
    BY <2>3, <2>4, <2>5, Zenon
  <2> HIDE DEF Ok
  <2> QED BY <1>1, <2>6
<1>10. N \in G
  <2> HIDE DEF G
  <2> QED BY <1>1, <1>8, <1>9, Induction
<1>11. SubSeq(t, 1, N) = t
  BY SubSeqFull DEF Text
<1> QED BY <1>6, <1>10, <1>11

LEMMA CStringIsText ==
  ASSUME NEW t \in Text
  PROVE  CString(t) \in Text
<1> DEFINE I == {i \in 1..Len(t) : t[i] = Nul}
<1>1. Len(t) \in Nat /\ DOMAIN t = 1..Len(t) /\ I \subseteq Nat
  BY DEF Text
<1>2. CASE Nul \in Range(t)
  <2>1. I # {}
    BY <1>1, <1>2 DEF Range
  <2>2. Min(I) \in I /\ \A i \in I : Min(I) <= i
    <3> HIDE DEF I
    <3> QED BY <1>1, <2>1, MinIsLeast
  <2> DEFINE n == Min(I) - 1
  <2>3. n \in 0..Len(t) /\ n < Len(t) /\ n + 1 = Min(I)
    <3>1. Min(I) \in 1..Len(t)
      BY <2>2
    <3> HIDE DEF I
    <3> QED BY <1>1, <3>1
  <2>4. t[n + 1] = Nul
    BY <2>2, <2>3
  <2>5. \A i \in 1..n : t[i] # Nul
    <3> TAKE i \in 1..n
    <3>1. i \in 1..Len(t) /\ ~(Min(I) <= i)
      <4> HIDE DEF I
      <4> QED BY <1>1, <2>3
    <3> QED BY <2>2, <3>1
  <2> HIDE DEF n
  <2>6. CString(t) = SubSeq(t, 1, n)
    BY <2>3, <2>4, <2>5, FirstNul
  <2>7. 1 \in 1..(Len(t) + 1)
    BY <1>1
  <2> QED BY <2>3, <2>6, <2>7, Stretch
<1>3. CASE Nul \notin Range(t)
  BY <1>3, FirstNul
<1> QED BY <1>2, <1>3

\* Every level but "debug" is enabled.
LEMMA LogLevels ==
  ASSUME NEW raw \in -1..8
  PROVE  enabled(syslog_level(syslog_from_raw(raw))) <=> raw # 7
<1>1. CASE raw \in {-1, 8}
  <2>1. syslog_from_raw(raw) = "info"
    BY <1>1 DEF syslog_from_raw
  <2>2. syslog_level("info") = 0
    BY DEF syslog_level, INFO
  <2> QED BY <1>1, <2>1, <2>2 DEF enabled, MIN_LEVEL, INFO
<1>2. CASE raw \in {0, 1, 2, 3}
  <2>1. syslog_from_raw(raw) \in {"emerg", "alert", "crit", "err"}
    BY <1>2 DEF syslog_from_raw, SyslogNames
  <2>2. syslog_level(syslog_from_raw(raw)) = 8
    BY <2>1 DEF syslog_level, ERROR
  <2> QED BY <1>2, <2>2 DEF enabled, MIN_LEVEL, INFO
<1>3. CASE raw = 4
  <2>1. syslog_from_raw(raw) = "warning"
    BY <1>3 DEF syslog_from_raw, SyslogNames
  <2>2. syslog_level("warning") = 4
    BY DEF syslog_level, WARN
  <2> QED BY <1>3, <2>1, <2>2 DEF enabled, MIN_LEVEL, INFO
<1>4. CASE raw \in {5, 6}
  <2>1. syslog_from_raw(raw) \in {"notice", "info"}
    BY <1>4 DEF syslog_from_raw, SyslogNames
  <2>2. syslog_level(syslog_from_raw(raw)) = 0
    BY <2>1 DEF syslog_level, INFO
  <2> QED BY <1>4, <2>2 DEF enabled, MIN_LEVEL, INFO
<1>5. CASE raw = 7
  <2>1. syslog_from_raw(raw) = "debug"
    BY <1>5 DEF syslog_from_raw, SyslogNames
  <2>2. syslog_level("debug") = -4
    BY DEF syslog_level, DEBUG
  <2> QED BY <1>5, <2>1, <2>2 DEF enabled, MIN_LEVEL, INFO
<1> QED BY <1>1, <1>2, <1>3, <1>4, <1>5

\* What go_log writes of a message can be read back.
LEMMA Logging ==
  ASSUME text \in Text
  PROVE  LogLineIsReversible
<1> DEFINE seen == CString(text)
           message == escape_for_log_line(seen)
<1>1. Unescape(message) = seen /\ Within(message, PrintableAscii) /\ message \in Codes
  <2>1. seen \in Text
    BY CStringIsText
  <2> HIDE DEF seen
  <2>2. Reads(message, seen) /\ Within(message, PrintableAscii)
    BY <2>1, EscapeBack
  <2> QED BY <2>2, ReadsAll DEF Reads
<1> HIDE DEF seen, message
<1>2. Range(message) \subseteq 32..126
  <2>1. DOMAIN message = 1..Len(message)
    BY <1>1 DEF Codes
  <2>2. \A i \in 1..Len(message) : message[i] \in 32..126
    BY <1>1 DEF Within, PrintableAscii
  <2> QED BY <2>1, <2>2, Zenon DEF Range
<1>3. ASSUME NEW raw \in -1..8
      PROVE  LET lines == go_log(text, raw)
             IN  /\ lines = <<>> <=> raw = 7
                 /\ \A line \in Range(lines) : /\ Range(line.message) \subseteq 32..126
                                               /\ Unescape(line.message) = seen
  <2> DEFINE name == syslog_from_raw(raw)
             line0 == [level |-> syslog_level(name), message |-> message, syslog_level |-> name]
  <2>1. go_log(text, raw) = IF enabled(syslog_level(name)) THEN <<line0>> ELSE <<>>
    BY Zenon DEF go_log, message, seen
  <2>2. line0.message = message
    OBVIOUS
  <2>3. enabled(syslog_level(name)) <=> raw # 7
    BY LogLevels
  <2> HIDE DEF name, line0
  <2>4. Range(<<line0>>) = {line0} /\ Range(<<>>) = {} /\ <<line0>> # <<>>
    BY DEF Range
  <2> QED BY <1>1, <1>2, <2>1, <2>2, <2>3, <2>4, Zenon
<1> QED BY <1>3, Zenon DEF LogLineIsReversible, seen

-------------------------------------------------------------------------------
(* The print tables *)

\* The search finds how many entries are below the needle; they come first.
LEMMA Partition ==
  ASSUME NEW T, IsTable(T), NEW r \in Nat
  PROVE  LET n == PartitionPoint(T, r)
         IN  /\ n \in 0..Len(T) /\ \A i \in 1..n : T[i] < r
             /\ \A i \in (n + 1)..Len(T) : T[i] >= r
<1> DEFINE L == Len(T)
           A == {i \in DOMAIN T : T[i] < r}
           B == {i \in 1..L : ~(T[i] < r)}
<1>1. L \in Nat /\ DOMAIN T = 1..L /\ \A i \in 1..L : T[i] \in Nat
  BY DEF IsTable
<1>2. \E m \in 0..L : A = 1..m
  <2>1. CASE B = {}
    <3>1. A = 1..L
      BY <1>1, <2>1
    <3>2. L \in 0..L
      BY <1>1
    <3> QED BY <3>1, <3>2
  <2>2. CASE B # {}
    <3> DEFINE b == Min(B)
    <3>1. b \in B /\ \A i \in B : b <= i
      <4>1. B \subseteq Nat
        OBVIOUS
      <4> HIDE DEF B
      <4> QED BY <2>2, <4>1, MinIsLeast
    <3> HIDE DEF b
    <3>2. b \in 1..L /\ ~(T[b] < r)
      BY <3>1
    <3>3. ASSUME NEW i \in 1..L PROVE T[i] < r <=> i \in 1..(b - 1)
      <4>1. CASE i < b
        <5>1. i \notin B
          <6> HIDE DEF B
          <6> QED BY <3>1, <3>2, <4>1
        <5>2. i \in 1..(b - 1)
          BY <3>2, <4>1
        <5> QED BY <5>1, <5>2
      <4>2. CASE i = b
        BY <3>2, <4>2
      <4>3. CASE i > b
        <5>1. T[b] <= T[i]
          BY <1>1, <3>2, <4>3 DEF IsTable
        <5>2. ~(T[i] < r)
          BY <1>1, <3>2, <5>1
        <5> QED BY <3>2, <4>3, <5>2
      <4> QED BY <3>2, <4>1, <4>2, <4>3
    <3>4. A = 1..(b - 1)
      <4>1. 1..(b - 1) \subseteq 1..L
        BY <1>1, <3>2
      <4> QED BY <1>1, <3>3, <4>1
    <3>5. b - 1 \in 0..L
      BY <1>1, <3>2
    <3> QED BY <3>4, <3>5
  <2> QED BY <2>1, <2>2
<1>3. PICK m \in 0..L : A = 1..m
  BY <1>2
<1>4. PartitionPoint(T, r) = m
  <2>1. Cardinality(1..m) = m
    <3>1. 1 \in Int /\ m \in Int /\ Cardinality(1..m) = IF 1 > m THEN 0 ELSE m - 1 + 1
      BY <1>1, FS_Interval
    <3> QED BY <1>1, <3>1
  <2> QED BY <1>3, <2>1 DEF PartitionPoint
<1>5. \A i \in 1..m : T[i] < r
  BY <1>3
<1>6. ASSUME NEW i \in (m + 1)..L PROVE T[i] >= r
  <2>1. i \in 1..L /\ i \notin 1..m
    BY <1>1
  <2>2. ~(T[i] < r)
    BY <1>1, <1>3, <2>1
  <2> QED BY <1>1, <2>1, <2>2
<1> QED BY <1>4, <1>5, <1>6

InPair(T, i, r) == i \in DOMAIN T /\ i % 2 = 1 /\ T[i] <= r /\ r <= T[i + 1]

\* The probe finds a pair exactly when one holds the needle.
LEMMA Pairs ==
  ASSUME NEW T, IsTable(T), Len(T) % 2 = 0, NEW r \in Nat
  PROVE  InPairAt(T, PartitionPoint(T, r), r) <=> \E i : InPair(T, i, r)
<1> DEFINE L == Len(T)
           n == PartitionPoint(T, r)
           i0 == n - (n % 2) + 1
<1>1. L \in Nat /\ DOMAIN T = 1..L /\ \A i \in 1..L : T[i] \in Nat
  BY DEF IsTable
<1>2. n \in 0..L /\ (\A i \in 1..n : T[i] < r) /\ \A i \in (n + 1)..L : T[i] >= r
  BY Partition
<1> HIDE DEF n
<1>3. n \in Nat /\ (n % 2 = 0 \/ n % 2 = 1) /\ L % 2 = 0
  BY <1>1, <1>2
<1>4. InPairAt(T, n, r) <=> n < L /\ T[i0] <= r /\ r <= T[i0 + 1]
  <2>1. n - (n % 2) + 2 = i0 + 1
    BY <1>3
  <2> HIDE DEF i0
  <2>2. InPairAt(T, n, r) <=> n < L /\ T[n - (n % 2) + 1] <= r /\ r <= T[n - (n % 2) + 2]
    BY DEF InPairAt
  <2> QED BY <2>1, <2>2 DEF i0
<1>5. ASSUME n < L, T[i0] <= r, r <= T[i0 + 1] PROVE InPair(T, i0, r)
  <2>1. i0 \in 1..L /\ i0 % 2 = 1
    BY <1>1, <1>3, <1>5
  <2> HIDE DEF i0
  <2> QED BY <1>1, <1>5, <2>1 DEF InPair
<1>6. ASSUME NEW i, InPair(T, i, r) PROVE n < L /\ T[i0] <= r /\ r <= T[i0 + 1]
  <2>1. i \in 1..L /\ i % 2 = 1 /\ T[i] <= r /\ r <= T[i + 1]
    BY <1>1, <1>6 DEF InPair
  <2>2. i + 1 \in 1..L
    BY <1>1, <1>3, <2>1
  <2>3. ~(i + 1 \in 1..n)
    <3>1. ASSUME i + 1 \in 1..n PROVE FALSE
      <4>1. T[i + 1] < r
        BY <1>2, <3>1
      <4>2. T[i + 1] \in Nat
        BY <1>1, <2>2
      <4> QED BY <2>1, <4>1, <4>2
    <3> QED BY <3>1
  <2>4. n <= i /\ n < L
    BY <1>1, <1>3, <2>1, <2>2, <2>3
  <2>5. CASE n % 2 = 0
    <3>1. i0 = n + 1 /\ n + 1 \in 1..L /\ n + 1 <= i /\ i0 + 1 = n + 2 /\ n + 2 \in (n + 1)..L
      BY <1>1, <1>3, <2>1, <2>4, <2>5
    <3>2. T[n + 1] <= T[i]
      <4>1. CASE n + 1 = i
        BY <1>1, <3>1, <4>1
      <4>2. CASE n + 1 < i
        BY <1>1, <2>1, <3>1, <4>2 DEF IsTable
      <4> QED BY <1>3, <2>1, <3>1, <4>1, <4>2
    <3>3. T[n + 1] <= r
      <4>1. T[n + 1] \in Nat /\ T[i] \in Nat
        BY <1>1, <2>1, <3>1
      <4> QED BY <2>1, <3>2, <4>1
    <3>4. r <= T[n + 2]
      <4>1. T[n + 2] \in Nat /\ T[n + 2] >= r
        BY <1>1, <1>2, <1>3, <3>1
      <4> QED BY <4>1
    <3> QED BY <2>4, <3>1, <3>3, <3>4
  <2>6. CASE n % 2 = 1
    <3>1. i0 = n /\ n \in 1..n /\ n \in 1..L /\ i0 + 1 = n + 1 /\ n + 1 \in (n + 1)..L /\ n + 1 \in 1..L
      BY <1>1, <1>3, <2>4, <2>6
    <3>2. T[n] < r /\ T[n] \in Nat
      BY <1>1, <1>2, <3>1
    <3>3. T[n + 1] >= r /\ T[n + 1] \in Nat
      BY <1>1, <1>2, <3>1
    <3>4. T[n] <= r /\ r <= T[n + 1]
      BY <3>2, <3>3
    <3> QED BY <2>4, <3>1, <3>4
  <2> QED BY <1>3, <2>5, <2>6
<1> HIDE DEF i0
<1>7. InPairAt(T, n, r) <=> \E i : InPair(T, i, r)
  BY <1>4, <1>5, <1>6
<1> QED BY <1>7 DEF n

LEMMA PrefixEntries ==
  ASSUME NEW s \in Codes, NEW T \in Codes, IsPrefix(s, T)
  PROVE  Len(s) <= Len(T) /\ \A i \in 1..Len(s) : T[i] = s[i]
<1>1. Len(s) \in Nat /\ Len(T) \in Nat /\ Len(s) <= Len(T)
  BY DEF IsPrefix, Codes
<1>2. SubSeq(s, 1, Len(s)) = s
  BY SubSeqFull DEF Codes
<1>3. SubSeq(T, 1, Len(s)) = s
  BY <1>2 DEF IsPrefix
<1>4. \A i \in 1..Len(s) : T[i] \in Nat
  BY <1>1 DEF Codes
<1>5. \A i \in 1..(Len(s) - 1 + 1) : SubSeq(T, 1, Len(s))[i] = T[1 + i - 1]
  BY <1>1, <1>4, SubSeqProperties
<1>6. ASSUME NEW i \in 1..Len(s) PROVE T[i] = s[i]
  <2>1. i \in 1..(Len(s) - 1 + 1) /\ 1 + i - 1 = i
    BY <1>1
  <2> QED BY <1>3, <1>5, <2>1
<1> QED BY <1>1, <1>6

LEMMA TableEntries ==
  ASSUME NEW T, IsTable(T)
  PROVE  /\ T \in Codes /\ Len(T) \in Nat /\ DOMAIN T = 1..Len(T)
         /\ \A i \in 1..Len(T) : T[i] \in Nat
         /\ \A i, j \in 1..Len(T) : i < j => T[i] <= T[j]
BY DEF IsTable, Codes

LEMMA PrintTables ==
  /\ IsTable(GO_IS_PRINT_16) /\ IsTable(GO_IS_PRINT_32) /\ IsTable(GO_IS_NOT_PRINT_16)
  /\ Len(GO_IS_PRINT_16) % 2 = 0 /\ Len(GO_IS_PRINT_32) % 2 = 0
BY PrintTableAssumption, Zenon

LEMMA FirstEntries ==
  /\ Len(GO_IS_PRINT_16) >= 4 /\ Len(GO_IS_NOT_PRINT_16) >= 2
  /\ GO_IS_PRINT_16[1] = 32 /\ GO_IS_PRINT_16[2] = 126
  /\ GO_IS_PRINT_16[3] = 161 /\ GO_IS_PRINT_16[4] = 887
  /\ GO_IS_NOT_PRINT_16[1] = 173 /\ GO_IS_NOT_PRINT_16[2] = 907
<1> DEFINE T == GO_IS_PRINT_16
           holes == GO_IS_NOT_PRINT_16
           a == FirstPairs
           b == FirstHoles
<1>1. T \in Codes /\ holes \in Codes /\ Len(T) \in Nat /\ Len(holes) \in Nat
  BY PrintTables, TableEntries
<1>2. IsPrefix(a, T) /\ IsPrefix(b, holes)
  BY PrintTableAssumption, Zenon
<1>3. /\ a \in Codes /\ Len(a) = 4 /\ a[1] = 32 /\ a[2] = 126 /\ a[3] = 161 /\ a[4] = 887
      /\ b \in Codes /\ Len(b) = 2 /\ b[1] = 173 /\ b[2] = 907
  BY SMT DEF Codes, FirstPairs, FirstHoles
<1> HIDE DEF T, holes, a, b
<1>4. Len(a) <= Len(T) /\ \A i \in 1..Len(a) : T[i] = a[i]
  <2>1. a \in Codes
    BY <1>3, SMT
  <2> QED BY <1>1, <1>2, <2>1, PrefixEntries
<1>5. Len(b) <= Len(holes) /\ \A i \in 1..Len(b) : holes[i] = b[i]
  <2>1. b \in Codes
    BY <1>3, SMT
  <2> QED BY <1>1, <1>2, <2>1, PrefixEntries
<1>6. /\ Len(T) >= 4 /\ T[1] = 32 /\ T[2] = 126 /\ T[3] = 161 /\ T[4] = 887
  BY <1>1, <1>3, <1>4, SMT
<1>7. Len(holes) >= 2 /\ holes[1] = 173 /\ holes[2] = 907
  BY <1>1, <1>3, <1>5, SMT
<1> QED BY <1>6, <1>7 DEF T, holes

\* The reference, pair by pair.
LEMMA Reference ==
  ASSUME NEW r \in Nat
  PROVE  /\ FirstPlane(r) => (Printable(r) <=> /\ \E i : InPair(GO_IS_PRINT_16, i, r)
                                               /\ r \notin Range(GO_IS_NOT_PRINT_16))
         /\ ~FirstPlane(r) => (Printable(r) <=> /\ \E i : InPair(GO_IS_PRINT_32, i, r)
                                                /\ ~IsHole32(r))
<1> DEFINE holes32 == {65536 + h : h \in Range(GO_IS_NOT_PRINT_32)}
           Held(T) == \E i \in {i \in DOMAIN T : i % 2 = 1} : r \in T[i]..T[i + 1]
<1>1. r \in holes32 <=> IsHole32(r)
  <2> DEFINE H == Range(GO_IS_NOT_PRINT_32)
  <2>1. H \subseteq U16
    BY PrintTableAssumption, Zenon
  <2> HIDE DEF H
  <2>2. IsHole32(r) <=> r < 131072 /\ r - 65536 \in H
    BY SMT DEF IsHole32, H
  <2>3. r \in holes32 <=> \E h \in H : r = 65536 + h
    BY SMT DEF H
  <2>4. \A h \in U16 : h \in Nat /\ h < 65536
    BY SMT DEF U16
  <2>5. ASSUME NEW h \in H, r = 65536 + h PROVE r < 131072 /\ r - 65536 \in H
    <3>1. h \in Nat /\ h < 65536
      BY <2>1, <2>4, SMT
    <3>2. r < 131072 /\ r - 65536 = h
      BY <2>5, <3>1, SMT
    <3> QED BY <3>2, SMT
  <2>6. r - 65536 \in H => r = 65536 + (r - 65536)
    BY SMT
  <2> HIDE DEF holes32
  <2> QED BY <2>2, <2>3, <2>5, <2>6, SMT
<1>2. ASSUME NEW T, IsTable(T), Len(T) % 2 = 0 PROVE Held(T) <=> \E i : InPair(T, i, r)
  <2>1. Len(T) \in Nat /\ DOMAIN T = 1..Len(T) /\ \A i \in 1..Len(T) : T[i] \in Nat
    BY <1>2, TableEntries
  <2>2. ASSUME NEW i \in DOMAIN T, i % 2 = 1
        PROVE  r \in T[i]..T[i + 1] <=> T[i] <= r /\ r <= T[i + 1]
    <3>1. i + 1 \in 1..Len(T) /\ i \in 1..Len(T)
      BY <1>2, <2>1, <2>2
    <3>2. T[i] \in Nat /\ T[i + 1] \in Nat
      BY <2>1, <3>1
    <3> QED BY <3>2
  <2> QED BY <2>2 DEF InPair
<1> HIDE DEF holes32, Held
<1>3. FirstPlane(r) => (Printable(r) <=> Held(GO_IS_PRINT_16) /\ r \notin Range(GO_IS_NOT_PRINT_16))
  BY DEF Printable, Held
<1>4. ~FirstPlane(r) => (Printable(r) <=> Held(GO_IS_PRINT_32) /\ r \notin holes32)
  BY SMT DEF Printable, Held, holes32
<1> QED BY <1>1, <1>2, <1>3, <1>4, PrintTables, SMT

LEMMA PrintAgrees ==
  ASSUME NEW r \in Nat
  PROVE  go_is_print(r) <=> Printable(r)
<1> DEFINE T == GO_IS_PRINT_16
           holes == GO_IS_NOT_PRINT_16
<1>1. CASE ~FirstPlane(r)
  <2>1. go_is_print(r) <=> /\ InPairAt(GO_IS_PRINT_32, PartitionPoint(GO_IS_PRINT_32, r), r)
                           /\ ~IsHole32(r)
    BY <1>1, IsPrint
  <2>2. InPairAt(GO_IS_PRINT_32, PartitionPoint(GO_IS_PRINT_32, r), r)
          <=> \E i : InPair(GO_IS_PRINT_32, i, r)
    BY PrintTables, Pairs
  <2>3. Printable(r) <=> (\E i : InPair(GO_IS_PRINT_32, i, r)) /\ ~IsHole32(r)
    BY <1>1, Reference
  <2> QED BY <2>1, <2>2, <2>3, Zenon
<1>2. CASE FirstPlane(r) /\ r > 255
  <2>1. go_is_print(r) <=> InPairAt(T, PartitionPoint(T, r), r) /\ r \notin Range(holes)
    BY <1>2, IsPrint
  <2>2. InPairAt(T, PartitionPoint(T, r), r) <=> \E i : InPair(T, i, r)
    BY PrintTables, Pairs
  <2>3. Printable(r) <=> (\E i : InPair(T, i, r)) /\ r \notin Range(holes)
    BY <1>2, Reference
  <2> QED BY <2>1, <2>2, <2>3, Zenon
<1>3. CASE ~(r > 255)
  <2>1. r <= 255 /\ FirstPlane(r)
    BY <1>3, SMT DEF FirstPlane
  <2>2. go_is_print(r) = IsPrintLatin(r)
    BY <2>1, IsPrint
  <2>3. Printable(r) <=> (\E i : InPair(T, i, r)) /\ r \notin Range(holes)
    BY <2>1, Reference
  <2>4. /\ Len(T) \in Nat /\ DOMAIN T = 1..Len(T) /\ \A i \in 1..Len(T) : T[i] \in Nat
        /\ Len(holes) \in Nat /\ DOMAIN holes = 1..Len(holes) /\ \A i \in 1..Len(holes) : holes[i] \in Nat
    BY PrintTables, TableEntries
  <2>5. (\E i : InPair(T, i, r)) <=> r \in 32..126 \/ r \in 161..255
    <3>1. 1 % 2 = 1 /\ 3 % 2 = 1 /\ 1 \in DOMAIN T /\ 3 \in DOMAIN T
      BY <2>4, FirstEntries
    <3>2. r \in 32..126 => InPair(T, 1, r)
      BY <3>1, FirstEntries DEF InPair
    <3>3. r \in 161..255 => InPair(T, 3, r)
      BY <3>1, FirstEntries DEF InPair
    <3>4. ASSUME NEW i, InPair(T, i, r) PROVE r \in 32..126 \/ r \in 161..255
      <4>1. i \in 1..Len(T) /\ i % 2 = 1 /\ T[i] <= r /\ r <= T[i + 1]
        BY <2>4, <3>4 DEF InPair
      <4>2. CASE i > 4
        <5>1. 4 \in 1..Len(T)
          BY <2>4, FirstEntries
        <5>2. T[4] <= T[i]
          BY <4>1, <4>2, <5>1, PrintTables, TableEntries
        <5>3. T[4] = 887 /\ T[i] \in Nat
          BY <2>4, <4>1, FirstEntries
        <5> QED BY <2>1, <4>1, <5>2, <5>3
      <4>3. CASE ~(i > 4)
        <5>1. i = 1 \/ i = 3
          BY <4>1, <4>3
        <5>2. T[1] = 32 /\ T[1 + 1] = 126 /\ T[3] = 161
          BY FirstEntries
        <5>3. CASE i = 1
          BY <4>1, <5>2, <5>3
        <5>4. CASE i = 3
          BY <2>1, <4>1, <5>2, <5>4
        <5> QED BY <5>1, <5>3, <5>4
      <4> QED BY <4>2, <4>3
    <3> QED BY <3>2, <3>3, <3>4
  <2>6. r \in Range(holes) <=> r = 173
    <3>1. 1 \in 1..Len(holes) /\ 2 \in 1..Len(holes)
      BY <2>4, FirstEntries
    <3>2. holes[1] = 173 /\ holes[2] = 907
      BY FirstEntries
    <3>3. 173 \in Range(holes)
      BY <2>4, <3>1, <3>2 DEF Range
    <3>4. ASSUME NEW i \in 1..Len(holes), holes[i] = r PROVE r = 173
      <4>1. CASE i > 2
        <5>1. holes[2] <= holes[i]
          BY <3>1, <4>1, PrintTables, TableEntries
        <5> QED BY <2>1, <3>2, <3>4, <5>1
      <4>2. CASE ~(i > 2)
        <5>1. i = 1 \/ i = 2
          BY <4>2
        <5> QED BY <2>1, <3>2, <3>4, <5>1
      <4> QED BY <4>1, <4>2
    <3> QED BY <2>4, <3>3, <3>4 DEF Range
  <2>7. IsPrintLatin(r) <=> (r \in 32..126 \/ r \in 161..255) /\ r # 173
    BY DEF IsPrintLatin
  <2> QED BY <2>2, <2>3, <2>5, <2>6, <2>7, Zenon
<1> QED BY <1>1, <1>2, <1>3

LEMMA PrintSearch ==
  ASSUME text \in Text
  PROVE  PrintableIsInTheTable
<1> DEFINE w == RuneWidth(text)
           r == Rune(SubSeq(text, 1, w))
<1>1. ASSUME w # 0 PROVE go_is_print(r) <=> Printable(r)
  <2>1. w \in 1..4 /\ w <= Len(text) /\ r >= 0
    BY <1>1, Width
  <2>2. w \in 1..Len(text)
    BY <2>1 DEF Text
  <2>3. SubSeq(text, 1, w) \in Text /\ Len(SubSeq(text, 1, w)) = w
    BY <2>2, Halves
  <2>4. r \in Nat
    <3>1. r \in Runes
      BY <2>1, <2>3, RuneBytes
    <3> QED BY <3>1 DEF Runes
  <2> QED BY <2>4, PrintAgrees
<1> QED BY <1>1, Zenon DEF PrintableIsInTheTable

\* A reader of the log or of a rejection gets back what was sent.
LEMMA Logged ==
  ASSUME text \in Text
  PROVE  LoggedTextIsReversible
BY Logging, Quoting, PrintSearch DEF LoggedTextIsReversible
-------------------------------------------------------------------------------
(* Whatever text arrives *)

\* The text is one of bytes, of any length.
LEMMA TextType == TextSpec => [](text \in Text)
<1>1. TextInit => text \in Text
  BY DEF TextInit, Text
<1>2. text \in Text /\ [TextNext]_textVars => (text \in Text)'
  BY DEF TextNext, textVars, ReceiveByte, Text
<1> QED BY <1>1, <1>2, PTL DEF TextSpec

\* Functions written apart in this port agree, on every byte string: the two
\* canonicalisers of a header name (context.rs and cgi.rs), the table of common headers and
\* the mangling, split_host_port and the grammar of an authority, the joint and the
\* separate derivations of the server's name; and no peer address loses a byte.
THEOREM NamesAndAddresses == TextSpec => []NamesAndAddressesAgree
<1>1. ASSUME text \in Text PROVE CanonicalNamesAgree
  <2>1. DOMAIN text = 1..Len(text)
    BY <1>1 DEF Text
  <2> QED BY <1>1, <2>1, NamesAgree DEF CanonicalNamesAgree, ValidName
<1>2. ASSUME text \in Text PROVE OneVariablePerName
  BY <1>2, OneVariable DEF OneVariablePerName
<1>3. ASSUME text \in Text PROVE HostPortIsTheReading
  BY <1>3, HostPortReading, Zenon DEF HostPortIsTheReading
<1>4. ASSUME text \in Text PROVE RemoteAddressIsWhole
  <2> DEFINE r == split_remote_addr(text)
             bracketed == <<OpenBracket>> \o r.ip \o <<CloseBracket>>
  <2>1. /\ \/ text = r.ip \o <<Colon>> \o r.port
           \/ text = bracketed \o <<Colon>> \o r.port
           \/ r.port = <<>> /\ (text = r.ip \/ text = bracketed)
        /\ Colon \notin Range(r.port)
    BY <1>4, RemoteAddress, Zenon
  <2> HIDE DEF r, bracketed
  <2>2. \E ip \in {r.ip, bracketed} : text = ip \o <<Colon>> \o r.port \/ (text = ip /\ r.port = <<>>)
    BY <2>1
  <2> QED BY <2>1, <2>2, Zenon DEF RemoteAddressIsWhole, r, bracketed
<1>5. ASSUME text \in Text PROVE ServerNamesAgree
  BY <1>5, ServerNames DEF ServerNamesAgree
<1>6. text \in Text => NamesAndAddressesAgree
  BY <1>1, <1>2, <1>3, <1>4, <1>5 DEF NamesAndAddressesAgree
<1> QED BY <1>6, TextType, PTL

\* From the target on the wire to the file that PHP opens, for every byte string, every
\* document root, every split list and whatever the extension and the index file are:
\* percent_decode undoes any escaping exactly once; resolve_directory_index appends the
\* index only where it becomes the script; split_cgi_path loses no byte and splits after
\* the first extension; clean_path's loop computes the lexical path; sanitized_path_join
\* stays below its root; and C reads the script's path to its end.
THEOREM Paths == TextSpec => []PathsFindTheirScript
<1>1. ASSUME text \in Text PROVE DecodesOnce
  <2>1. DOMAIN text = 1..Len(text)
    BY <1>1 DEF Text
  <2> QED BY <1>1, <2>1, Decodes DEF DecodesOnce
<1>2. ASSUME text \in Text PROVE IndexIsTheScript
  BY <1>2, IndexFound
<1>3. ASSUME text \in Text PROVE SplitsAtTheScript
  <2> SUFFICES ASSUME NEW raw \in SplitLists, normalize_split_path(raw).ok
               PROVE  LET splits == normalize_split_path(raw)
                          paths == split_cgi_path(<<>>, splits.entries, text)
                          at == Len(paths.doc_uri)
                          earliest == {n \in 0..Len(text) : \E e \in Range(raw) : Ends(text, n, e)}
                      IN  /\ \/ paths.script_name \o paths.path_info = ensure_leading_slash(text)
                             \/ at = 0 /\ paths.path_info = text
                          /\ paths.doc_uri # <<>> => paths.doc_uri \o paths.path_info = text
                          /\ (earliest # {} /\ Len(raw) = 1) => at = Min(earliest)
                          /\ paths.doc_uri # <<>> <=> (raw # <<>> /\ earliest # {})
    BY Zenon DEF SplitsAtTheScript, Ends
  <2>1. raw \in Seq(Text)
    BY SplitListsAssumption DEF Text
  <2> QED BY <1>3, <2>1, SplitFound, Zenon
<1>4. ASSUME text \in Text PROVE CleanIsLexical
  BY <1>4, Cleans DEF CleanIsLexical
<1>5. ASSUME NEW root \in Roots PROVE root \in CText
  <2>1. Byte \ {Nul} = NonNul
    BY DEF Byte, Nul, NonNul
  <2> QED BY <2>1, RootsAssumption DEF CText
<1>6. ASSUME text \in Text PROVE StaysUnderRoot
  <2>1. DotDot \notin Range(Resolved(<<Slash>> \o text))
    BY <1>6, Below
  <2>2. ASSUME NEW root \in Roots PROVE root \in Text
    BY <1>5, TextWithoutNul
  <2> QED BY <1>6, <2>1, <2>2, JoinsUnderRoot DEF StaysUnderRoot
<1>7. ASSUME text \in Text PROVE ScriptPathIsWhole
  BY <1>5, <1>7, WholeName DEF ScriptPathIsWhole, path_is_valid
<1>8. text \in Text => PathsFindTheirScript
  BY <1>1, <1>2, <1>3, <1>4, <1>6, <1>7 DEF PathsFindTheirScript
<1> QED BY <1>8, TextType, PTL

\* What go_log writes and what a rejection quotes can be read back byte by byte, for every
\* message and every value: the line is printable ASCII, the quoted value is printable
\* where Go's tables say so and escaped where they do not, and go_is_print's one probe and
\* its shortcut find what the tables say.
THEOREM LoggedText == TextSpec => []LoggedTextIsReversible
BY Logged, TextType, PTL
===============================================================================
