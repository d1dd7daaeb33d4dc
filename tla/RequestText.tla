----------------------------- MODULE RequestText ------------------------------
(***************************************************************************)
(* Any text of a request, received byte by byte, and what the pure         *)
(* functions of the port make of it.  `kind` says what the bytes are:      *)
(*   "path"    a decoded request path       "escaped"  a path on the wire  *)
(*   "address" a Host value or peer address "name"     a header name       *)
(*   "log"     a message a script logs      "value"    a rejected value    *)
(***************************************************************************)
EXTENDS CgiPaths, CgiHosts, HeaderText, LogText

CONSTANTS Alphabet,   \* [kind -> the bytes its texts are made of]
          MaxText,    \* [kind -> the longest text]
          Roots,      \* document roots, as ServerConfig may hold them
          SplitLists  \* split lists, as WithRequestSplitPath may get them

\* A root comes from the environment, whose strings hold no NUL.
ASSUME RootsAssumption == Roots \subseteq Seq(Byte \ {Nul})
ASSUME SplitListsAssumption == SplitLists \subseteq Seq(Seq(Byte))

VARIABLES kind, text

Kinds == DOMAIN Alphabet

TextInit == kind \in Kinds /\ text = <<>>

\* External: the next byte arrives.
ReceiveByte(b) ==
  /\ kind \in Kinds /\ b \in Alphabet[kind] /\ Len(text) < MaxText[kind]
  /\ text' = Append(text, b)
  /\ UNCHANGED kind

textVars == <<kind, text>>

TextNext == \E b \in Byte : ReceiveByte(b)

TextSpec == TextInit /\ [][TextNext]_textVars
-------------------------------------------------------------------------------
(* Paths *)

IsRooted(t) == t # <<>> /\ Head(t) = Slash

\* A component of the path ends at i, and the component that does.
EndsComponent(t, i) == t[i] # Slash /\ (i = Len(t) \/ t[i + 1] = Slash)
ComponentTo(t, i) == SubSeq(t, Min({j \in 1..i : \A k \in j..i : t[k] # Slash}), i)

\* Reference: "." goes, ".." removes the component before it, and climbs only from a
\* relative path.
Resolve(rooted, kept, c) ==
  CASE c = <<Dot>> -> kept
    [] c = DotDot /\ kept # <<>> /\ Last(kept) # DotDot -> Front(kept)
    [] c = DotDot /\ kept = <<>> /\ rooted -> kept
    [] OTHER -> Append(kept, c)

ResolvedFrom(rooted, t) ==
  Loop(LAMBDA kept, i : IF EndsComponent(t, i) THEN Resolve(rooted, kept, ComponentTo(t, i))
                        ELSE kept,
       <<>>, Len(t))

Resolved(t) == ResolvedFrom(IsRooted(t), t)

\* The path with these components.
Rendered(rooted, kept) ==
  LET joined == JoinWith(kept, <<Slash>>)
  IN  IF rooted THEN <<Slash>> \o joined ELSE IF joined = <<>> THEN <<Dot>> ELSE joined

\* clean_path's byte loop, which edits its output in place behind a floor that moves,
\* computes the lexical path.
CleanIsLexical == kind = "path" => clean_path(text) = Rendered(IsRooted(text), Resolved(text))

\* Whatever the request path, the script is under the document root: its components are
\* the root's and then the request's own, none of them "..", and a trailing slash stays
\* (sanitized_path_join).
StaysUnderRoot ==
  kind = "path" =>
    LET below == Resolved(<<Slash>> \o text)
        trailing == IF Len(text) > 1 /\ Last(text) = Slash THEN <<Slash>> ELSE <<>>
    IN  /\ DotDot \notin Range(below)
        /\ \A root \in Roots :
             sanitized_path_join(root, text)
               = Rendered(IsRooted(root), Resolved(root) \o below) \o trailing

\* split_cgi_path loses nothing: SCRIPT_NAME and PATH_INFO are the request path again, and
\* the split is after the first extension, whatever the case it is written in.
SplitsAtTheScript ==
  kind = "path" =>
    \A raw \in SplitLists :
      LET splits == normalize_split_path(raw)
          paths == split_cgi_path(<<>>, splits.entries, text)
          at == Len(paths.doc_uri)
          Ends(n, e) == e # <<>> /\ IsSuffix(Lowercase(e), Lowercase(SubSeq(text, 1, n)))
          earliest == {n \in 0..Len(text) : \E e \in Range(raw) : Ends(n, e)}
      IN  splits.ok =>
            /\ \/ paths.script_name \o paths.path_info = ensure_leading_slash(text)
               \/ at = 0 /\ paths.path_info = text
            /\ paths.doc_uri # <<>> => paths.doc_uri \o paths.path_info = text
            /\ (earliest # {} /\ Len(raw) = 1) => at = Min(earliest)
            /\ paths.doc_uri # <<>> <=> (raw # <<>> /\ earliest # {})

\* The index file is appended only where it becomes the script: nothing the client did not
\* send ends up in PATH_INFO, and a path that names a script is not touched.
IndexIsTheScript ==
  kind = "path" =>
    LET resolved == resolve_directory_index(text)
        before == split_cgi_path(<<>>, <<PhpExt>>, text)
        after == split_cgi_path(<<>>, <<PhpExt>>, resolved)
    IN  /\ resolved # text => after.path_info = <<>> /\ after.doc_uri = resolved
        /\ before.doc_uri # <<>> => after = before
        /\ IsSuffix(after.path_info, text)

\* Every context that passes validate has a script path, and C, which reads it up to the
\* first NUL, opens the file that was computed: the None that stands for "stop the thread"
\* never comes from a dequeued request (thread.rs:106).
ScriptPathIsWhole ==
  kind = "path" /\ path_is_valid(text) =>
    \A root \in Roots :
      LET file == split_cgi_path(root, <<PhpExt>>, resolve_directory_index(text)).script_filename
      IN  CString(ScriptPath(file)) = file /\ file # <<>>

\* A percent escape on the wire.
Escaped(t, positions) ==
  Loop(LAMBDA s, i : s \o IF i \in positions THEN <<Percent>> \o Hex(t[i], 2) ELSE <<t[i]>>,
       <<>>, Len(t))

\* Decoding undoes escaping, however many of the bytes a client chooses to escape, and
\* does it once: an escaped escape stays an escape.
DecodesOnce ==
  kind = "escaped" =>
    \A positions \in SUBSET DOMAIN text :
      (\A i \in DOMAIN text : text[i] = Percent => i \in positions)
        => percent_decode(Escaped(text, positions)) = text
-------------------------------------------------------------------------------
(* Addresses *)

\* The readings of a text as "host:port" or "[host]:port".
HostPorts(t) ==
  {[ok |-> TRUE, host |-> SubSeq(t, 1, n - 1), port |-> SubSeq(t, n + 1, Len(t))] :
     n \in {n \in DOMAIN t : /\ t[n] = Colon
                             /\ {i \in DOMAIN t : t[i] = Colon} = {n}
                             /\ {OpenBracket, CloseBracket} \cap Range(t) = {}}}
  \cup
  {[ok |-> TRUE, host |-> SubSeq(t, 2, n - 2), port |-> SubSeq(t, n + 1, Len(t))] :
     n \in {n \in 3..Len(t) : /\ t[1] = OpenBracket /\ t[n - 1] = CloseBracket /\ t[n] = Colon
                              /\ {i \in DOMAIN t : t[i] \in {OpenBracket, CloseBracket}} = {1, n - 1}
                              /\ \A i \in (n + 1)..Len(t) : t[i] # Colon}}

\* split_host_port accepts exactly the texts with a reading, and gives that one.
HostPortIsTheReading ==
  kind = "address" =>
    split_host_port(text) =
      IF HostPorts(text) = {} THEN NoHostPort ELSE CHOOSE r \in HostPorts(text) : TRUE

\* However malformed, a peer address loses no byte but the brackets and the colon that
\* REMOTE_ADDR and REMOTE_PORT are split at.
RemoteAddressIsWhole ==
  kind = "address" =>
    LET r == split_remote_addr(text)
        bracketed == <<OpenBracket>> \o r.ip \o <<CloseBracket>>
    IN  /\ \E ip \in {r.ip, bracketed} :
             \/ text = ip \o <<Colon>> \o r.port
             \/ text = ip /\ r.port = <<>>
        /\ Colon \notin Range(r.port)

\* The joint and the separate derivations agree; a Host that is there names a server, and
\* SERVER_PORT is never empty.
ServerNamesAgree ==
  kind = "address" =>
    \A scheme \in {"Http", "Https"} :
      LET d == derive_server_name_and_port(text, scheme)
      IN  /\ d.name = derive_server_name(text) /\ d.port = derive_server_port(text, scheme)
          /\ text # <<>> => d.name # <<>>
          /\ d.port # <<>>
-------------------------------------------------------------------------------
(* Header names *)

\* The two canonicalisers agree on every byte string, so a name that is found in the
\* request's map is found in COMMON_HEADERS; canonical names are fixed points, and case
\* never splits one valid name into two entries.
CanonicalNamesAgree ==
  kind = "name" =>
    /\ canonical_header_name(text) = canonical_mime_header_name(text)
    /\ canonical_header_name(canonical_header_name(text)) = canonical_header_name(text)
    /\ (\A i \in DOMAIN text : is_header_field_byte(text[i])) =>
         canonical_header_name(Uppercase(text)) = canonical_header_name(Lowercase(text))

\* The table and the mangling give one name the same variable, so a header reaches PHP
\* under one name whichever path registers it.
OneVariablePerName ==
  kind = "name" =>
    /\ common_header_var(text) \in {<<>>, mangle_header_name(text)}
    /\ CString(uncommon_header_key(text)) = CString(mangle_header_name(text))
-------------------------------------------------------------------------------
(* Rendered bytes *)

HexValue(d) == IF d < 58 THEN d - 48 ELSE d - 87

FromHex(digits) == Loop(LAMBDA v, i : (v * 16) + HexValue(digits[i]), 0, Len(digits))

\* UTF-8 by length: the mark of the first byte, and what one in its payload weighs.
RuneLength(r) ==
  CASE r < 128 -> 1
    [] r >= 128 /\ r < 2048 -> 2
    [] r >= 2048 /\ r < 65536 -> 3
    [] r >= 65536 -> 4
LeadMarks == <<0, 192, 224, 240>>
Weights == <<1, 64, 4096, 262144>>

EncodeRune(r) ==
  LET n == RuneLength(r)
  IN  [i \in 1..n |-> IF i = 1 THEN LeadMarks[n] + (r \div Weights[n])
                      ELSE 128 + ((r \div Weights[n - i + 1]) % 64)]

\* The inverse of \n, \r, \t, \\ and \xHH, and for quoted values of \a, \b, \f, \v, \",
\* \uHHHH and \UHHHHHHHH.
UnescapeTurn(s) ==
  LET t == s.rest
      letters == {c \in DOMAIN ControlLetters : t[2] = ControlLetters[c]}
      width == CASE t[2] = 120 -> 2 [] t[2] = 117 -> 4 [] OTHER -> 8
      code == FromHex(SubSeq(t, 3, 2 + width))
      Take(n, bytes) == [rest |-> SubSeq(t, n + 1, Len(t)), output |-> s.output \o bytes]
  IN  CASE t = <<>> -> s
        [] t # <<>> /\ t[1] # Backslash -> Take(1, EncodeRune(t[1]))
        [] t # <<>> /\ t[1] = Backslash /\ letters # {} -> Take(2, <<CHOOSE c \in letters : TRUE>>)
        [] t # <<>> /\ t[1] = Backslash /\ t[2] \in {Backslash, Quote} -> Take(2, <<t[2]>>)
        [] OTHER -> Take(2 + width, IF width = 2 THEN <<code>> ELSE EncodeRune(code))

Unescape(t) == Loop(LAMBDA s, k : UnescapeTurn(s), [rest |-> t, output |-> <<>>], Len(t)).output

\* A logged message is one line of printable ASCII from which the message can be read
\* back: no message forges a record and no two messages look alike.
LogLineIsReversible ==
  kind = "log" =>
    \A raw \in -1..8 :
      LET lines == go_log(text, raw)
      IN  /\ lines = <<>> <=> raw = 7
          /\ \A line \in Range(lines) : /\ Range(line.message) \subseteq 32..126
                                        /\ Unescape(line.message) = CString(text)

\* A rejected header value is quoted printably, on one line, and can be read back byte by
\* byte from the rejection.
QuoteIsReversible ==
  kind = "value" =>
    LET quoted == go_quote(text)
        body == SubSeq(quoted, 2, Len(quoted) - 1)
    IN  /\ Unescape(body) = text
        /\ \A i \in DOMAIN body : body[i] >= 32 /\ body[i] # 127

\* Reference: a code point is printable when a pair of the table holds it and no hole does.
Printable(r) ==
  LET table == IF FirstPlane(r) THEN GO_IS_PRINT_16 ELSE GO_IS_PRINT_32
      holes == IF FirstPlane(r) THEN Range(GO_IS_NOT_PRINT_16)
               ELSE {65536 + h : h \in Range(GO_IS_NOT_PRINT_32)}
  IN  /\ \E i \in {i \in DOMAIN table : i % 2 = 1} : r \in table[i]..table[i + 1]
      /\ r \notin holes

\* go_is_print's search, which probes one index and takes its pair from the low bit, and
\* its shortcut below 256 find what the tables say.
PrintableIsInTheTable ==
  kind = "value" /\ RuneWidth(text) # 0 =>
    LET r == Rune(SubSeq(text, 1, RuneWidth(text))) IN go_is_print(r) <=> Printable(r)

\* A path leads to the script it names and to nothing outside the document root: decoded
\* once, given its index, split, cleaned, joined and handed to C whole.
PathsFindTheirScript ==
  /\ DecodesOnce /\ IndexIsTheScript /\ SplitsAtTheScript
  /\ CleanIsLexical /\ StaysUnderRoot /\ ScriptPathIsWhole

\* Functions written apart agree on what a header name and an address are.
NamesAndAddressesAgree ==
  /\ CanonicalNamesAgree /\ OneVariablePerName
  /\ HostPortIsTheReading /\ RemoteAddressIsWhole /\ ServerNamesAgree

\* What is written to a log or into a rejection can be read back, so it forges nothing.
LoggedTextIsReversible == LogLineIsReversible /\ QuoteIsReversible /\ PrintableIsInTheTable
===============================================================================
