------------------------------ MODULE HeaderText ------------------------------
(***************************************************************************)
(* Header fields: the two canonicalisers of names (Headers of              *)
(* crates/frankenrust-core/src/context.rs and cgi.rs keep one each), the   *)
(* multi-valued map a request's fields live in, and the CGI variable a     *)
(* field becomes.                                                          *)
(*                                                                         *)
(* COMMON_HEADERS maps 101 canonical names to their variables; a small     *)
(* instance gives the few names it uses.                                   *)
(***************************************************************************)
EXTENDS Bytes

CONSTANT CommonNames     \* the names in COMMON_HEADERS

\* None of the 101 has a dot.
ASSUME CommonNamesAssumption ==
  \A name \in CommonNames : name \in Seq(Byte) /\ Dot \notin Range(name)

\* The punctuation of an RFC 9110 token: ! # $ % & ' * + - . ^ _ ` | ~
TokenPunctuation ==
  {33, 35, 36, 37, 38, 39, 42, 43, 45, 46, 94, 95, 96, 124, 126}

is_header_field_byte(c) == IsAlphanumeric(c) \/ c \in TokenPunctuation
valid_header_field_byte(c) == IsAlphanumeric(c) \/ c \in TokenPunctuation

\* context.rs: the case of a byte depends on the byte of the input before it.
canonical_header_name(name) ==
  IF \A i \in DOMAIN name : is_header_field_byte(name[i])
  THEN [i \in DOMAIN name |-> IF i = 1 \/ name[i - 1] = Dash
                              THEN ToUpper(name[i]) ELSE ToLower(name[i])]
  ELSE name

\* cgi.rs: the case of a byte depends on the byte of the output before it.
canonical_mime_header_name(name) ==
  LET Push(canonical, i) ==
        Append(canonical, IF canonical = <<>> \/ Last(canonical) = Dash
                          THEN ToUpper(name[i]) ELSE ToLower(name[i]))
  IN  IF \E i \in DOMAIN name : ~valid_header_field_byte(name[i])
      THEN name
      ELSE Loop(Push, <<>>, Len(name))

\* b"HTTP_"
HttpPrefix == <<72, 84, 84, 80, 95>>

mangle_header_name(name) ==
  HttpPrefix \o [i \in DOMAIN name |-> IF name[i] = Dash THEN Underscore ELSE ToUpper(name[i])]

uncommon_header_key(name) == mangle_header_name(name) \o <<Nul>>

\* COMMON_HEADERS: every entry of the table is its name, mangled.  The code's table is
\* written by hand; that its entries are so is a test of cgi.rs, here it is the definition.
COMMON_HEADERS == [name \in CommonNames |-> mangle_header_name(name)]

\* The variable of a common name; <<>>: the name is not in the table.
lookup_common_header(canonical) ==
  IF canonical \in CommonNames THEN COMMON_HEADERS[canonical] ELSE <<>>

common_header_var(name) == lookup_common_header(canonical_mime_header_name(name))

join_header_values(values) == JoinWith(values, <<Comma, Space>>)
-------------------------------------------------------------------------------
(* Headers: a sequence of [name, values], the names canonical and distinct. *)

EntryOf(headers, name) ==
  SelectInSeq(headers, LAMBDA e : e.name = canonical_header_name(name))

headers_insert(headers, name, value) ==
  LET i == EntryOf(headers, name)
  IN  IF i > 0 THEN [headers EXCEPT ![i].values = Append(@, value)]
      ELSE Append(headers, [name |-> canonical_header_name(name), values |-> <<value>>])

\* Every value in order of arrival; <<>>: the header was never inserted.
headers_get_all(headers, name) ==
  LET i == EntryOf(headers, name) IN IF i > 0 THEN headers[i].values ELSE <<>>

\* Seeded fault: a repeated field is read as the join of its values.
HeadersGetJoined(headers, name) == join_header_values(headers_get_all(headers, name))

\* Only the first value, and b"" for an absent header: no caller tells the two apart.
headers_get_first(headers, name) ==
  LET values == headers_get_all(headers, name) IN IF values = <<>> THEN <<>> ELSE Head(values)
===============================================================================
