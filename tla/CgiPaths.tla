------------------------------ MODULE CgiPaths -------------------------------
(***************************************************************************)
(* From the target on the wire to the script PHP opens: the percent        *)
(* decoding of crates/frankenrust-server/src/request.rs, the directory     *)
(* index of server.rs and the CGI path split, lexical cleaning and         *)
(* root join of crates/frankenrust-core/src/cgi.rs.                        *)
(*                                                                         *)
(* The extension ".php" and the file "index.php" are parameters, so that a *)
(* small instance can use short ones.                                      *)
(***************************************************************************)
EXTENDS Bytes

CONSTANTS PhpExt,      \* b".php"
          IndexFile    \* b"index.php"

ASSUME CgiPathsAssumption ==
  /\ PhpExt # <<>> /\ Head(PhpExt) = Dot /\ PhpExt = Lowercase(PhpExt)
  /\ Slash \notin Range(IndexFile) /\ Nul \notin Range(IndexFile)
  /\ IsSuffix(PhpExt, IndexFile)
  /\ PhpExt \in Seq(Byte) /\ IndexFile \in Seq(Byte)

DotDot == <<Dot, Dot>>

hex_digit(byte) ==
  CASE IsDigit(byte) -> byte - 48
    [] byte \in 97..102 -> byte - 87
    [] byte \in 65..70 -> byte - 55
    [] OTHER -> -1

\* One turn of percent_decode: `read` bytes are consumed.  A malformed escape stays as it is.
DecodeTurn(input, s) ==
  LET i == s.read + 1
      escape == /\ input[i] = Percent /\ i + 2 <= Len(input)
                /\ hex_digit(input[i + 1]) >= 0 /\ hex_digit(input[i + 2]) >= 0
  IN  CASE s.read >= Len(input) -> s
        [] s.read < Len(input) /\ escape ->
             [read |-> s.read + 3,
              output |-> Append(s.output,
                                hex_digit(input[i + 1]) * 16 + hex_digit(input[i + 2]))]
        [] OTHER -> [read |-> s.read + 1, output |-> Append(s.output, input[i])]

percent_decode(input) ==
  Loop(LAMBDA s, k : DecodeTurn(input, s), [read |-> 0, output |-> <<>>], Len(input)).output

ensure_leading_slash(path) ==
  IF path = <<>> \/ Head(path) = Slash THEN path ELSE <<Slash>> \o path

\* SplitPath::new: the entries, lower-cased, or InvalidSplitPath.
normalize_split_path(entries) ==
  IF \A e \in Range(entries) : \A i \in DOMAIN e : IsAscii(e[i])
  THEN [ok |-> TRUE, entries |-> [i \in DOMAIN entries |-> Lowercase(entries[i])]]
  ELSE [ok |-> FALSE, entries |-> <<>>]

\* Where a match of `split` in the path ends: the offsets of the byte after it.
MatchEnds(path, split) ==
  {n \in Len(split)..Len(path) :
     \A k \in DOMAIN split :
       LET b == path[n - Len(split) + k] IN IsAscii(b) /\ ToLower(b) = split[k]}

\* "index.php" has its extension at its end and nowhere else.
ASSUME IndexFileAssumption == MatchEnds(IndexFile, PhpExt) = {Len(IndexFile)}

\* The end of the first match of the first entry that matches at all; -1: none does.
split_pos(path, splits) ==
  LET matching == {i \in DOMAIN splits : splits[i] # <<>> /\ MatchEnds(path, splits[i]) # {}}
  IN  CASE splits = <<>> -> 0
        [] splits # <<>> /\ matching = {} -> -1
        [] OTHER -> Min(MatchEnds(path, splits[Min(matching)]))

\* Seeded fault: the separator before the dropped component is kept.
DropToSlash(output, dotdot) ==
  Max({w \in dotdot..(Len(output) - 1) : w = dotdot \/ output[w] = Slash})

\* The index of the last byte to keep when ".." drops a component from the output.
DropTo(output, dotdot) ==
  Max({w \in dotdot..(Len(output) - 1) : w = dotdot \/ output[w + 1] = Slash})

\* One turn of filepath.Clean's loop.  `read` bytes are consumed and the first `dotdot`
\* bytes of the output cannot be dropped by a "..".
CleanTurn(path, s) ==
  LET read == s.read
      output == s.output
      dotdot == s.dotdot
      rooted == Head(path) = Slash
      EndsAt(n) == n = Len(path) \/ path[n + 1] = Slash
      isSkip == path[read + 1] = Slash \/ (path[read + 1] = Dot /\ EndsAt(read + 1))
      isParent == /\ path[read + 1] = Dot /\ read + 1 < Len(path) /\ path[read + 2] = Dot
                  /\ EndsAt(read + 2)
      next == Min({n \in (read + 1)..Len(path) : EndsAt(n)})
      sep == IF (rooted /\ Len(output) # 1) \/ (~rooted /\ output # <<>>)
             THEN <<Slash>> ELSE <<>>
      climbed == output \o sep \o DotDot
  IN  CASE read >= Len(path) -> s
        [] read < Len(path) /\ isSkip -> [s EXCEPT !.read = read + 1]
        [] read < Len(path) /\ ~isSkip /\ isParent ->
             CASE Len(output) > dotdot ->
                    [read |-> read + 2, output |-> SubSeq(output, 1, DropTo(output, dotdot)),
                     dotdot |-> dotdot]
               [] Len(output) <= dotdot /\ ~rooted ->
                    [read |-> read + 2, output |-> climbed, dotdot |-> Len(climbed)]
               [] OTHER -> [s EXCEPT !.read = read + 2]
        [] OTHER -> [read |-> next, output |-> output \o sep \o SubSeq(path, read + 1, next),
                     dotdot |-> dotdot]

clean_path(path) ==
  IF path = <<>> THEN <<Dot>>
  ELSE LET rooted == IF Head(path) = Slash THEN 1 ELSE 0
           start == [read |-> rooted, output |-> SubSeq(path, 1, rooted), dotdot |-> rooted]
           output == Loop(LAMBDA s, k : CleanTurn(path, s), start, Len(path)).output
       IN  IF output = <<>> THEN <<Dot>> ELSE output

join_with_slash(prefix, suffix) == prefix \o <<Slash>> \o suffix

\* A trailing slash of the request path survives the cleaning.
sanitized_path_join(root, req_path) ==
  LET base == IF root = <<>> THEN <<Dot>> ELSE root
      cleaned == clean_path(join_with_slash(<<>>, req_path))
      joined == clean_path(join_with_slash(base, cleaned))
  IN  IF Len(req_path) > 1 /\ Last(req_path) = Slash THEN joined \o <<Slash>> ELSE joined

\* `splits` is Some(list); the default is <<PhpExt>>.
split_cgi_path(document_root, splits, path) ==
  LET position == split_pos(path, splits)
      doc_uri == IF position >= 0 THEN SubSeq(path, 1, position) ELSE <<>>
      path_info == IF position >= 0 THEN SubSeq(path, position + 1, Len(path)) ELSE <<>>
      script_name == ensure_leading_slash(SubSeq(path, 1, Len(path) - Len(path_info)))
  IN  [doc_uri |-> doc_uri, path_info |-> path_info, script_name |-> script_name,
       script_filename |-> sanitized_path_join(document_root, script_name)]

resolve_directory_index(path) ==
  IF path # <<>> /\ Last(path) = Slash /\ split_pos(path, <<PhpExt>>) < 0
  THEN path \o IndexFile ELSE path

\* validate's test of the path.
path_is_valid(path) == Nul \notin Range(path)

\* ScriptPath::new: the path with its terminator; an empty one is None.
ScriptPath(bytes) == IF bytes = <<>> THEN <<>> ELSE bytes \o <<Nul>>
===============================================================================
