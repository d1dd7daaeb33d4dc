----------------------------- MODULE RequestInput -----------------------------
(***************************************************************************)
(* One request's way into a script: the fields a transport hands over,     *)
(* `handle` and `build_request` of crates/frankenrust-server, the context  *)
(* they make, and the callbacks PHP reads it through                       *)
(* (crates/frankenrust-core/src/callbacks/servervars.rs and input.rs):     *)
(* SG(request_info), the cookies, $_SERVER, the header list and the body.  *)
(*                                                                         *)
(* An option is a sequence of at most one element, None or Some(x); so is  *)
(* a nullable C string.  The names of the five headers the code asks for   *)
(* are parameters, so that a small instance can use short ones.  What a    *)
(* header becomes always begins with HTTP_, so $_SERVER is in two parts:   *)
(* `known` for the fixed variables and `http` for the HTTP_ ones.          *)
(***************************************************************************)
EXTENDS CgiPaths, CgiHosts, HeaderText

CONSTANTS Targets,         \* request lines: [method, path, query, version]
          Fields,          \* [name, value], the name in lower case, as hyper keeps it
          MaxFields,
          MaxBody,         \* the longest body
          MaxRead,         \* the largest block PHP asks for
          DocumentRoot, RemoteAddr,
          CONTENT_LENGTH, CONTENT_TYPE, AUTHORIZATION, COOKIE, HOST,
          MaxI64           \* i64::MAX

ASSUME RequestInputAssumption ==
  /\ MaxI64 \in Nat /\ MaxFields \in Nat /\ MaxBody \in Nat /\ MaxRead \in Nat
  /\ \A n \in {CONTENT_LENGTH, CONTENT_TYPE, AUTHORIZATION, COOKIE, HOST} :
       n \in Seq(Byte) /\ n = canonical_header_name(n)
  /\ DocumentRoot \in Seq(Byte)

\* What hyper's parser lets through: names are tokens in lower case; no value and no target
\* has a NUL; the target without a path, CONNECT's, has no query.
ASSUME WireAssumption ==
  /\ \A f \in Fields :
       /\ f.name \in Seq(Byte) /\ f.name = Lowercase(f.name)
       /\ \A i \in DOMAIN f.name : is_header_field_byte(f.name[i])
       /\ f.value \in Seq(Byte) /\ Nul \notin Range(f.value)
  /\ \A l \in Targets :
       /\ l.path \in Seq(Byte)
       /\ l.path = <<>> => l.query = <<>>
       /\ l.query = <<>> \/ (Len(l.query) = 1 /\ l.query[1] \in Seq(Byte) /\ Nul \notin Range(l.query[1]))

VARIABLES step,     \* how far the request has come
          wire,     \* what the transport has: [line, fields, body, arrives]; `arrives`: the
                    \* connection lasts until the body's end
          ctx,      \* Option<RequestContext>
          info,     \* SG(request_info)
          cookies,  \* SG(request_info).cookie_data
          batch,    \* the ServerVarsBatch in the context
          server,   \* $_SERVER
          listed,   \* what apache_request_headers returned
          source,   \* the body's reader: [rest, failed]
          read,     \* the go_read_post in progress: [asked, filled, retried]
          post      \* what PHP has of the body: [got, ended]

inputVars == <<step, wire, ctx, info, cookies, batch, server, listed, source, read, post>>

None == <<>>
Some(x) == <<x>>

Steps == <<"wire", "rejected", "dispatched", "info", "cookies", "collected", "registered",
           "listed">>

NoInfo == [request_method |-> None, query_string |-> None, content_length |-> 0,
           content_type |-> None, path_translated |-> None, request_uri |-> None,
           proto_num |-> 0, authorization |-> None]

InputInit ==
  /\ step = "wire"
  /\ wire \in [line : Targets, fields : {<<>>}, body : {[i \in 1..n |-> i] : n \in 0..MaxBody},
               arrives : BOOLEAN]
  /\ wire.body # <<>> \/ wire.arrives
  /\ ctx = None /\ info = NoInfo /\ cookies = None /\ batch = None /\ server = None
  /\ listed = None
  /\ source = [rest |-> <<>>, failed |-> FALSE]
  /\ read = None
  /\ post = [got |-> <<>>, ended |-> FALSE]

Go(from, to) == step = from /\ step' = to
-------------------------------------------------------------------------------
(* handle *)

\* External: one more header field.  A request with a body has none in this model: nothing
\* that reads the body looks at them.
ReceiveField(field) ==
  /\ step = "wire" /\ wire.body = <<>> /\ Len(wire.fields) < MaxFields
  /\ wire' = [wire EXCEPT !.fields = Append(@, field)]
  /\ UNCHANGED <<step, ctx, info, cookies, batch, server, listed, source, read, post>>

\* HeaderValue::to_str: visible ASCII, spaces and tabs.
to_str_ok(value) == \A i \in DOMAIN value : value[i] \in (32..126) \cup {9}

proto(version) ==
  CASE version = "HTTP_10" -> [major |-> 1, minor |-> 0]
    [] version = "HTTP_09" -> [major |-> 0, minor |-> 9]
    [] OTHER -> [major |-> 1, minor |-> 1]

\* path_and_query, and "/" where there is neither.
raw_target(line) ==
  IF line.path = <<>> THEN <<Slash>>
  ELSE line.path \o (IF line.query = None THEN <<>> ELSE <<63>> \o line.query[1])

\* body.collect(): all of the body, or, when it fails to arrive, none of it.
collected(w) == IF w.arrives THEN w.body ELSE <<>>

\* Request::new.  The body is `source`; cancelled belongs to RequestLifecycle.
NewRequest(method, path) ==
  [method |-> method, raw_target |-> <<>>, path |-> path, query |-> <<>>, headers |-> <<>>,
   content_length |-> 0, host |-> <<>>, remote_addr |-> <<>>, proto |-> proto("HTTP_11")]

\* The loop of build_request over the fields.
build_headers(fields) ==
  Loop(LAMBDA h, i : headers_insert(h, fields[i].name, fields[i].value), <<>>, Len(fields))

build_request(w) ==
  LET headers == build_headers(w.fields)
      host == headers_get_first(headers, HOST)
  IN  [NewRequest(w.line.method, percent_decode(w.line.path)) EXCEPT
         !.raw_target = raw_target(w.line),
         !.query = IF w.line.query = None THEN <<>> ELSE w.line.query[1],
         !.content_length = Len(collected(w)),
         !.host = IF to_str_ok(host) THEN host ELSE <<>>,
         !.remote_addr = RemoteAddr,
         !.proto = proto(w.line.version),
         !.headers = headers]

\* str::parse::<i64>: an optional sign and at least one digit.
parse_i64(t) ==
  LET signed == t # <<>> /\ Head(t) \in {43, 45}
      digits == IF signed THEN Tail(t) ELSE t
      n == FoldLeft(LAMBDA v, d : (v * 10) + (d - 48), 0, digits)
  IN  IF digits = <<>> \/ (\E i \in DOMAIN digits : ~IsDigit(digits[i])) \/ n > MaxI64 THEN None
      ELSE Some(IF Head(t) = 45 THEN 0 - n ELSE n)

validate_request(request) ==
  LET length == headers_get_first(request.headers, CONTENT_LENGTH)
      parsed == parse_i64(length)
  IN  /\ path_is_valid(request.path)
      /\ length = <<>> \/ (parsed # None /\ parsed[1] >= 0)

\* The directory index changes the path, not the raw target; the split takes the root's own
\* bytes, the context the text they are read as.
new_context(request) ==
  LET path == resolve_directory_index(request.path)
  IN  [request |-> [request EXCEPT !.path = path],
       document_root |-> from_utf8_lossy(DocumentRoot), request_uri |-> request.raw_target,
       paths |-> split_cgi_path(DocumentRoot, <<PhpExt>>, path)]

\* Seeded fault: a rejected request leaves its context behind.
HandleKeepsContext ==
  /\ step = "wire"
  /\ LET c == new_context(build_request(wire))
     IN  /\ step' = IF validate_request(c.request) THEN "dispatched" ELSE "rejected"
         /\ ctx' = Some(c)
  /\ source' = [source EXCEPT !.rest = collected(wire)]
  /\ UNCHANGED <<wire, info, cookies, batch, server, listed, read, post>>

\* The body is collected before anything else, and a body that fails to arrive is taken for
\* an empty one.  Then validate's verdict: a 400, or the dispatch.
Handle ==
  /\ step = "wire"
  /\ LET c == new_context(build_request(wire))
     IN  IF validate_request(c.request)
         THEN /\ step' = "dispatched" /\ ctx' = Some(c)
              /\ source' = [source EXCEPT !.rest = collected(wire)]
         ELSE step' = "rejected" /\ UNCHANGED <<ctx, source>>
  /\ UNCHANGED <<wire, info, cookies, batch, server, listed, read, post>>
-------------------------------------------------------------------------------
(* go_update_request_info *)

NonEmpty(t) == IF t = <<>> THEN None ELSE Some(t)

\* Every pointer is a copy in the arena, ended by a NUL.  What is absent or empty is not
\* assigned.
update_request_info(c, i) ==
  LET content_type == NonEmpty(headers_get_first(c.request.headers, CONTENT_TYPE))
      translated == IF c.paths.path_info = <<>> THEN None
                    ELSE Some(sanitized_path_join(c.document_root, c.paths.path_info))
  IN  [i EXCEPT !.request_method = Some(c.request.method),
                !.query_string = Some(CString(c.request.query)),
                !.content_length = c.request.content_length,
                !.content_type = IF content_type = None THEN @ ELSE content_type,
                !.path_translated = IF translated = None THEN @ ELSE translated,
                !.request_uri = Some(CString(c.request_uri)),
                !.proto_num = (c.request.proto.major * 1000) + c.request.proto.minor,
                !.authorization = NonEmpty(headers_get_first(c.request.headers, AUTHORIZATION))]

UpdateRequestInfo ==
  /\ Go("dispatched", "info")
  /\ info' = update_request_info(ctx[1], info)
  /\ UNCHANGED <<wire, ctx, cookies, batch, server, listed, source, read, post>>
-------------------------------------------------------------------------------
(* go_read_cookies *)

join_values(values, sep) == JoinWith(values, sep)

\* Emptiness is tested before the NULs are stripped.
cookie_data(c) ==
  LET joined == join_values(headers_get_all(c.request.headers, COOKIE), <<Semicolon, Space>>)
  IN  IF joined = <<>> THEN None ELSE Some(Filtered(joined, LAMBDA b : b # Nul))

\* malloc_c_string gives C a whole copy, or NULL when malloc fails.
ReadCookies ==
  /\ Go("info", "cookies")
  /\ cookies' \in {cookie_data(ctx[1]), None}
  /\ UNCHANGED <<wire, ctx, info, batch, server, listed, source, read, post>>
-------------------------------------------------------------------------------
(* $_SERVER: frankenrust_collect_server_vars computes, shim.c registers *)

compute_server_vars(c) ==
  LET remote == split_remote_addr(c.request.remote_addr)
      derived == derive_server_name_and_port(c.request.host, "Http")
  IN  [remote_addr |-> remote.ip, remote_port |-> remote.port,
       document_root |-> c.document_root, path_info |-> c.paths.path_info,
       php_self |-> c.paths.script_name \o c.paths.path_info,
       document_uri |-> c.paths.doc_uri, script_filename |-> c.paths.script_filename,
       script_name |-> c.paths.script_name, server_name |-> derived.name,
       server_port |-> derived.port,
       content_length |-> headers_get_first(c.request.headers, CONTENT_LENGTH),
       server_protocol |-> c.request.proto, http_host |-> c.request.host,
       request_uri |-> c.request_uri]

\* ComputedServerVars::as_ffi: the buffers by pointer and length, so that they may hold
\* any byte, REMOTE_HOST a second name for REMOTE_ADDR, and the constants of plain HTTP.
as_ffi(known) ==
  [remote_addr |-> known.remote_addr, remote_host |-> known.remote_addr,
   remote_port |-> known.remote_port, document_root |-> known.document_root,
   path_info |-> known.path_info, php_self |-> known.php_self,
   document_uri |-> known.document_uri, script_filename |-> known.script_filename,
   script_name |-> known.script_name, https |-> <<>>, ssl_protocol |-> <<>>,
   request_scheme |-> "http", server_name |-> known.server_name,
   server_port |-> known.server_port, content_length |-> known.content_length,
   server_protocol |-> known.server_protocol, http_host |-> known.http_host,
   request_uri |-> known.request_uri, ssl_cipher |-> <<>>]

\* interned_strings: a canonical name in COMMON_HEADERS has a key of its own; any other
\* name is mangled, and PHP's php_register_variable_safe replaces its dots.
php_register_key(key) == [i \in DOMAIN key |-> IF key[i] = Dot THEN Underscore ELSE key[i]]

header_key(name) ==
  IF lookup_common_header(name) # <<>> THEN lookup_common_header(name)
  ELSE php_register_key(CString(uncommon_header_key(name)))

\* One descriptor per entry of the header map, in its order.
build_server_vars_batch(c) ==
  [known |-> compute_server_vars(c),
   headers |-> [i \in DOMAIN c.request.headers |->
                  [key |-> header_key(c.request.headers[i].name),
                   value |-> join_header_values(c.request.headers[i].values)]]]

CollectServerVars ==
  /\ Go("cookies", "collected")
  /\ batch' = Some(build_server_vars_batch(ctx[1]))
  /\ UNCHANGED <<wire, ctx, info, cookies, server, listed, source, read, post>>

\* php_register_variable_safe: a variable that is there already is overwritten.
php_register_variable(http, key, value) ==
  [k \in DOMAIN http \cup {key} |-> IF k = key THEN value ELSE http[k]]

\* The HTTP_ variables: HTTP_HOST, then the headers in order.
register_headers(http_host, headers) ==
  Loop(LAMBDA http, i : php_register_variable(http, headers[i].key, headers[i].value),
       [k \in {mangle_header_name(HOST)} |-> http_host], Len(headers))

\* go_register_server_variables' C half and then what C takes from request_info.
RegisterServerVars ==
  /\ Go("collected", "registered")
  /\ LET known == as_ffi(batch[1].known)
     IN  server' = Some([known |-> known,
                         http |-> register_headers(known.http_host, batch[1].headers),
                         content_type |-> IF info.content_type = None THEN Some(<<>>)
                                          ELSE info.content_type,
                         path_translated |-> info.path_translated,
                         query_string |-> info.query_string,
                         request_method |-> info.request_method])
  /\ UNCHANGED <<wire, ctx, info, cookies, batch, listed, source, read, post>>

\* go_apache_request_headers
RequestHeaders ==
  /\ Go("registered", "listed")
  /\ listed' = Some([i \in DOMAIN ctx[1].request.headers |->
                       [name |-> ctx[1].request.headers[i].name,
                        value |-> join_values(ctx[1].request.headers[i].values,
                                              <<Comma, Space>>)]])
  /\ UNCHANGED <<wire, ctx, info, cookies, batch, server, source, read, post>>
-------------------------------------------------------------------------------
(* go_read_post: RequestBody::fill, one read of the source at a time.  The server's own *)
(* source is a Cursor over what it collected; fill takes any Read, so the source here   *)
(* also fails, is interrupted and claims too much.                                      *)

Started == step \notin {"wire", "rejected", "dispatched"}

\* PHP asks for the next block, until a short answer ends its reading.  A request the client
\* sent without a body is left out: it reads as the one whose body does not arrive.
StartRead(asked) ==
  /\ Started /\ read = None /\ ~post.ended /\ wire.body # <<>>
  /\ read' = Some([asked |-> asked, filled |-> <<>>, retried |-> FALSE])
  /\ UNCHANGED <<step, wire, ctx, info, cookies, batch, server, listed, source, post>>

Room == read[1].asked - Len(read[1].filled)

\* Ok(claimed): the source has put `n` bytes into the rest of the buffer.  A source may
\* claim more than it was given room for; fill counts at most the room.
SourceReads(n, claimed) ==
  /\ read # None /\ n \in 1..Min({Room, Len(source.rest)})
  /\ claimed = n \/ (n = Room /\ claimed > n)
  /\ LET counted == Min({claimed, Room})
     IN  /\ read' = [read EXCEPT ![1].filled = @ \o SubSeq(source.rest, 1, counted)]
         /\ source' = [source EXCEPT !.rest = SubSeq(@, n + 1, Len(@))]
  /\ UNCHANGED <<step, wire, ctx, info, cookies, batch, server, listed, post>>

\* The loop is left: the buffer is full.
Answer ==
  /\ post' = [got |-> post.got \o read[1].filled,
              ended |-> Len(read[1].filled) < read[1].asked]
  /\ read' = None
  /\ UNCHANGED <<step, wire, ctx, info, cookies, batch, server, listed>>

BufferFull == read # None /\ Room = 0 /\ Answer /\ UNCHANGED source

\* Ok(0): the source is exhausted.
SourceEnds == read # None /\ Room > 0 /\ source.rest = <<>> /\ Answer /\ UNCHANGED source

\* Seeded fault: an interrupted read ends the loop.
InterruptedIsTheEnd ==
  /\ read # None /\ Room > 0 /\ ~read[1].retried
  /\ Answer
  /\ UNCHANGED source

\* Err(Interrupted): read again.
SourceInterrupted ==
  /\ read # None /\ Room > 0 /\ ~read[1].retried
  /\ read' = [read EXCEPT ![1].retried = TRUE]
  /\ UNCHANGED <<step, wire, ctx, info, cookies, batch, server, listed, source, post>>

\* Any other error ends the loop like the end of the body.
SourceFails ==
  /\ read # None /\ Room > 0
  /\ source' = [source EXCEPT !.failed = TRUE]
  /\ Answer
-------------------------------------------------------------------------------
InputNext ==
  \/ \E field \in Fields : ReceiveField(field)
  \/ Handle
  \/ UpdateRequestInfo
  \/ ReadCookies
  \/ CollectServerVars
  \/ RegisterServerVars
  \/ RequestHeaders
  \/ \E asked \in 1..MaxRead : StartRead(asked)
  \/ \E n \in 1..MaxRead, claimed \in 1..(MaxRead + 1) : SourceReads(n, claimed)
  \/ BufferFull
  \/ SourceEnds
  \/ SourceInterrupted
  \/ SourceFails

InputSpec == InputInit /\ [][InputNext]_inputVars
-------------------------------------------------------------------------------
(* Properties *)

\* Types: how far the request is says what of it exists.
InputTypeOK ==
  /\ step \in Range(Steps)
  /\ Len(wire.fields) <= MaxFields
  /\ (ctx # None) <=> step \notin {"wire", "rejected"}
  /\ (batch # None) <=> step \in {"collected", "registered", "listed"}
  /\ (server # None) <=> step \in {"registered", "listed"}
  /\ read # None => Started
  /\ Range(post.got) \subseteq Range(wire.body)

\* The wire's values of a name, in order of arrival.
OnWire(name) ==
  Loop(LAMBDA values, i : IF Lowercase(wire.fields[i].name) = Lowercase(name)
                          THEN Append(values, wire.fields[i].value) ELSE values,
       <<>>, Len(wire.fields))

FirstOnWire(name) == IF OnWire(name) = <<>> THEN <<>> ELSE Head(OnWire(name))

WireNames == {f.name : f \in Range(wire.fields)}

\* Every field of the wire is in $_SERVER under its variable, its values joined in order of
\* arrival, unless another field's name maps to that variable and registers later; such a
\* variable never mixes two fields, and every HTTP_ variable but HTTP_HOST comes from one.
FieldsReachPhp ==
  server # None =>
    LET http == server[1].http
        Key(name) == php_register_key(mangle_header_name(name))
        From(name) == Key(name) \in DOMAIN http
                      /\ http[Key(name)] = JoinWith(OnWire(name), <<Comma, Space>>)
    IN  /\ \A name \in WireNames : \E other \in WireNames : Key(other) = Key(name) /\ From(other)
        /\ \A key \in DOMAIN http \ {mangle_header_name(HOST)} :
             \E name \in WireNames : Key(name) = key

\* apache_request_headers lists every field once, with all its values.
HeaderListIsWhole ==
  listed # None =>
    /\ \A name \in WireNames :
         \E h \in Range(listed[1]) : /\ Lowercase(h.name) = name
                                     /\ h.value = JoinWith(OnWire(name), <<Comma, Space>>)
    /\ Len(listed[1]) = Cardinality(WireNames)

\* Where CGI has room for one value it is the first on the wire, never a join: a joined
\* Content-Type selects no POST reader.  CONTENT_LENGTH is a length or empty.
FirstValueCounts ==
  server # None =>
    /\ server[1].content_type = Some(FirstOnWire(CONTENT_TYPE))
    /\ info.authorization = NonEmpty(FirstOnWire(AUTHORIZATION))
    /\ server[1].known.content_length = FirstOnWire(CONTENT_LENGTH)
    /\ LET length == parse_i64(server[1].known.content_length)
       IN  server[1].known.content_length # <<>> => length # None /\ length[1] >= 0

\* The cookies PHP parses are all the Cookie fields, joined as one, or none at all.
CookiesAreWhole ==
  cookies # None => cookies[1] = JoinWith(OnWire(COOKIE), <<Semicolon, Space>>)

\* A text is UTF-8: it can be cut into the encodings of characters.
IsUtf8(t) ==
  \E cuts \in SUBSET (0..Len(t)) :
    /\ {0, Len(t)} \subseteq cuts
    /\ \A c \in cuts \ {Len(t)} :
         \E w \in 1..4 : c + w \in cuts /\ Rune(SubSeq(t, c + 1, c + w)) >= 0

\* The script sees the target the client sent: REQUEST_URI and QUERY_STRING untouched by
\* the directory index, and a PATH_INFO that is the end of the decoded path.  The file that
\* runs is under the root's own bytes.  DOCUMENT_ROOT, and with it PATH_TRANSLATED, is the
\* root if and only if the root is UTF-8 (#171).
TargetIsPreserved ==
  server # None =>
    LET k == server[1].known
    IN  /\ k.request_uri = raw_target(wire.line)
        /\ server[1].query_string =
             Some(IF wire.line.query = None THEN <<>> ELSE wire.line.query[1])
        /\ k.php_self = k.script_name \o k.path_info /\ k.remote_host = k.remote_addr
        /\ IsSuffix(k.path_info, percent_decode(wire.line.path))
        /\ k.script_filename = sanitized_path_join(DocumentRoot, k.script_name)
        /\ (k.document_root = DocumentRoot) <=> IsUtf8(DocumentRoot)
        /\ server[1].path_translated =
             IF k.path_info = <<>> THEN None
             ELSE Some(sanitized_path_join(k.document_root, k.path_info))

\* What PHP has of the body is its beginning, in order, whatever the sizes the source
\* reads in; a block is never larger than PHP's buffer.
BodyIsInOrder ==
  LET filled == IF read = None THEN <<>> ELSE read[1].filled
  IN  /\ IsPrefix(post.got \o filled, wire.body)
      /\ read # None => Len(filled) <= read[1].asked

\* A short block ends the upload for PHP, so unless the source fails it is given only at the
\* end of what arrived: a partial or interrupted read is not mistaken for the end, and a body
\* whose connection is lost reaches PHP as no body, never as a part of one.  PHP gets as much
\* as it was told to expect.
UploadIsWhole ==
  post.ended /\ ~source.failed =>
    /\ wire.arrives => post.got = wire.body
    /\ ~wire.arrives => post.got = <<>>
    /\ Len(post.got) = info.content_length

\* The script sees the request the client sent: its target, and every field by the rule
\* for it.
RequestReachesPhp ==
  /\ FieldsReachPhp /\ HeaderListIsWhole /\ FirstValueCounts /\ CookiesAreWhole
  /\ TargetIsPreserved

\* PHP gets the body that arrived, and knows when it has it all; a body that fails to arrive
\* is to PHP an empty one (what `handle` makes of an error of collect).
BodyIsWhole == BodyIsInOrder /\ UploadIsWhole
===============================================================================
