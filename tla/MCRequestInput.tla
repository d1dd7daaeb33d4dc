---------------------------- MODULE MCRequestInput ----------------------------
(* The texts of a request and one whole request, side by side: a behaviour     *)
(* receives a text of one kind, or is of kind "request".                       *)
EXTENDS RequestText, RequestInput

vars == <<textVars, inputVars>>

Init ==
  /\ text = <<>>
  /\ InputInit
  /\ \/ kind = "request"
     \/ kind \in Kinds /\ wire.body = <<>> /\ wire.line.path = <<Slash>>

Next ==
  \/ kind = "request" /\ InputNext /\ UNCHANGED textVars
  \/ TextNext /\ UNCHANGED inputVars

Spec == Init /\ [][Next]_vars
-------------------------------------------------------------------------------
(* Short stand-ins: ".p" for ".php", "i.p" for "index.php".                    *)
MCPhpExt == <<Dot, 112>>
MCIndexFile == <<105, Dot, 112>>

MCAlphabet ==
  "path" :> {Slash, Dot, 112, 80, Nul} @@
  "escaped" :> {Percent, 50, 53, Slash} @@
  "address" :> {Colon, OpenBracket, CloseBracket, 97} @@
  "name" :> {Dash, Underscore, 97, 65, Space, 200} @@
  "log" :> {Backslash, Newline, 110, 120, 48, Nul, 200} @@
  "value" :> {Quote, Backslash, 120, Newline, 205, 183, 184, 240, 144, 128}

MCMaxText ==
  "path" :> 6 @@ "escaped" :> 4 @@ "address" :> 6 @@ "name" :> 4 @@ "log" :> 4 @@ "value" :> 4

\* "", "/", "a", "/a/", ".." and "./a"
MCRoots ==
  {<<>>, <<Slash>>, <<97>>, <<Slash, 97, Slash>>, DotDot, <<Dot, Slash, 97>>}

\* [], [".p"], [".P"], ["", "p/"], ["P", "/"] and one that is not ASCII
MCSplitLists ==
  {<<>>, <<<<Dot, 112>>>>, <<<<Dot, 80>>>>, <<<<>>, <<112, Slash>>>>, <<<<80>>, <<Slash>>>>,
   <<<<200>>>>}

\* The beginnings of strconv's tables, and of plane 2.
MCPrint16 == <<32, 126, 161, 887, 890, 895, 900, 1366>>
MCNotPrint16 == <<173, 907, 909, 930>>
MCPrint32 == <<65536, 65613, 65616, 65629, 131072, 131080>>
MCNotPrint32 == <<12, 39, 59>>

\* "/", "/i.p/%61" with a query, and CONNECT's
MCTargets ==
  {[method |-> "GET", path |-> <<Slash>>, query |-> None, version |-> "HTTP_11"],
   [method |-> "POST", path |-> <<Slash, 105, Dot, 112, Slash, Percent, 54, 49>>,
    query |-> Some(<<97>>), version |-> "HTTP_10"],
   [method |-> "CONNECT", path |-> <<>>, query |-> None, version |-> "HTTP_11"]}

\* Host, Cookie, Content-Length, Content-Type and Authorization are "H", "C", "L", "T" and
\* "A"; "x-y" and "x.y" have one variable between them.
MCHost == <<72>>
MCCookie == <<67>>
MCContentLength == <<76>>
MCContentType == <<84>>
MCAuthorization == <<65>>
MCCommonNames == {<<72>>, <<67>>, <<76>>, <<84>>, <<65>>}
MCFields ==
  [name : {<<104>>, <<99>>, <<116>>, <<97>>, <<120, Dash, 121>>, <<120, Dot, 121>>},
   value : {<<>>, <<49>>, <<233>>}]
  \cup [name : {<<108>>}, value : {<<>>, <<49>>, <<Dash, 49>>, <<57, 57>>}]

\* "/a" and a byte that is not UTF-8
MCDocumentRoot == <<Slash, 97, 200>>
MCRemoteAddr == <<49, Colon, 50>>
===============================================================================
