------------------------------- MODULE CgiHosts -------------------------------
(***************************************************************************)
(* The addresses of a request (crates/frankenrust-core/src/cgi.rs): the    *)
(* peer address split into REMOTE_ADDR and REMOTE_PORT, and SERVER_NAME    *)
(* and SERVER_PORT derived from the Host header.                           *)
(***************************************************************************)
EXTENDS Bytes

\* Scheme, with the port CGI gives it: b"80" and b"443".
DefaultPort(scheme) == IF scheme = "Http" THEN <<56, 48>> ELSE <<52, 52, 51>>

Positions(t, byte) == {i \in DOMAIN t : t[i] = byte}

NoHostPort == [ok |-> FALSE, host |-> <<>>, port |-> <<>>]

\* Seeded fault: a host without brackets may hold colons.
SplitAtLastColon(t) ==
  LET colon == Max(Positions(t, Colon))
      bracketed == Head(t) = OpenBracket
      closing == Min(Positions(t, CloseBracket))
      host == IF bracketed THEN SubSeq(t, 2, closing - 1) ELSE SubSeq(t, 1, colon - 1)
  IN  IF \/ Positions(t, Colon) = {}
         \/ bracketed /\ (Positions(t, CloseBracket) = {} \/ closing + 1 # colon)
      THEN NoHostPort
      ELSE [ok |-> TRUE, host |-> host, port |-> SubSeq(t, colon + 1, Len(t))]

\* net.SplitHostPort: "host:port" or "[host]:port".
split_host_port(t) ==
  LET colon == Max(Positions(t, Colon))
      bracketed == Head(t) = OpenBracket
      closing == Min(Positions(t, CloseBracket))
      host == IF bracketed THEN SubSeq(t, 2, closing - 1) ELSE SubSeq(t, 1, colon - 1)
      opened == IF bracketed THEN 2 ELSE 1             \* no "[" from here on
      closed == IF bracketed THEN closing + 1 ELSE 1   \* no "]" from here on
  IN  IF \/ Positions(t, Colon) = {}
         \/ bracketed /\ (Positions(t, CloseBracket) = {} \/ closing + 1 # colon)
         \/ ~bracketed /\ Colon \in Range(host)
         \/ \E i \in opened..Len(t) : t[i] = OpenBracket
         \/ \E i \in closed..Len(t) : t[i] = CloseBracket
      THEN NoHostPort
      ELSE [ok |-> TRUE, host |-> host, port |-> SubSeq(t, colon + 1, Len(t))]

\* A matching pair of brackets around the address is stripped.
Unbracketed(ip) ==
  IF Len(ip) >= 2 /\ Head(ip) = OpenBracket /\ Last(ip) = CloseBracket
  THEN SubSeq(ip, 2, Len(ip) - 1) ELSE ip

\* Strictly first, then at the last colon, then not at all.
split_remote_addr(t) ==
  LET strict == split_host_port(t)
      colon == Max(Positions(t, Colon))
  IN  CASE strict.ok -> [ip |-> strict.host, port |-> strict.port]
        [] ~strict.ok /\ Positions(t, Colon) # {} ->
             [ip |-> Unbracketed(SubSeq(t, 1, colon - 1)), port |-> SubSeq(t, colon + 1, Len(t))]
        [] OTHER -> [ip |-> Unbracketed(t), port |-> <<>>]

derive_server_name(host) ==
  LET parsed == split_host_port(host)
  IN  IF parsed.ok /\ parsed.host # <<>> THEN parsed.host ELSE host

derive_server_port(host, scheme) ==
  LET parsed == split_host_port(host)
  IN  IF parsed.ok /\ parsed.port # <<>> THEN parsed.port ELSE DefaultPort(scheme)

derive_server_name_and_port(host, scheme) ==
  LET parsed == split_host_port(host)
  IN  [name |-> IF parsed.ok /\ parsed.host # <<>> THEN parsed.host ELSE host,
       port |-> IF parsed.ok /\ parsed.port # <<>> THEN parsed.port ELSE DefaultPort(scheme)]
===============================================================================
