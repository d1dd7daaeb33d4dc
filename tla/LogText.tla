------------------------------- MODULE LogText --------------------------------
(***************************************************************************)
(* The two places where bytes the client or a script chose are rendered    *)
(* into a message: the log line of crates/frankenrust-core/src/            *)
(* callbacks/log.rs (go_log) and the quoted header value in the rejection  *)
(* of context.rs (go_quote, Go's %q).  A log line is a sequence of bytes,  *)
(* a quoted value a sequence of code points.                               *)
(***************************************************************************)
EXTENDS Bytes

CONSTANTS GO_IS_PRINT_16, GO_IS_NOT_PRINT_16,   \* strconv's tables: sorted sequences, the
          GO_IS_PRINT_32, GO_IS_NOT_PRINT_32    \* print ones of inclusive [lo, hi] pairs

IsTable(t) == t \in Seq(Nat) /\ \A i, j \in DOMAIN t : i < j => t[i] <= t[j]

\* How the tables of the first plane begin: with what the shortcut below 256 stands for.
FirstPairs == <<32, 126, 161, 887>>
FirstHoles == <<173, 907>>

U16 == 0..65535

ASSUME PrintTableAssumption ==
  /\ IsTable(GO_IS_PRINT_16) /\ IsTable(GO_IS_PRINT_32)
  /\ IsTable(GO_IS_NOT_PRINT_16) /\ Range(GO_IS_NOT_PRINT_32) \subseteq U16
  /\ Len(GO_IS_PRINT_16) % 2 = 0 /\ Len(GO_IS_PRINT_32) % 2 = 0
  /\ IsPrefix(FirstPairs, GO_IS_PRINT_16) /\ IsPrefix(FirstHoles, GO_IS_NOT_PRINT_16)
-------------------------------------------------------------------------------
(* log.rs *)

\* Level: slog's scale.
DEBUG == -4
INFO == 0
WARN == 4
ERROR == 8
MIN_LEVEL == INFO

enabled(level) == level >= MIN_LEVEL

SyslogNames == <<"emerg", "alert", "crit", "err", "warning", "notice", "info", "debug">>

\* SyslogLevel::from_raw: out of range is "info".
syslog_from_raw(raw) == IF raw \in 0..7 THEN SyslogNames[raw + 1] ELSE "info"

\* SyslogLevel::level
syslog_level(name) ==
  CASE name \in {"emerg", "alert", "crit", "err"} -> ERROR
    [] name = "warning" -> WARN
    [] name \in {"notice", "info"} -> INFO
    [] name = "debug" -> DEBUG

EscapeByte(b) ==
  CASE b = Backslash -> <<Backslash, Backslash>>
    [] b = Newline -> <<Backslash, 110>>
    [] b = Return -> <<Backslash, 114>>
    [] b = 9 -> <<Backslash, 116>>
    [] b \in 32..126 /\ b # Backslash -> <<b>>
    [] OTHER -> <<Backslash, 120>> \o Hex(b, 2)

escape_for_log_line(bytes) ==
  Loop(LAMBDA out, i : out \o EscapeByte(bytes[i]), <<>>, Len(bytes))

\* go_log through log, emit and write_stderr: nothing when the level is disabled, else one
\* line of the level, the escaped message and the syslog name.  The message is a C string.
go_log(message, raw) ==
  LET name == syslog_from_raw(raw)
  IN  IF enabled(syslog_level(name))
      THEN <<[level |-> syslog_level(name), message |-> escape_for_log_line(CString(message)),
              syslog_level |-> name]>>
      ELSE <<>>
-------------------------------------------------------------------------------
(* go_quote *)

\* partition_point(|e| e < needle), counted from 0.
PartitionPoint(table, needle) == Cardinality({i \in DOMAIN table : table[i] < needle})

\* Whether the pair at `i & !1`, `i | 1` holds the needle.
InPairAt(table, i, needle) ==
  /\ i < Len(table)
  /\ table[i - (i % 2) + 1] <= needle
  /\ needle <= table[i - (i % 2) + 2]

\* Up to u16::MAX.
FirstPlane(v) == v < 65536

\* The shortcut, with its hole for the soft hyphen.
IsPrintLatin(r) == r \in 32..126 \/ (r \in 161..255 /\ r # 173)

\* The holes of the second plane; there are none in the planes after it.
IsHole32(r) == r < 131072 /\ r - 65536 \in Range(GO_IS_NOT_PRINT_32)

go_is_print(r) ==
  CASE r <= 255 -> IsPrintLatin(r)
    [] r > 255 /\ FirstPlane(r) ->
         /\ InPairAt(GO_IS_PRINT_16, PartitionPoint(GO_IS_PRINT_16, r), r)
         /\ r \notin Range(GO_IS_NOT_PRINT_16)
    [] ~FirstPlane(r) ->
         InPairAt(GO_IS_PRINT_32, PartitionPoint(GO_IS_PRINT_32, r), r) /\ ~IsHole32(r)

\* The control characters with a letter of their own: \a \b \t \n \v \f \r.
ControlLetters == [c \in 7..13 |-> <<97, 98, 116, 110, 118, 102, 114>>[c - 6]]

\* Seeded fault: a code point beyond the first plane is written with four
\* digits.
QuoteInFourDigits(r) ==
  CASE r \in {Quote, Backslash} -> <<Backslash, r>>
    [] r \notin {Quote, Backslash} /\ go_is_print(r) -> <<r>>
    [] ~go_is_print(r) /\ r \in DOMAIN ControlLetters -> <<Backslash, ControlLetters[r]>>
    [] ~go_is_print(r) /\ r \notin DOMAIN ControlLetters /\ (r < 32 \/ r = 127) ->
         <<Backslash, 120>> \o Hex(r, 2)
    [] OTHER -> <<Backslash, 117>> \o Hex(r, 4)

quote_rune(r) ==
  CASE r \in {Quote, Backslash} -> <<Backslash, r>>
    [] r \notin {Quote, Backslash} /\ go_is_print(r) -> <<r>>
    [] ~go_is_print(r) /\ r \in DOMAIN ControlLetters -> <<Backslash, ControlLetters[r]>>
    [] ~go_is_print(r) /\ r \notin DOMAIN ControlLetters /\ (r < 32 \/ r = 127) ->
         <<Backslash, 120>> \o Hex(r, 2)
    [] ~go_is_print(r) /\ r > 127 /\ FirstPlane(r) -> <<Backslash, 117>> \o Hex(r, 4)
    [] OTHER -> <<Backslash, 85>> \o Hex(r, 8)

\* A valid stretch rune by rune; at an invalid byte, that byte and on from the next.
QuoteTurn(s) ==
  LET width == RuneWidth(s.rest)
  IN  CASE s.rest = <<>> -> s
        [] s.rest # <<>> /\ width = 0 ->
             [rest |-> Tail(s.rest),
              output |-> s.output \o <<Backslash, 120>> \o Hex(s.rest[1], 2)]
        [] OTHER -> [rest |-> SubSeq(s.rest, width + 1, Len(s.rest)),
                     output |-> s.output \o quote_rune(Rune(SubSeq(s.rest, 1, width)))]

go_quote(bytes) ==
  LET end == Loop(LAMBDA s, k : QuoteTurn(s), [rest |-> bytes, output |-> <<>>], Len(bytes))
  IN  <<Quote>> \o end.output \o <<Quote>>
===============================================================================
