--------------------------- MODULE RequestInputProofs --------------------------
(***************************************************************************)
(* One request's way into a script, for every target, every sequence of    *)
(* fields and every body, whatever sizes the source reads in.              *)
(*                                                                         *)
(* The invariant has two halves.  Body: once the request is dispatched,    *)
(* what PHP has, what go_read_post has filled and what the source still    *)
(* has are together the body that was collected.                           *)
(* Derived: each thing PHP reads the request through is a function of what *)
(* the transport has, so that the properties are facts about functions.    *)
(***************************************************************************)
EXTENDS RequestInput, RequestTextProofs

Filled == IF read = None THEN <<>> ELSE read[1].filled

Read == [asked : 1..MaxRead, filled : Seq(Nat), retried : BOOLEAN]

InputTyped ==
  /\ step \in Range(Steps)
  /\ DOMAIN wire = {"line", "fields", "body", "arrives"} /\ wire.arrives \in BOOLEAN
  /\ wire.line \in Targets /\ wire.fields \in Seq(Fields) /\ Len(wire.fields) <= MaxFields
  /\ wire.body \in Seq(Nat)
  /\ source \in [rest : Seq(Nat), failed : BOOLEAN]
  /\ post \in [got : Seq(Nat), ended : BOOLEAN]
  /\ read = None \/ \E r \in Read : read = <<r>>
  /\ read # None => Started

\* Nothing of what was collected is lost, and a short block is the last one.
Body ==
  /\ IF step \in {"wire", "rejected"}
     THEN post = [got |-> <<>>, ended |-> FALSE] /\ read = None /\ source.rest = <<>>
     ELSE collected(wire) = (post.got \o Filled) \o source.rest
  /\ read # None => Len(read[1].filled) <= read[1].asked
  /\ post.ended => source.rest = <<>> \/ source.failed
  /\ post.ended => read = None /\ Started

Context(w) == new_context(build_request(w))
InfoOf(w) == update_request_info(Context(w), NoInfo)
BatchOf(w) == build_server_vars_batch(Context(w))

ServerOf(w) ==
  LET known == as_ffi(BatchOf(w).known)
  IN  [known |-> known,
       http |-> register_headers(known.http_host, BatchOf(w).headers),
       content_type |-> IF InfoOf(w).content_type = None THEN Some(<<>>) ELSE InfoOf(w).content_type,
       path_translated |-> InfoOf(w).path_translated,
       query_string |-> InfoOf(w).query_string,
       request_method |-> InfoOf(w).request_method]

ListOf(w) ==
  [i \in DOMAIN Context(w).request.headers |->
     [name |-> Context(w).request.headers[i].name,
      value |-> join_values(Context(w).request.headers[i].values, <<Comma, Space>>)]]

\* What there is of the request at each stage is computed from what the transport has.
Derived ==
  /\ ctx = IF step \in {"wire", "rejected"} THEN None ELSE Some(Context(wire))
  /\ step \notin {"wire", "rejected"} => validate_request(Context(wire).request)
  /\ info = IF step \in {"wire", "rejected", "dispatched"} THEN NoInfo ELSE InfoOf(wire)
  /\ \/ cookies = None
     \/ step \notin {"wire", "rejected", "dispatched", "info"} /\ cookies = cookie_data(Context(wire))
  /\ batch = IF step \in {"collected", "registered", "listed"} THEN Some(BatchOf(wire)) ELSE None
  /\ server = IF step \in {"registered", "listed"} THEN Some(ServerOf(wire)) ELSE None
  /\ listed = IF step = "listed" THEN Some(ListOf(wire)) ELSE None

LEMMA StepNames ==
  Range(Steps) = {"wire", "rejected", "dispatched", "info", "cookies", "collected",
                  "registered", "listed"}
<1>1. DOMAIN Steps = 1..8
  BY DEF Steps
<1>2. Range(Steps) = {Steps[i] : i \in 1..8}
  BY <1>1 DEF Range
<1>3. 1..8 = {1, 2, 3, 4, 5, 6, 7, 8}
  OBVIOUS
<1>4. /\ Steps[1] = "wire" /\ Steps[2] = "rejected" /\ Steps[3] = "dispatched"
      /\ Steps[4] = "info" /\ Steps[5] = "cookies" /\ Steps[6] = "collected"
      /\ Steps[7] = "registered" /\ Steps[8] = "listed"
  BY DEF Steps
<1> QED BY <1>2, <1>3, <1>4

LEMMA Sizes == MaxFields \in Nat /\ MaxBody \in Nat /\ MaxRead \in Nat
BY RequestInputAssumption

LEMMA Associative == \A s, t, u \in Seq(Nat) : (s \o t) \o u = s \o (t \o u)
BY ConcatAssociative

LEMMA SomeIsNotNone == \A x : Some(x) # None
BY DEF Some, None

LEMMA BodyOfCount ==
  ASSUME NEW n \in Nat
  PROVE  [i \in 1..n |-> i] \in Seq(Nat)
<1>1. [i \in 1..n |-> i] \in [1..n -> Nat]
  OBVIOUS
<1> QED BY <1>1, FunctionIsSeq

LEMMA InputStarts == InputInit => InputTyped /\ Body /\ Derived
<1> SUFFICES ASSUME InputInit PROVE InputTyped /\ Body /\ Derived
  OBVIOUS
<1>1. /\ DOMAIN wire = {"line", "fields", "body", "arrives"} /\ wire.line \in Targets
      /\ wire.fields = <<>> /\ wire.body \in Seq(Nat) /\ wire.arrives \in BOOLEAN
  BY BodyOfCount, Sizes DEF InputInit
<1>2. InputTyped
  BY <1>1, StepNames, Sizes DEF InputInit, InputTyped, None
<1>3. Body
  BY DEF InputInit, Body, None
<1>4. Derived
  BY DEF InputInit, Derived, None
<1> QED BY <1>2, <1>3, <1>4
-------------------------------------------------------------------------------
(* The steps *)

\* The body's readers.
ReadSteps ==
  \/ \E asked \in 1..MaxRead : StartRead(asked)
  \/ \E n \in 1..MaxRead, claimed \in 1..(MaxRead + 1) : SourceReads(n, claimed)
  \/ BufferFull \/ SourceEnds \/ SourceInterrupted \/ SourceFails

\* The steps of the request itself.
RequestSteps ==
  Handle \/ UpdateRequestInfo \/ ReadCookies \/ CollectServerVars \/ RegisterServerVars
  \/ RequestHeaders

LEMMA InputSteps ==
  InputNext <=> (\E field \in Fields : ReceiveField(field)) \/ RequestSteps \/ ReadSteps
BY DEF InputNext, RequestSteps, ReadSteps

LEMMA FieldStep ==
  ASSUME InputTyped, Body, NEW field \in Fields, ReceiveField(field)
  PROVE  InputTyped' /\ Body'
<1>1. /\ wire' = [wire EXCEPT !.fields = Append(@, field)]
      /\ step' = step /\ source' = source /\ read' = read /\ post' = post
      /\ Len(wire.fields) < MaxFields /\ wire.fields \in Seq(Fields) /\ MaxFields \in Nat
  BY Sizes DEF ReceiveField, InputTyped
<1>2. /\ DOMAIN wire' = DOMAIN wire /\ wire'.line = wire.line /\ wire'.body = wire.body
      /\ wire'.arrives = wire.arrives /\ step = "wire"
      /\ wire'.fields = Append(wire.fields, field)
  BY <1>1 DEF InputTyped, ReceiveField
<1>3. wire'.fields \in Seq(Fields) /\ Len(wire'.fields) <= MaxFields
  BY <1>1, <1>2
<1>4. InputTyped'
  BY <1>1, <1>2, <1>3 DEF InputTyped, Started
<1>5. Body'
  BY <1>1, <1>2 DEF Body, Started
<1> QED BY <1>4, <1>5

LEMMA RequestStepEffect ==
  ASSUME InputTyped, RequestSteps
  PROVE  /\ wire' = wire /\ read' = read /\ post' = post
         /\ step' \in Range(Steps) /\ (Started => Started')
         /\ \/ /\ step = "wire" /\ step' = "dispatched"
               /\ source' = [source EXCEPT !.rest = collected(wire)]
            \/ step = "wire" /\ step' = "rejected" /\ source' = source
            \/ {step, step'} \cap {"wire", "rejected"} = {} /\ source' = source
<1> USE DEF Go
<1>1. CASE Handle
  BY <1>1, StepNames DEF Handle, Started
<1>2. CASE UpdateRequestInfo
  BY <1>2, StepNames DEF UpdateRequestInfo, Started
<1>3. CASE ReadCookies
  BY <1>3, StepNames DEF ReadCookies, Started
<1>4. CASE CollectServerVars
  BY <1>4, StepNames DEF CollectServerVars, Started
<1>5. CASE RegisterServerVars
  BY <1>5, StepNames DEF RegisterServerVars, Started
<1>6. CASE RequestHeaders
  BY <1>6, StepNames DEF RequestHeaders, Started
<1> QED BY <1>1, <1>2, <1>3, <1>4, <1>5, <1>6 DEF RequestSteps

LEMMA RequestStep ==
  ASSUME InputTyped, Body, RequestSteps
  PROVE  InputTyped' /\ Body'
<1>1. /\ wire' = wire /\ read' = read /\ post' = post
      /\ step' \in Range(Steps) /\ (Started => Started')
  BY RequestStepEffect
<1>2. collected(wire) \in Seq(Nat)
  BY DEF InputTyped, collected
<1>3. CASE /\ step = "wire" /\ step' = "dispatched"
           /\ source' = [source EXCEPT !.rest = collected(wire)]
  <2>1. /\ source' \in [rest : Seq(Nat), failed : BOOLEAN] /\ source'.rest = collected(wire)
        /\ post.got = <<>> /\ ~post.ended /\ read = None
    <3>1. source \in [rest : Seq(Nat), failed : BOOLEAN]
      BY DEF InputTyped
    <3>2. post = [got |-> <<>>, ended |-> FALSE] /\ read = None
      BY <1>3 DEF Body
    <3> DEFINE c == collected(wire)
    <3> HIDE DEF c
    <3>3. c \in Seq(Nat) /\ source' = [source EXCEPT !.rest = c]
      BY <1>2, <1>3 DEF c
    <3>4. source' \in [rest : Seq(Nat), failed : BOOLEAN] /\ source'.rest = c
      BY <3>1, <3>3
    <3> QED BY <3>2, <3>4 DEF c
  <2>2. (<<>> \o <<>>) \o collected(wire) = collected(wire)
    BY <1>2
  <2>3. Filled' = <<>>
    BY <1>1, <2>1 DEF Filled
  <2> QED BY <1>1, <1>3, <2>1, <2>2, <2>3 DEF InputTyped, Body
<1>4. CASE step = "wire" /\ step' = "rejected" /\ source' = source
  BY <1>1, <1>4 DEF InputTyped, Body
<1>5. CASE {step, step'} \cap {"wire", "rejected"} = {} /\ source' = source
  <2>1. step \notin {"wire", "rejected"} /\ step' \notin {"wire", "rejected"}
    BY <1>5
  <2>2. Filled' = Filled
    BY <1>1 DEF Filled
  <2> QED BY <1>1, <1>5, <2>1, <2>2 DEF InputTyped, Body
<1> QED BY <1>3, <1>4, <1>5, RequestStepEffect

LEMMA ReadFrame ==
  ASSUME ReadSteps
  PROVE  /\ step' = step /\ wire' = wire /\ ctx' = ctx /\ info' = info /\ cookies' = cookies
         /\ batch' = batch /\ server' = server /\ listed' = listed
BY DEF ReadSteps, StartRead, SourceReads, BufferFull, SourceEnds, SourceInterrupted, SourceFails,
       Answer

\* The source's bytes, cut after the first n.
LEMMA CutBody ==
  ASSUME NEW rest \in Seq(Nat), NEW n \in 1..Len(rest)
  PROVE  /\ SubSeq(rest, 1, n) \in Seq(Nat) /\ Len(SubSeq(rest, 1, n)) = n
         /\ SubSeq(rest, n + 1, Len(rest)) \in Seq(Nat)
         /\ SubSeq(rest, 1, n) \o SubSeq(rest, n + 1, Len(rest)) = rest
<1>1. Len(rest) \in Nat /\ \A i \in 1..Len(rest) : rest[i] \in Nat
  OBVIOUS
<1>2. SubSeq(rest, 1, n) \in Seq(Nat) /\ Len(SubSeq(rest, 1, n)) = n
  <2>1. \A i \in 1..n : rest[i] \in Nat
    BY <1>1
  <2> QED BY <1>1, <2>1, SubSeqProperties
<1>3. SubSeq(rest, n + 1, Len(rest)) \in Seq(Nat)
  <2>1. \A i \in (n + 1)..Len(rest) : rest[i] \in Nat
    BY <1>1
  <2> QED BY <1>1, <2>1, SubSeqProperties
<1>4. SubSeq(rest, 1, n) \o SubSeq(rest, n + 1, Len(rest)) = rest
  <2>1. 1 \in 1..(Len(rest) + 1) /\ n \in (1 - 1)..Len(rest) /\ Len(rest) \in n..Len(rest)
    BY <1>1
  <2>2. SubSeq(rest, 1, n) \o SubSeq(rest, n + 1, Len(rest)) = SubSeq(rest, 1, Len(rest))
    BY <2>1, ConcatAdjacentSubSeq
  <2> QED BY <2>2, SubSeqFull
<1> QED BY <1>2, <1>3, <1>4

LEMMA ReadingType ==
  ASSUME InputTyped, Body, read # None
  PROVE  \E r \in Read : /\ read = <<r>> /\ read[1] = r /\ Filled = r.filled
                         /\ r.filled \in Seq(Nat) /\ r.asked \in 1..MaxRead /\ r.retried \in BOOLEAN
                         /\ Len(r.filled) \in Nat /\ Len(r.filled) <= r.asked
                         /\ Room = r.asked - Len(r.filled) /\ Room \in Nat
                         /\ ~post.ended
                         /\ Started /\ collected(wire) = (post.got \o Filled) \o source.rest
<1>1. PICK r \in Read : read = <<r>>
  BY DEF InputTyped
<1>6. Started /\ collected(wire) = (post.got \o Filled) \o source.rest
  BY DEF InputTyped, Body, Started
<1>2. read[1] = r /\ r.filled \in Seq(Nat) /\ r.asked \in 1..MaxRead /\ r.retried \in BOOLEAN
  BY <1>1 DEF Read
<1>3. Len(r.filled) \in Nat /\ Len(r.filled) <= r.asked
  BY <1>2 DEF Body
<1>4. Filled = r.filled /\ Room = r.asked - Len(r.filled) /\ ~post.ended
  BY <1>2 DEF Filled, Room, Body
<1>5. Room \in Nat
  BY <1>2, <1>3, <1>4, Sizes
<1> QED BY <1>1, <1>2, <1>3, <1>4, <1>5, <1>6

\* A block is handed to PHP: nothing is lost, and it is the last one only if it is short.
LEMMA AnswerStep ==
  ASSUME InputTyped, Body, read # None, Answer, source'.rest = source.rest,
         source' \in [rest : Seq(Nat), failed : BOOLEAN],
         Room = 0 \/ source'.rest = <<>> \/ source'.failed
  PROVE  InputTyped' /\ Body'
<1>1. PICK r \in Read : /\ read = <<r>> /\ read[1] = r /\ Filled = r.filled
                        /\ r.filled \in Seq(Nat) /\ r.asked \in 1..MaxRead
                        /\ Len(r.filled) \in Nat /\ Len(r.filled) <= r.asked
                        /\ Room = r.asked - Len(r.filled) /\ Room \in Nat
                        /\ Started /\ collected(wire) = (post.got \o Filled) \o source.rest
  BY ReadingType
<1>2. /\ post' = [got |-> post.got \o r.filled, ended |-> Len(r.filled) < r.asked]
      /\ read' = None /\ step' = step /\ wire' = wire
  BY <1>1 DEF Answer
<1>3. post.got \o r.filled \in Seq(Nat) /\ source.rest \in Seq(Nat)
  BY <1>1, ConcatProperties DEF InputTyped
<1>4. post' \in [got : Seq(Nat), ended : BOOLEAN]
  BY <1>2, <1>3
<1>5. InputTyped'
  BY <1>2, <1>4 DEF InputTyped, Started
<1>6. collected(wire)' = (post'.got \o Filled') \o source'.rest
  <2>1. Filled' = <<>> /\ post'.got = post.got \o r.filled
    BY <1>2 DEF Filled
  <2>2. (post.got \o r.filled) \o <<>> = post.got \o r.filled
    BY <1>3
  <2> QED BY <1>1, <1>2, <2>1, <2>2
<1>7. post'.ended => source'.rest = <<>> \/ source'.failed
  <2>1. post'.ended => Room # 0
    <3>1. post'.ended <=> Len(r.filled) < r.asked
      BY <1>2
    <3>2. r.asked \in Nat
      BY <1>1, Sizes
    <3>3. Room = r.asked - Len(r.filled) /\ Len(r.filled) \in Nat
      BY <1>1
    <3> QED BY <3>1, <3>2, <3>3
  <2> QED BY <2>1
<1>8. Started' /\ step' \notin {"wire", "rejected"}
  BY <1>1, <1>2 DEF Started
<1> QED BY <1>2, <1>5, <1>6, <1>7, <1>8 DEF Body

LEMMA SourceStep ==
  ASSUME InputTyped, Body, NEW n \in 1..MaxRead, NEW claimed \in 1..(MaxRead + 1),
         SourceReads(n, claimed)
  PROVE  InputTyped' /\ Body'
<1>1. PICK r \in Read : /\ read = <<r>> /\ read[1] = r /\ Filled = r.filled
                        /\ r.filled \in Seq(Nat) /\ r.asked \in 1..MaxRead /\ r.retried \in BOOLEAN
                        /\ Len(r.filled) \in Nat /\ Len(r.filled) <= r.asked
                        /\ Room = r.asked - Len(r.filled) /\ Room \in Nat
                        /\ ~post.ended
                        /\ Started /\ collected(wire) = (post.got \o Filled) \o source.rest
  BY ReadingType DEF SourceReads
<1>2. /\ source.rest \in Seq(Nat) /\ source.failed \in BOOLEAN /\ Len(source.rest) \in Nat
      /\ post.got \in Seq(Nat) /\ MaxRead \in Nat
  BY Sizes DEF InputTyped
<1>3. n <= Room /\ n \in 1..Len(source.rest)
  <2> DEFINE T == {Room, Len(source.rest)}
  <2>1. T \subseteq Nat /\ T # {} /\ Room \in T /\ Len(source.rest) \in T
    BY <1>1, <1>2
  <2>2. n \in 1..Min(T)
    BY DEF SourceReads
  <2> HIDE DEF T
  <2>3. Min(T) \in Nat /\ Min(T) <= Room /\ Min(T) <= Len(source.rest)
    BY <2>1, MinIsLeast
  <2> QED BY <1>1, <1>2, <2>2, <2>3
<1>4. Min({claimed, Room}) = n
  <2> DEFINE T == {claimed, Room}
  <2>1. T \subseteq Nat /\ T # {} /\ claimed \in T /\ Room \in T
    BY <1>1, <1>2
  <2>2. n \in T /\ n <= claimed
    BY <1>1, <1>2 DEF SourceReads
  <2>3. Min(T) \in T /\ Min(T) <= n /\ n <= Min(T)
    <3>1. Min(T) \in T /\ \A m \in T : Min(T) <= m
      <4> HIDE DEF T
      <4> QED BY <2>1, MinIsLeast
    <3>2. \A m \in T : n <= m
      BY <1>3, <2>2
    <3> HIDE DEF T
    <3> QED BY <2>2, <3>1, <3>2
  <2> HIDE DEF T
  <2>4. Min(T) \in Nat
    BY <2>1, <2>3
  <2>5. Min(T) = n
    BY <2>3, <2>4
  <2> QED BY <2>5 DEF T
<1> DEFINE filled == r.filled \o SubSeq(source.rest, 1, n)
           rest == SubSeq(source.rest, n + 1, Len(source.rest))
<1>5. /\ read' = [read EXCEPT ![1].filled = @ \o SubSeq(source.rest, 1, n)]
      /\ source' = [source EXCEPT !.rest = SubSeq(@, n + 1, Len(@))]
      /\ step' = step /\ wire' = wire /\ post' = post
  BY <1>4 DEF SourceReads
<1>6. /\ filled \in Seq(Nat) /\ Len(filled) = Len(r.filled) + n /\ rest \in Seq(Nat)
      /\ (post.got \o filled) \o rest = (post.got \o r.filled) \o source.rest
  <2>1. PICK s \in Seq(Nat) : s = source.rest
    BY <1>2
  <2>2. PICK a \in Seq(Nat), b \in Seq(Nat) :
          a = SubSeq(source.rest, 1, n) /\ b = rest /\ Len(a) = n /\ a \o b = source.rest
    <3>1. n \in 1..Len(s)
      BY <1>3, <2>1
    <3>2. /\ SubSeq(s, 1, n) \in Seq(Nat) /\ Len(SubSeq(s, 1, n)) = n
          /\ SubSeq(s, n + 1, Len(s)) \in Seq(Nat)
          /\ SubSeq(s, 1, n) \o SubSeq(s, n + 1, Len(s)) = s
      BY <3>1, CutBody, Zenon
    <3> QED BY <2>1, <3>2, Zenon
  <2> HIDE DEF rest
  <2>3. PICK f \in Seq(Nat), g \in Seq(Nat) : f = r.filled /\ g = post.got
    BY <1>1, <1>2
  <2>4. /\ f \o a \in Seq(Nat) /\ Len(f \o a) = Len(f) + Len(a)
        /\ (g \o (f \o a)) \o b = (g \o f) \o (a \o b)
    <3>1. f \o a \in Seq(Nat) /\ Len(f \o a) = Len(f) + Len(a)
      BY ConcatProperties
    <3> DEFINE c == g \o f
               d == f \o a
    <3>2. c \in Seq(Nat)
      BY ConcatProperties
    <3>3. g \o d = c \o a
      BY Associative
    <3> HIDE DEF c, d
    <3>4. (c \o a) \o b = c \o (a \o b)
      BY <3>2, Associative, Zenon
    <3>5. (g \o d) \o b = c \o (a \o b)
      BY <3>3, <3>4
    <3> QED BY <3>1, <3>5 DEF c, d
  <2> QED BY <2>2, <2>3, <2>4
<1>7. source' \in [rest : Seq(Nat), failed : BOOLEAN] /\ source'.rest = rest /\ source'.failed = source.failed
  BY <1>5, <1>6 DEF InputTyped
<1> DEFINE s == [r EXCEPT !.filled = filled]
<1>8. s \in Read /\ s.filled = filled /\ s.asked = r.asked
  BY <1>1, <1>6 DEF Read
<1>9. read' = <<s>>
  <2>1. read' = [<<r>> EXCEPT ![1].filled = @ \o SubSeq(source.rest, 1, n)]
    BY <1>1, <1>5
  <2>2. \A x, v : [<<x>> EXCEPT ![1] = v] = <<v>>
    OBVIOUS
  <2>3. read' = [<<r>> EXCEPT ![1] = [r EXCEPT !.filled = filled]]
    BY <2>1
  <2> QED BY <2>2, <2>3
<1> HIDE DEF s, filled, rest
<1>10. read' # None /\ read'[1] = s /\ Filled' = filled
  BY <1>8, <1>9 DEF Filled, None
<1>11. InputTyped'
  <2>1. Started'
    BY <1>1, <1>5 DEF InputTyped, Started, None
  <2>2. \E r2 \in Read : read' = <<r2>>
    BY <1>8, <1>9
  <2> QED BY <1>5, <1>7, <2>1, <2>2 DEF InputTyped
<1>12. Body'
  <2>1. collected(wire)' = (post'.got \o Filled') \o source'.rest
    BY <1>1, <1>5, <1>6, <1>7, <1>10
  <2>2. Len(read'[1].filled) <= read'[1].asked
    <3>1. Len(read'[1].filled) = Len(r.filled) + n /\ read'[1].asked = r.asked
      BY <1>6, <1>8, <1>10
    <3>2. r.asked \in Nat
      BY <1>1, <1>2
    <3> QED BY <1>1, <1>3, <3>1, <3>2
  <2>3. ~post'.ended
    BY <1>1, <1>5
  <2>4. step' \notin {"wire", "rejected"}
    BY <1>1, <1>5 DEF Started
  <2> QED BY <2>1, <2>2, <2>3, <2>4 DEF Body
<1> QED BY <1>11, <1>12

LEMMA ReadStep ==
  ASSUME InputTyped, Body, ReadSteps
  PROVE  InputTyped' /\ Body'
<1>1. ASSUME NEW asked \in 1..MaxRead, StartRead(asked) PROVE InputTyped' /\ Body'
  <2> DEFINE r == [asked |-> asked, filled |-> <<>>, retried |-> FALSE]
  <2>1. /\ read = None /\ read' = <<r>> /\ step' = step /\ wire' = wire /\ source' = source
        /\ post' = post /\ ~post.ended /\ Started
    BY <1>1 DEF StartRead, Some
  <2>2. r \in Read /\ read'[1].filled = <<>> /\ read'[1].asked = asked /\ read' # None
    BY <2>1 DEF Read, None
  <2>3. Filled' = <<>> /\ Filled = <<>>
    BY <2>1, <2>2 DEF Filled
  <2>4. InputTyped'
    <3> HIDE DEF r
    <3> QED BY <2>1, <2>2 DEF InputTyped, Started
  <2>5. Body'
    <3> HIDE DEF r
    <3>1. Len(read'[1].filled) <= read'[1].asked
      BY <2>2, Sizes
    <3> QED BY <2>1, <2>3, <3>1 DEF Body, Started
  <2> QED BY <2>4, <2>5
<1>2. CASE BufferFull
  BY <1>2, AnswerStep DEF BufferFull, InputTyped
<1>3. CASE SourceEnds
  BY <1>3, AnswerStep DEF SourceEnds, InputTyped
<1>4. CASE SourceFails
  <2>1. /\ source' = [source EXCEPT !.failed = TRUE] /\ Answer /\ read # None
        /\ source \in [rest : Seq(Nat), failed : BOOLEAN]
    BY <1>4 DEF SourceFails, InputTyped
  <2>2. /\ source'.rest = source.rest /\ source'.failed
        /\ source' \in [rest : Seq(Nat), failed : BOOLEAN]
    BY <2>1
  <2> QED BY <2>1, <2>2, AnswerStep
<1>5. CASE SourceInterrupted
  <2>1. PICK r \in Read : /\ read = <<r>> /\ read[1] = r /\ Filled = r.filled /\ ~post.ended
                          /\ Len(r.filled) <= r.asked
    BY <1>5, ReadingType DEF SourceInterrupted
  <2> DEFINE s == [r EXCEPT !.retried = TRUE]
  <2>2. s \in Read /\ s.filled = r.filled /\ s.asked = r.asked
    BY DEF Read
  <2>3. /\ read' = [<<r>> EXCEPT ![1] = [r EXCEPT !.retried = TRUE]]
        /\ step' = step /\ wire' = wire /\ source' = source /\ post' = post
    BY <1>5, <2>1 DEF SourceInterrupted
  <2>4. \A x, v : [<<x>> EXCEPT ![1] = v] = <<v>>
    OBVIOUS
  <2>5. read' = <<s>>
    BY <2>3, <2>4
  <2> HIDE DEF s
  <2>6. read' # None /\ read'[1] = s /\ Filled' = Filled
    BY <2>1, <2>2, <2>5 DEF Filled, None
  <2>7. InputTyped'
    <3>1. Started'
      BY <1>5, <2>3 DEF InputTyped, Started, SourceInterrupted
    <3>2. \E r2 \in Read : read' = <<r2>>
      BY <2>2, <2>5
    <3> QED BY <2>3, <3>1, <3>2 DEF InputTyped
  <2>8. Body'
    BY <2>1, <2>2, <2>3, <2>6, <1>5, ReadingType DEF Body, Started, SourceInterrupted
  <2> QED BY <2>7, <2>8
<1> QED BY <1>1, <1>2, <1>3, <1>4, <1>5, SourceStep DEF ReadSteps

LEMMA SomeIs == \A x : Some(x)[1] = x
BY DEF Some

LEMMA DerivedFrame ==
  ASSUME Derived, UNCHANGED <<step, wire, ctx, info, cookies, batch, server, listed>>
  PROVE  Derived'
BY DEF Derived, ServerOf, InfoOf, BatchOf, ListOf, Context

LEMMA DerivedStep ==
  ASSUME InputTyped, Derived, RequestSteps
  PROVE  Derived'
<1>1. wire' = wire
  BY RequestStepEffect
<1> USE DEF Go
<1>2. CASE Handle
  <2>1. /\ step = "wire"
        /\ \/ step' = "dispatched" /\ ctx' = Some(Context(wire)) /\ validate_request(Context(wire).request)
           \/ step' = "rejected" /\ ctx' = ctx
        /\ info' = info /\ cookies' = cookies /\ batch' = batch /\ server' = server /\ listed' = listed
    BY <1>2 DEF Handle, Context
  <2> QED BY <1>1, <2>1 DEF Derived
<1>3. CASE UpdateRequestInfo
  <2>1. /\ step = "dispatched" /\ step' = "info" /\ info' = update_request_info(ctx[1], info)
        /\ ctx' = ctx /\ cookies' = cookies /\ batch' = batch /\ server' = server /\ listed' = listed
    BY <1>3 DEF UpdateRequestInfo
  <2>2. ctx[1] = Context(wire) /\ info = NoInfo
    BY <2>1, SomeIs DEF Derived
  <2>3. info' = InfoOf(wire)
    BY <2>1, <2>2 DEF InfoOf
  <2> QED BY <1>1, <2>1, <2>3 DEF Derived
<1>4. CASE ReadCookies
  <2>1. /\ step = "info" /\ step' = "cookies" /\ cookies' \in {cookie_data(ctx[1]), None}
        /\ ctx' = ctx /\ info' = info /\ batch' = batch /\ server' = server /\ listed' = listed
    BY <1>4 DEF ReadCookies
  <2>2. ctx[1] = Context(wire)
    BY <2>1, SomeIs DEF Derived
  <2> QED BY <1>1, <2>1, <2>2 DEF Derived
<1>5. CASE CollectServerVars
  <2>1. /\ step = "cookies" /\ step' = "collected" /\ batch' = Some(build_server_vars_batch(ctx[1]))
        /\ ctx' = ctx /\ info' = info /\ cookies' = cookies /\ server' = server /\ listed' = listed
    BY <1>5 DEF CollectServerVars
  <2>2. ctx[1] = Context(wire)
    BY <2>1, SomeIs DEF Derived
  <2>3. batch' = Some(BatchOf(wire))
    BY <2>1, <2>2 DEF BatchOf
  <2> QED BY <1>1, <2>1, <2>3 DEF Derived
<1>6. CASE RegisterServerVars
  <2>1. /\ step = "collected" /\ step' = "registered"
        /\ ctx' = ctx /\ info' = info /\ cookies' = cookies /\ batch' = batch /\ listed' = listed
    BY <1>6 DEF RegisterServerVars
  <2>2. batch[1] = BatchOf(wire) /\ info = InfoOf(wire)
    BY <2>1, SomeIs DEF Derived
  <2>3. server' = Some(ServerOf(wire))
    BY <1>6, <2>2 DEF RegisterServerVars, ServerOf
  <2> QED BY <1>1, <2>1, <2>3 DEF Derived
<1>7. CASE RequestHeaders
  <2>1. /\ step = "registered" /\ step' = "listed"
        /\ ctx' = ctx /\ info' = info /\ cookies' = cookies /\ batch' = batch /\ server' = server
    BY <1>7 DEF RequestHeaders
  <2>2. ctx[1] = Context(wire)
    BY <2>1, SomeIs DEF Derived
  <2>3. listed' = Some(ListOf(wire))
    BY <1>7, <2>2 DEF RequestHeaders, ListOf
  <2> QED BY <1>1, <2>1, <2>3 DEF Derived
<1> QED BY <1>2, <1>3, <1>4, <1>5, <1>6, <1>7 DEF RequestSteps

InputInv == InputTyped /\ Body /\ Derived

LEMMA InputInvHolds == InputSpec => []InputInv
<1>1. InputInit => InputInv
  BY InputStarts DEF InputInv
<1>2. InputInv /\ [InputNext]_inputVars => InputInv'
  <2> SUFFICES ASSUME InputInv, [InputNext]_inputVars PROVE InputInv'
    OBVIOUS
  <2>1. InputTyped /\ Body /\ Derived
    BY DEF InputInv
  <2>2. ASSUME NEW field \in Fields, ReceiveField(field) PROVE InputInv'
    <3>1. /\ step = "wire" /\ step' = step /\ ctx' = ctx /\ info' = info /\ cookies' = cookies
          /\ batch' = batch /\ server' = server /\ listed' = listed
      BY <2>2 DEF ReceiveField
    <3>2. Derived'
      BY <2>1, <3>1 DEF Derived
    <3> QED BY <2>1, <2>2, <3>2, FieldStep DEF InputInv
  <2>3. CASE RequestSteps
    BY <2>1, <2>3, RequestStep, DerivedStep DEF InputInv
  <2>4. CASE ReadSteps
    <3>1. Derived'
      BY <2>1, <2>4, ReadFrame, DerivedFrame
    <3> QED BY <2>1, <2>4, <3>1, ReadStep DEF InputInv
  <2>5. CASE UNCHANGED inputVars
    <3>1. /\ step' = step /\ wire' = wire /\ source' = source /\ read' = read /\ post' = post
          /\ UNCHANGED <<step, wire, ctx, info, cookies, batch, server, listed>>
      BY <2>5 DEF inputVars
    <3>2. InputTyped' /\ Body'
      BY <2>1, <3>1 DEF InputTyped, Body, Filled, Started, collected
    <3> QED BY <2>1, <3>1, <3>2, DerivedFrame DEF InputInv
  <2> QED BY <2>2, <2>3, <2>4, <2>5, InputSteps
<1> QED BY <1>1, <1>2, PTL DEF InputSpec

\* How far a request is says what of it exists, and PHP has nothing but bytes of the body.
THEOREM InputTypes == InputSpec => []InputTypeOK
<1>1. InputInv => InputTypeOK
  <2> SUFFICES ASSUME InputInv PROVE InputTypeOK
    OBVIOUS
  <2>1. InputTyped /\ Body /\ Derived
    BY DEF InputInv
  <2>2. \A x : Some(x) # None
    BY SomeIsNotNone
  <2>3. /\ (ctx # None) <=> step \notin {"wire", "rejected"}
        /\ (batch # None) <=> step \in {"collected", "registered", "listed"}
        /\ (server # None) <=> step \in {"registered", "listed"}
    BY <2>1, <2>2, Zenon DEF Derived
  <2>4. Range(post.got) \subseteq Range(wire.body)
    <3>0. Range(<<>>) = {}
      BY DEF Range
    <3>1. post.got \in Seq(Nat) /\ Filled \in Seq(Nat) /\ source.rest \in Seq(Nat)
      BY <2>1 DEF InputTyped, Filled, Read
    <3>2. post.got \o Filled \in Seq(Nat) /\ Range(post.got) \subseteq Range(post.got \o Filled)
      BY <3>1, RangeConcatenation, ConcatProperties
    <3>3. PICK b \in Seq(Nat) : b = post.got \o Filled
      BY <3>2
    <3>4. Range(b) \subseteq Range(b \o source.rest)
      BY <3>1, RangeConcatenation
    <3>5. CASE step \in {"wire", "rejected"}
      BY <2>1, <3>0, <3>5 DEF Body
    <3>6. CASE step \notin {"wire", "rejected"}
      <4>1. collected(wire) = b \o source.rest
        BY <2>1, <3>3, <3>6 DEF Body
      <4>2. Range(collected(wire)) \subseteq Range(wire.body)
        BY <3>0 DEF collected
      <4> QED BY <3>2, <3>3, <3>4, <4>1, <4>2
    <3> QED BY <3>5, <3>6
  <2> QED BY <2>1, <2>3, <2>4 DEF InputTypeOK, InputTyped
<1> QED BY <1>1, InputInvHolds, PTL

-------------------------------------------------------------------------------
(* The header map *)

LEMMA FieldTyped ==
  ASSUME NEW f \in Fields
  PROVE  /\ f.name \in Text /\ f.name = Lowercase(f.name) /\ ValidName(f.name)
         /\ f.value \in Text /\ Nul \notin Range(f.value)
<1>1. /\ f.name \in Seq(Byte) /\ f.name = Lowercase(f.name)
      /\ \A i \in DOMAIN f.name : is_header_field_byte(f.name[i])
      /\ f.value \in Seq(Byte) /\ Nul \notin Range(f.value)
  BY WireAssumption
<1>2. DOMAIN f.name = 1..Len(f.name)
  BY <1>1
<1> QED BY <1>1, <1>2 DEF Text, ValidName

LEMMA LowercaseText ==
  ASSUME NEW t \in Text
  PROVE  /\ DOMAIN Lowercase(t) = 1..Len(t) /\ Lowercase(t) \in Text /\ Len(Lowercase(t)) = Len(t)
         /\ \A i \in 1..Len(t) : Lowercase(t)[i] = ToLower(t[i])
<1>1. DOMAIN t = 1..Len(t) /\ Len(t) \in Nat /\ \A i \in 1..Len(t) : t[i] \in Byte
  BY DEF Text
<1>2. Lowercase(t) \in [1..Len(t) -> Byte] /\ \A i \in 1..Len(t) : Lowercase(t)[i] = ToLower(t[i])
  BY <1>1, CaseOfByte DEF Lowercase
<1> QED BY <1>1, <1>2, FunctionIsSeq DEF Text

LEMMA CanonicalLowercase ==
  ASSUME NEW t \in Text
  PROVE  Lowercase(canonical_header_name(t)) = Lowercase(t)
<1> DEFINE c == canonical_header_name(t)
<1>1. CASE ~ValidName(t)
  BY <1>1, CanonicalName
<1>2. CASE ValidName(t)
  <2>1. c \in Text /\ Len(c) = Len(t) /\ c = [i \in 1..Len(t) |-> CanonicalByte(t, i)]
    BY <1>2, CanonicalName
  <2>2. \A i \in 1..Len(t) : ToLower(c[i]) = ToLower(t[i])
    BY <2>1, CanonicalByteType
  <2> HIDE DEF c
  <2>3. \A i \in 1..Len(t) : Lowercase(c)[i] = Lowercase(t)[i]
    BY <2>1, <2>2, LowercaseText
  <2>4. Lowercase(c) \in Text /\ Lowercase(t) \in Text /\ Len(Lowercase(c)) = Len(Lowercase(t)) /\ Len(Lowercase(t)) = Len(t)
    BY <2>1, LowercaseText
  <2>5. Lowercase(c) = Lowercase(t)
    BY <2>3, <2>4, SeqEqual DEF Text
  <2> QED BY <2>5 DEF c
<1> QED BY <1>1, <1>2

LEMMA FieldByteLower ==
  ASSUME NEW b \in Byte, is_header_field_byte(ToLower(b))
  PROVE  is_header_field_byte(b)
BY DEF Byte, ToLower, IsUpper, IsLower, IsDigit, IsAlphanumeric, is_header_field_byte

\* A canonical name is a field's if the two are the same in lower case.
LEMMA SameName ==
  ASSUME NEW a \in Text, ValidName(a), NEW c \in Text, canonical_header_name(c) = c
  PROVE  canonical_header_name(a) = c <=> Lowercase(a) = Lowercase(c)
<1>1. canonical_header_name(a) = c => Lowercase(a) = Lowercase(c)
  BY CanonicalLowercase
<1>2. ASSUME Lowercase(a) = Lowercase(c) PROVE canonical_header_name(a) = c
  <2>1. Len(a) = Len(c) /\ \A i \in 1..Len(a) : ToLower(a[i]) = ToLower(c[i])
    BY <1>2, LowercaseText
  <2>2. \A i \in 1..Len(c) : is_header_field_byte(c[i])
    <3> TAKE i \in 1..Len(c)
    <3>1. a[i] \in Byte /\ c[i] \in Byte /\ is_header_field_byte(a[i]) /\ ToLower(a[i]) = ToLower(c[i])
      BY <2>1 DEF Text, ValidName
    <3>2. is_header_field_byte(ToLower(c[i]))
      BY <3>1, CaseOfFieldByte
    <3> QED BY <3>1, <3>2, FieldByteLower
  <2>3. canonical_header_name(a) = canonical_header_name(c)
    BY <2>1, <2>2, CanonicalForm DEF ValidName
  <2> QED BY <2>3
<1> QED BY <1>1, <1>2

Entry == [name : Text, values : Seq(Text)]

Headers == Seq(Entry)

Distinct(h) == \A i, j \in 1..Len(h) : h[i].name = h[j].name => i = j

Names(h) == {h[i].name : i \in 1..Len(h)}

LEMMA FindEntry ==
  ASSUME NEW h \in Headers, Distinct(h), NEW name
  PROVE  /\ EntryOf(h, name) \in 0..Len(h)
         /\ \A i \in 1..Len(h) : EntryOf(h, name) = i <=> h[i].name = canonical_header_name(name)
         /\ EntryOf(h, name) = 0 <=> canonical_header_name(name) \notin Names(h)
<1> DEFINE I == {i \in 1..Len(h) : h[i].name = canonical_header_name(name)}
<1>1. Len(h) \in Nat
  BY DEF Headers
<1>2. EntryOf(h, name) = IF I # {} THEN Min(I) ELSE 0
  BY DEF EntryOf, SelectInSeq
<1>3. I \subseteq Nat /\ I \subseteq 1..Len(h) /\ \A i, j \in I : i = j
  BY <1>1 DEF Distinct
<1>4. I # {} => Min(I) \in I
  <2> HIDE DEF I
  <2> QED BY <1>3, MinIsLeast
<1>5. I = {} <=> canonical_header_name(name) \notin Names(h)
  BY DEF Names
<1>6. \A i \in 1..Len(h) : i \in I <=> h[i].name = canonical_header_name(name)
  OBVIOUS
<1> HIDE DEF I
<1>7. CASE I = {}
  BY <1>1, <1>2, <1>5, <1>6, <1>7
<1>8. CASE I # {}
  <2>1. EntryOf(h, name) \in I /\ EntryOf(h, name) \in 1..Len(h)
    BY <1>2, <1>3, <1>4, <1>8
  <2>2. \A i \in 1..Len(h) : EntryOf(h, name) = i <=> i \in I
    BY <1>3, <2>1
  <2>3. EntryOf(h, name) \in 0..Len(h) /\ EntryOf(h, name) # 0
    BY <1>1, <2>1
  <2> QED BY <1>5, <1>6, <1>8, <2>2, <2>3
<1> QED BY <1>7, <1>8

LEMMA GetAll ==
  ASSUME NEW h \in Headers, Distinct(h), NEW name
  PROVE  /\ \A i \in 1..Len(h) : h[i].name = canonical_header_name(name) =>
                                   headers_get_all(h, name) = h[i].values
         /\ canonical_header_name(name) \notin Names(h) => headers_get_all(h, name) = <<>>
<1>1. Len(h) \in Nat
  BY DEF Headers
<1> QED BY <1>1, FindEntry DEF headers_get_all

\* What an insert does to the map.
LEMMA Inserted ==
  ASSUME NEW h \in Headers, Distinct(h), NEW name \in Text, NEW value \in Text
  PROVE  LET g == headers_insert(h, name, value)
             c == canonical_header_name(name)
         IN  /\ g \in Headers /\ Distinct(g) /\ Names(g) = Names(h) \cup {c}
             /\ \A d : IF canonical_header_name(d) = c
                       THEN headers_get_all(g, d) = Append(headers_get_all(h, d), value)
                       ELSE headers_get_all(g, d) = headers_get_all(h, d)
<1> DEFINE g == headers_insert(h, name, value)
           c == canonical_header_name(name)
           e == EntryOf(h, name)
           N == Len(h)
<1>1. N \in Nat /\ DOMAIN h = 1..N /\ c \in Text
      /\ \A i \in 1..N : h[i] \in Entry /\ h[i].name \in Text /\ h[i].values \in Seq(Text)
  <2>1. N \in Nat /\ DOMAIN h = 1..N /\ \A i \in 1..N : h[i] \in Entry
    BY DEF Headers
  <2>2. \A x \in Entry : x.name \in Text /\ x.values \in Seq(Text)
    BY DEF Entry
  <2>3. c \in Text
    BY CanonicalName
  <2> QED BY <2>1, <2>2, <2>3
<1>2. /\ e \in 0..N
      /\ \A i \in 1..N : e = i <=> h[i].name = c
      /\ e = 0 <=> c \notin Names(h)
  BY FindEntry
<1>3. g = IF e > 0 THEN [h EXCEPT ![e].values = Append(@, value)]
          ELSE Append(h, [name |-> c, values |-> <<value>>])
  BY DEF headers_insert
<1> HIDE DEF g, c, e, N
<1>4. CASE e > 0
  <2> DEFINE ne == [h[e] EXCEPT !.values = Append(@, value)]
  <2>1. e \in 1..N /\ h[e].name = c
    BY <1>1, <1>2, <1>4
  <2>2. ne \in Entry /\ ne.name = c /\ ne.values = Append(h[e].values, value)
    <3>1. h[e] \in Entry
      BY <1>1, <2>1
    <3>2. \A x \in Entry : LET y == [x EXCEPT !.values = Append(@, value)]
                           IN  y \in Entry /\ y.name = x.name /\ y.values = Append(x.values, value)
      <4> TAKE x \in Entry
      <4>1. Append(x.values, value) \in Seq(Text)
        BY DEF Entry
      <4> QED BY <4>1 DEF Entry
    <3> QED BY <2>1, <3>1, <3>2
  <2>3. g = [i \in 1..N |-> IF i = e THEN ne ELSE h[i]]
    BY <1>1, <1>3, <1>4, <2>1
  <2> HIDE DEF ne
  <2>4. g \in [1..N -> Entry]
    BY <1>1, <2>2, <2>3
  <2>5. g \in Headers /\ Len(g) = N
    BY <1>1, <2>4, FunctionIsSeq DEF Headers
  <2>6. \A i \in 1..N : g[i].name = h[i].name
    BY <2>1, <2>2, <2>3
  <2>7. Distinct(g)
    BY <2>5, <2>6 DEF Distinct, N
  <2>8. Names(g) = Names(h) /\ c \in Names(h)
    BY <2>1, <2>5, <2>6 DEF Names, N
  <2>9. ASSUME NEW d, canonical_header_name(d) = c
        PROVE  headers_get_all(g, d) = Append(headers_get_all(h, d), value)
    <3>1. headers_get_all(g, d) = g[e].values
      BY <2>1, <2>5, <2>6, <2>7, <2>9, GetAll
    <3>2. headers_get_all(h, d) = h[e].values
      BY <2>1, <2>9, GetAll DEF N
    <3> QED BY <2>1, <2>2, <2>3, <3>1, <3>2
  <2>10. ASSUME NEW d, canonical_header_name(d) # c
         PROVE  headers_get_all(g, d) = headers_get_all(h, d)
    <3>1. CASE canonical_header_name(d) \in Names(h)
      <4>1. PICK i \in 1..N : h[i].name = canonical_header_name(d)
        BY <3>1 DEF Names, N
      <4>2. i # e /\ g[i] = h[i]
        BY <2>1, <2>3, <2>10, <4>1
      <4>3. headers_get_all(g, d) = g[i].values
        BY <2>5, <2>6, <2>7, <4>1, GetAll
      <4>4. headers_get_all(h, d) = h[i].values
        BY <4>1, GetAll DEF N
      <4> QED BY <4>2, <4>3, <4>4
    <3>2. CASE canonical_header_name(d) \notin Names(h)
      BY <2>5, <2>7, <2>8, <3>2, GetAll
    <3> QED BY <3>1, <3>2
  <2> QED BY <2>5, <2>7, <2>8, <2>9, <2>10 DEF g, c
<1>5. CASE ~(e > 0)
  <2> DEFINE ne == [name |-> c, values |-> <<value>>]
  <2>1. e = 0 /\ c \notin Names(h)
    BY <1>1, <1>2, <1>5
  <2>2. ne \in Entry /\ ne.name = c /\ ne.values = <<value>>
    BY <1>1 DEF Entry
  <2>3. g = Append(h, ne)
    BY <1>3, <1>5
  <2> HIDE DEF ne
  <2>4. /\ g \in Headers /\ Len(g) = N + 1 /\ g[N + 1] = ne
        /\ \A i \in 1..N : g[i] = h[i]
    BY <2>2, <2>3, AppendProperties DEF Headers, N
  <2>5. \A i \in 1..(N + 1) : i \in 1..N \/ i = N + 1
    BY <1>1
  <2>6. Distinct(g)
    <3>1. \A i \in 1..N : g[i].name # c /\ g[i].name = h[i].name
      BY <2>1, <2>4 DEF Names, N
    <3>2. g[N + 1].name = c
      BY <2>2, <2>4
    <3> QED BY <2>4, <2>5, <3>1, <3>2 DEF Distinct, N
  <2>7. Names(g) = Names(h) \cup {c}
    <3>1. N + 1 \in 1..(N + 1) /\ 1..N \subseteq 1..(N + 1)
      BY <1>1
    <3> QED BY <2>2, <2>4, <2>5, <3>1 DEF Names, N
  <2>8. ASSUME NEW d, canonical_header_name(d) = c
        PROVE  headers_get_all(g, d) = Append(headers_get_all(h, d), value)
    <3>1. N + 1 \in 1..(N + 1)
      BY <1>1
    <3>2. headers_get_all(g, d) = <<value>>
      <4>1. N + 1 \in 1..Len(g) /\ g[N + 1].name = canonical_header_name(d)
        BY <2>2, <2>4, <2>8, <3>1
      <4>2. headers_get_all(g, d) = g[N + 1].values
        BY <2>4, <2>6, <4>1, GetAll
      <4> QED BY <2>2, <2>4, <4>2
    <3>3. headers_get_all(h, d) = <<>>
      BY <2>1, <2>8, GetAll
    <3> QED BY <3>2, <3>3
  <2>9. ASSUME NEW d, canonical_header_name(d) # c
         PROVE  headers_get_all(g, d) = headers_get_all(h, d)
    <3>1. CASE canonical_header_name(d) \in Names(h)
      <4>1. PICK i \in 1..N : h[i].name = canonical_header_name(d)
        BY <3>1 DEF Names, N
      <4>2. i \in 1..(N + 1) /\ g[i] = h[i]
        BY <1>1, <2>4
      <4>3. headers_get_all(g, d) = g[i].values
        BY <2>4, <2>6, <4>1, <4>2, GetAll
      <4>4. headers_get_all(h, d) = h[i].values
        BY <4>1, GetAll DEF N
      <4> QED BY <4>2, <4>3, <4>4
    <3>2. CASE canonical_header_name(d) \notin Names(h)
      BY <2>4, <2>6, <2>7, <2>9, <3>2, GetAll
    <3> QED BY <3>1, <3>2
  <2> QED BY <2>4, <2>6, <2>7, <2>8, <2>9 DEF g, c
<1> QED BY <1>4, <1>5

\* The values of the fields that have a name in lower case, in order of arrival.
ValuesLike(fields, low) ==
  Loop(LAMBDA values, i : IF Lowercase(fields[i].name) = low
                          THEN Append(values, fields[i].value) ELSE values,
       <<>>, Len(fields))

Wired == Seq(Fields)

LEMMA ValuesLoop ==
  ASSUME NEW fields \in Wired, NEW low
  PROVE  \E v \in [0..Len(fields) -> Seq(CText)] :
           /\ v[0] = <<>>
           /\ \A n \in 1..Len(fields) :
                v[n] = IF Lowercase(fields[n].name) = low
                       THEN Append(v[n - 1], fields[n].value) ELSE v[n - 1]
           /\ ValuesLike(fields, low) = v[Len(fields)]
<1> DEFINE N == Len(fields)
           Turn(values, i) == IF Lowercase(fields[i].name) = low
                              THEN Append(values, fields[i].value) ELSE values
           turn == [p \in Seq(CText) \X (1..N) |-> Turn(p[1], p[2])]
           f == CHOOSE g : g = [k \in 0..N |-> IF k = 0 THEN <<>> ELSE Turn(g[k - 1], k)]
<1>1. N \in Nat /\ \A i \in 1..N : fields[i] \in Fields
  BY DEF Wired
<1>2. \A i \in 1..N : fields[i].value \in CText
  BY <1>1, FieldTyped, PlainText
<1>3. \A s \in Seq(CText), i \in 1..N : Turn(s, i) \in Seq(CText)
  BY <1>2
<1> HIDE DEF Turn, N
<1>4. turn \in Turns(Seq(CText), N)
  BY <1>3 DEF Turns
<1>5. PICK g : IsLoop(g, Seq(CText), N, <<>>, turn)
  <2>1. <<>> \in Seq(CText)
    OBVIOUS
  <2> HIDE DEF turn, f
  <2>2. N \in Nat
    BY <1>1
  <2> QED BY <1>4, <2>1, <2>2, LoopExists
<1>6. \A k \in 0..N : k # 0 => turn[<<g[k - 1], k>>] = Turn(g[k - 1], k)
  <2> TAKE k \in 0..N
  <2> HAVE k # 0
  <2>1. g \in [0..N -> Seq(CText)]
    BY <1>5 DEF IsLoop
  <2>2. k - 1 \in 0..N /\ k \in 1..N
    BY <1>1
  <2>3. <<g[k - 1], k>> \in Seq(CText) \X (1..N)
    BY <2>1, <2>2
  <2> QED BY <2>3
<1> HIDE DEF turn
<1>7. g = [k \in 0..N |-> IF k = 0 THEN <<>> ELSE Turn(g[k - 1], k)]
  BY <1>5, <1>6 DEF IsLoop
<1>8. f = [k \in 0..N |-> IF k = 0 THEN <<>> ELSE Turn(f[k - 1], k)]
  BY <1>7, Zenon
<1>9. ValuesLike(fields, low) = f[N]
  BY Zenon DEF ValuesLike, Loop, N, Turn
<1> HIDE DEF f
<1>10. f[0] = <<>> /\ \A k \in 1..N : f[k] = Turn(f[k - 1], k)
  BY <1>1, <1>8
<1> DEFINE G == {n \in 0..N : f[n] \in Seq(CText)}
<1>11. 0 \in G /\ \A n \in 1..N : n - 1 \in G => n \in G
  <2>1. f[0] \in Seq(CText)
    BY <1>10
  <2>2. \A n \in 1..N : f[n - 1] \in Seq(CText) => f[n] \in Seq(CText)
    BY <1>3, <1>10
  <2> QED BY <1>1, <2>1, <2>2
<1>12. 0..N \subseteq G
  <2> HIDE DEF G
  <2> QED BY <1>1, <1>11, Induction
<1>13. f \in [0..N -> Seq(CText)]
  BY <1>8, <1>12
<1>14. \A k \in 1..N : f[k] = IF Lowercase(fields[k].name) = low
                              THEN Append(f[k - 1], fields[k].value) ELSE f[k - 1]
  BY <1>10 DEF Turn
<1> QED BY <1>9, <1>10, <1>13, <1>14 DEF N

Mapped == {h \in Headers : Distinct(h)}

LEMMA BuildLoop ==
  ASSUME NEW fields \in Wired
  PROVE  \E v \in [0..Len(fields) -> Mapped] :
           /\ v[0] = <<>>
           /\ \A n \in 1..Len(fields) :
                v[n] = headers_insert(v[n - 1], fields[n].name, fields[n].value)
           /\ build_headers(fields) = v[Len(fields)]
<1> DEFINE N == Len(fields)
           Turn(h, i) == headers_insert(h, fields[i].name, fields[i].value)
           turn == [p \in Mapped \X (1..N) |-> Turn(p[1], p[2])]
           f == CHOOSE g : g = [k \in 0..N |-> IF k = 0 THEN <<>> ELSE Turn(g[k - 1], k)]
<1>1. N \in Nat /\ \A i \in 1..N : fields[i] \in Fields
  BY DEF Wired
<1>2. \A i \in 1..N : fields[i].name \in Text /\ fields[i].value \in Text
  BY <1>1, FieldTyped
<1>3. \A h \in Mapped, i \in 1..N : Turn(h, i) \in Mapped
  <2> TAKE h \in Mapped, i \in 1..N
  <2>1. fields[i].name \in Text /\ fields[i].value \in Text
    BY <1>2
  <2>2. h \in Headers /\ Distinct(h)
    BY DEF Mapped
  <2>3. Turn(h, i) \in Headers /\ Distinct(Turn(h, i))
    BY <2>1, <2>2, Inserted
  <2> QED BY <2>3 DEF Mapped
<1> HIDE DEF Turn, N
<1>4. turn \in Turns(Mapped, N)
  BY <1>3 DEF Turns
<1>0. <<>> \in Mapped
  BY DEF Mapped, Headers, Distinct
<1>5. PICK g : IsLoop(g, Mapped, N, <<>>, turn)
  <2> HIDE DEF turn, f
  <2>2. N \in Nat
    BY <1>1
  <2> QED BY <1>0, <1>4, <2>2, LoopExists
<1>6. \A k \in 0..N : k # 0 => turn[<<g[k - 1], k>>] = Turn(g[k - 1], k)
  <2> TAKE k \in 0..N
  <2> HAVE k # 0
  <2>1. g \in [0..N -> Mapped]
    BY <1>5 DEF IsLoop
  <2>2. k - 1 \in 0..N /\ k \in 1..N
    BY <1>1
  <2>3. <<g[k - 1], k>> \in Mapped \X (1..N)
    BY <2>1, <2>2
  <2> QED BY <2>3
<1> HIDE DEF turn
<1>7. g = [k \in 0..N |-> IF k = 0 THEN <<>> ELSE Turn(g[k - 1], k)]
  BY <1>5, <1>6 DEF IsLoop
<1>8. f = [k \in 0..N |-> IF k = 0 THEN <<>> ELSE Turn(f[k - 1], k)]
  BY <1>7, Zenon
<1>9. build_headers(fields) = f[N]
  BY Zenon DEF build_headers, Loop, N, Turn
<1> HIDE DEF f
<1>10. f[0] = <<>> /\ \A k \in 1..N : f[k] = Turn(f[k - 1], k)
  BY <1>1, <1>8
<1> DEFINE G == {n \in 0..N : f[n] \in Mapped}
<1>11. 0 \in G /\ \A n \in 1..N : n - 1 \in G => n \in G
  BY <1>0, <1>1, <1>3, <1>10
<1>12. 0..N \subseteq G
  <2> HIDE DEF G
  <2> QED BY <1>1, <1>11, Induction
<1>13. f \in [0..N -> Mapped]
  BY <1>8, <1>12
<1> QED BY <1>9, <1>10, <1>13 DEF N, Turn

\* The map has one entry per name on the wire, and the entry has the wire's values.
LEMMA Built ==
  ASSUME NEW fields \in Wired
  PROVE  LET H == build_headers(fields)
         IN  /\ H \in Headers /\ Distinct(H)
             /\ Names(H) = {canonical_header_name(fields[i].name) : i \in 1..Len(fields)}
             /\ \A c \in Text : canonical_header_name(c) = c =>
                                  headers_get_all(H, c) = ValuesLike(fields, Lowercase(c))
<1> DEFINE N == Len(fields)
           name(i) == canonical_header_name(fields[i].name)
<1>1. PICK h \in [0..N -> Mapped] :
        /\ h[0] = <<>>
        /\ \A n \in 1..N : h[n] = headers_insert(h[n - 1], fields[n].name, fields[n].value)
        /\ build_headers(fields) = h[N]
  BY BuildLoop
<1>2. N \in Nat /\ \A i \in 1..N : fields[i] \in Fields
  BY DEF Wired
<1>3. \A i \in 1..N : fields[i].name \in Text /\ fields[i].value \in Text /\ ValidName(fields[i].name)
  BY <1>2, FieldTyped
<1>4. \A n \in 0..N : h[n] \in Headers /\ Distinct(h[n])
  BY <1>1 DEF Mapped
<1>5. ASSUME NEW n \in 1..N
      PROVE  /\ Names(h[n]) = Names(h[n - 1]) \cup {name(n)}
             /\ \A d : IF canonical_header_name(d) = name(n)
                       THEN headers_get_all(h[n], d) = Append(headers_get_all(h[n - 1], d), fields[n].value)
                       ELSE headers_get_all(h[n], d) = headers_get_all(h[n - 1], d)
  <2>1. n - 1 \in 0..N
    BY <1>2
  <2>2. h[n - 1] \in Headers /\ Distinct(h[n - 1])
    BY <1>4, <2>1
  <2>3. fields[n].name \in Text /\ fields[n].value \in Text
    BY <1>3
  <2>4. h[n] = headers_insert(h[n - 1], fields[n].name, fields[n].value)
    BY <1>1
  <2> QED BY <2>2, <2>3, <2>4, Inserted
<1> HIDE DEF N
<1>6. Names(h[N]) = {name(i) : i \in 1..N}
  <2> DEFINE G == {n \in 0..N : Names(h[n]) = {name(i) : i \in 1..n}}
  <2> HIDE DEF name
  <2>1. 0 \in G
    BY <1>1, <1>2 DEF Names
  <2>2. ASSUME NEW n \in 1..N, n - 1 \in G PROVE n \in G
    <3>1. Names(h[n]) = {name(i) : i \in 1..(n - 1)} \cup {name(n)}
      BY <1>5, <2>2
    <3>2. 1..n = (1..(n - 1)) \cup {n} /\ n \in 0..N
      BY <1>2
    <3>3. Names(h[n]) = {name(i) : i \in 1..n}
      BY <3>1, <3>2
    <3> QED BY <3>2, <3>3
  <2>3. N \in G
    <3> HIDE DEF G
    <3> QED BY <1>2, <2>1, <2>2, Induction
  <2> QED BY <2>3
<1>7. ASSUME NEW c \in Text, canonical_header_name(c) = c
      PROVE  headers_get_all(h[N], c) = ValuesLike(fields, Lowercase(c))
  <2>1. PICK v \in [0..N -> Seq(CText)] :
           /\ v[0] = <<>>
           /\ \A n \in 1..N :
                v[n] = IF Lowercase(fields[n].name) = Lowercase(c)
                       THEN Append(v[n - 1], fields[n].value) ELSE v[n - 1]
           /\ ValuesLike(fields, Lowercase(c)) = v[N]
    BY ValuesLoop DEF N
  <2> DEFINE G == {n \in 0..N : headers_get_all(h[n], c) = v[n]}
  <2>2. 0 \in G
    <3>1. 0 \in 0..N /\ h[0] = <<>> /\ Names(h[0]) = {}
      BY <1>1, <1>2 DEF Names
    <3>2. headers_get_all(h[0], c) = <<>>
      BY <1>4, <3>1, GetAll
    <3> QED BY <2>1, <3>1, <3>2
  <2>3. ASSUME NEW n \in 1..N, n - 1 \in G PROVE n \in G
    <3>1. canonical_header_name(c) = name(n) <=> Lowercase(fields[n].name) = Lowercase(c)
      BY <1>3, <1>7, SameName
    <3>2. headers_get_all(h[n - 1], c) = v[n - 1]
      BY <2>3
    <3>3. v[n] = IF canonical_header_name(c) = name(n)
                 THEN Append(v[n - 1], fields[n].value) ELSE v[n - 1]
      BY <2>1, <3>1
    <3> HIDE DEF name
    <3>4. headers_get_all(h[n], c) = v[n]
      BY <1>5, <3>2, <3>3
    <3>5. n \in 0..N
      BY <1>2
    <3> QED BY <3>4, <3>5
  <2>4. N \in G
    <3> HIDE DEF G, name
    <3>1. N \in Nat /\ N \in 0..N
      BY <1>2
    <3>2. 0..N \subseteq G
      BY <3>1, <2>2, <2>3, Induction
    <3> QED BY <3>1, <3>2
  <2> QED BY <2>1, <2>4
<1>8. h[N] \in Headers /\ Distinct(h[N])
  BY <1>2, <1>4
<1> QED BY <1>1, <1>6, <1>7, <1>8 DEF N

\* Each entry has a name from the wire, and all its values.
LEMMA BuiltEntry ==
  ASSUME NEW fields \in Wired, NEW i \in 1..Len(build_headers(fields))
  PROVE  LET e == build_headers(fields)[i]
         IN  /\ e.name \in Text
             /\ \E k \in 1..Len(fields) : /\ e.name = canonical_header_name(fields[k].name)
                                          /\ Lowercase(e.name) = fields[k].name
                                          /\ e.values = ValuesLike(fields, fields[k].name)
<1> DEFINE H == build_headers(fields)
           e == H[i]
<1>1. /\ H \in Headers /\ Distinct(H)
      /\ Names(H) = {canonical_header_name(fields[k].name) : k \in 1..Len(fields)}
      /\ \A c \in Text : canonical_header_name(c) = c =>
                           headers_get_all(H, c) = ValuesLike(fields, Lowercase(c))
  BY Built
<1> HIDE DEF H
<1>2. e.name \in Names(H)
  BY DEF Names, H
<1>3. PICK k \in 1..Len(fields) : e.name = canonical_header_name(fields[k].name)
  BY <1>1, <1>2
<1>4. fields[k].name \in Text /\ fields[k].name = Lowercase(fields[k].name)
  BY FieldTyped DEF Wired
<1>5. /\ e.name \in Text /\ Lowercase(e.name) = fields[k].name
      /\ canonical_header_name(e.name) = e.name
  BY <1>3, <1>4, CanonicalName, CanonicalLowercase, NamesAgree
<1>6. e.values = headers_get_all(H, e.name)
  BY <1>1, <1>5, GetAll DEF H
<1>7. e.values = ValuesLike(fields, fields[k].name)
  BY <1>1, <1>5, <1>6
<1> QED BY <1>3, <1>5, <1>7 DEF H
-------------------------------------------------------------------------------
(* What the context is made of *)

Query(line) == IF line.query = None THEN <<>> ELSE line.query[1]

LEMMA ContextParts ==
  ASSUME NEW w
  PROVE  /\ Context(w).request.headers = build_headers(w.fields)
         /\ Context(w).request.query = Query(w.line)
         /\ Context(w).request_uri = raw_target(w.line)
         /\ Context(w).request.content_length = Len(collected(w))
         /\ Context(w).document_root = from_utf8_lossy(DocumentRoot)
         /\ Context(w).paths = split_cgi_path(DocumentRoot, <<PhpExt>>,
                                              resolve_directory_index(percent_decode(w.line.path)))
<1> DEFINE r == build_request(w)
<1>1. /\ r.headers = build_headers(w.fields) /\ r.query = Query(w.line)
      /\ r.raw_target = raw_target(w.line) /\ r.path = percent_decode(w.line.path)
      /\ r.content_length = Len(collected(w))
      /\ "headers" \in DOMAIN r /\ "query" \in DOMAIN r /\ "path" \in DOMAIN r
      /\ "content_length" \in DOMAIN r
  <2> DEFINE n == NewRequest(w.line.method, percent_decode(w.line.path))
             host == headers_get_first(build_headers(w.fields), HOST)
  <2>1. /\ n.path = percent_decode(w.line.path)
        /\ {"headers", "query", "path", "raw_target", "content_length"} \subseteq DOMAIN n
    BY DEF NewRequest
  <2>2. r = [n EXCEPT !.raw_target = raw_target(w.line), !.query = Query(w.line),
                      !.content_length = Len(collected(w)),
                      !.host = IF to_str_ok(host) THEN host ELSE <<>>,
                      !.remote_addr = RemoteAddr, !.proto = proto(w.line.version),
                      !.headers = build_headers(w.fields)]
    BY Zenon DEF build_request, Query
  <2> HIDE DEF n, host, r
  <2> QED BY <2>1, <2>2
<1> HIDE DEF r
<1>2. Context(w) = new_context(r)
  BY DEF Context, r
<1> QED BY <1>1, <1>2 DEF new_context

LEMMA InfoParts ==
  ASSUME NEW w
  PROVE  LET c == Context(w)
             type == headers_get_first(c.request.headers, CONTENT_TYPE)
         IN  /\ InfoOf(w).query_string = Some(CString(c.request.query))
             /\ InfoOf(w).content_length = c.request.content_length
             /\ InfoOf(w).content_type = IF type = <<>> THEN None ELSE Some(type)
             /\ InfoOf(w).path_translated =
                  IF c.paths.path_info = <<>> THEN None
                  ELSE Some(sanitized_path_join(c.document_root, c.paths.path_info))
             /\ InfoOf(w).authorization =
                  NonEmpty(headers_get_first(c.request.headers, AUTHORIZATION))
<1> DEFINE c == Context(w)
<1>1. \A x : Some(x) # None
  BY SomeIsNotNone
<1>2. InfoOf(w) = update_request_info(c, NoInfo)
  BY DEF InfoOf
<1> HIDE DEF c
<1>3. /\ update_request_info(c, NoInfo).query_string = Some(CString(c.request.query))
      /\ update_request_info(c, NoInfo).content_length = c.request.content_length
      /\ update_request_info(c, NoInfo).authorization =
                  NonEmpty(headers_get_first(c.request.headers, AUTHORIZATION))
  BY DEF update_request_info, NoInfo
<1>4. update_request_info(c, NoInfo).content_type =
        IF headers_get_first(c.request.headers, CONTENT_TYPE) = <<>> THEN None
        ELSE Some(headers_get_first(c.request.headers, CONTENT_TYPE))
  BY <1>1 DEF update_request_info, NoInfo, NonEmpty
<1>5. update_request_info(c, NoInfo).path_translated =
        IF c.paths.path_info = <<>> THEN None
        ELSE Some(sanitized_path_join(c.document_root, c.paths.path_info))
  BY <1>1 DEF update_request_info, NoInfo
<1> QED BY <1>2, <1>3, <1>4, <1>5 DEF c

LEMMA KnownParts ==
  ASSUME NEW w
  PROVE  LET c == Context(w)
             k == ServerOf(w).known
         IN  /\ k.content_length = headers_get_first(c.request.headers, CONTENT_LENGTH)
             /\ k.request_uri = c.request_uri
             /\ k.path_info = c.paths.path_info
             /\ k.script_name = c.paths.script_name
             /\ k.php_self = c.paths.script_name \o c.paths.path_info
             /\ k.script_filename = c.paths.script_filename
             /\ k.document_root = c.document_root
             /\ k.remote_host = k.remote_addr
<1> DEFINE c == Context(w)
<1>1. ServerOf(w).known = as_ffi(compute_server_vars(c))
  BY DEF ServerOf, BatchOf, build_server_vars_batch
<1> HIDE DEF c
<1>2. /\ as_ffi(compute_server_vars(c)).content_length =
           headers_get_first(c.request.headers, CONTENT_LENGTH)
      /\ as_ffi(compute_server_vars(c)).request_uri = c.request_uri
      /\ as_ffi(compute_server_vars(c)).path_info = c.paths.path_info
      /\ as_ffi(compute_server_vars(c)).script_name = c.paths.script_name
      /\ as_ffi(compute_server_vars(c)).script_filename = c.paths.script_filename
      /\ as_ffi(compute_server_vars(c)).document_root = c.document_root
      /\ as_ffi(compute_server_vars(c)).php_self = c.paths.script_name \o c.paths.path_info
  BY DEF as_ffi, compute_server_vars
<1>3. as_ffi(compute_server_vars(c)).remote_host = as_ffi(compute_server_vars(c)).remote_addr
  BY DEF as_ffi
<1> QED BY <1>1, <1>2, <1>3 DEF c

LEMMA ServerParts ==
  ASSUME NEW w
  PROVE  /\ ServerOf(w).query_string = InfoOf(w).query_string
         /\ ServerOf(w).path_translated = InfoOf(w).path_translated
         /\ ServerOf(w).content_type = IF InfoOf(w).content_type = None THEN Some(<<>>)
                                       ELSE InfoOf(w).content_type
         /\ ServerOf(w).http = register_headers(ServerOf(w).known.http_host, BatchOf(w).headers)
         /\ BatchOf(w).headers = [i \in DOMAIN Context(w).request.headers |->
               [key |-> header_key(Context(w).request.headers[i].name),
                value |-> join_header_values(Context(w).request.headers[i].values)]]
<1>1. BatchOf(w).headers = [i \in DOMAIN Context(w).request.headers |->
               [key |-> header_key(Context(w).request.headers[i].name),
                value |-> join_header_values(Context(w).request.headers[i].values)]]
  BY DEF BatchOf, build_server_vars_batch
<1> QED BY <1>1 DEF ServerOf
-------------------------------------------------------------------------------
(* The body *)

\* PHP gets the beginning of what was collected of the body, in order and in blocks no larger
\* than its buffer, whatever sizes the source reads in and whatever it claims.  A short block,
\* which ends the upload for PHP, is given only when the source has failed or PHP has as much
\* as it was told to expect: the whole body, or nothing of a body that failed to arrive
\* (`handle`, and RequestBody::fill behind go_read_post).
THEOREM BodyReachesPhp == InputSpec => []BodyIsWhole
<1>1. InputInv => BodyIsWhole
  <2> SUFFICES ASSUME InputInv PROVE BodyIsWhole
    OBVIOUS
  <2>1. InputTyped /\ Body /\ Derived
    BY DEF InputInv
  <2>2. /\ post.got \in Seq(Nat) /\ Filled \in Seq(Nat) /\ source.rest \in Seq(Nat)
        /\ wire.body \in Seq(Nat) /\ wire.arrives \in BOOLEAN
    BY <2>1 DEF InputTyped, Filled, Read
  <2>3. PICK b \in Seq(Nat), s \in Seq(Nat) : b = post.got \o Filled /\ s = source.rest
    BY <2>2, ConcatProperties
  <2>4. \A t \in Seq(Nat) : IsPrefix(<<>>, t)
    BY DEF IsPrefix
  <2>5. IsPrefix(b, wire.body)
    <3>1. CASE step \in {"wire", "rejected"}
      <4>1. post.got = <<>> /\ Filled = <<>>
        BY <2>1, <3>1 DEF Body, Filled
      <4>2. b = <<>>
        BY <2>3, <4>1
      <4> QED BY <2>2, <2>4, <4>2
    <3>2. CASE step \notin {"wire", "rejected"}
      <4>1. collected(wire) = b \o s
        BY <2>1, <2>3, <3>2 DEF Body
      <4>2. IsPrefix(b, b \o s)
        <5>1. Len(b) <= Len(b \o s) /\ Len(b) \in 0..Len(b)
          BY ConcatProperties
        <5>2. SubSeq(b \o s, 1, Len(b)) = SubSeq(b, 1, Len(b))
          BY <5>1, PrefixOfConcat
        <5> QED BY <5>1, <5>2 DEF IsPrefix
      <4>3. CASE wire.arrives
        BY <4>1, <4>2, <4>3 DEF collected
      <4>4. CASE ~wire.arrives
        <5>1. b \o s = <<>>
          BY <4>1, <4>4 DEF collected
        <5>2. b = <<>>
          BY <5>1
        <5> QED BY <2>2, <2>4, <5>2
      <4> QED BY <2>2, <4>3, <4>4
    <3> QED BY <3>1, <3>2
  <2>6. BodyIsInOrder
    <3>1. read # None => Len(read[1].filled) <= read[1].asked
      BY <2>1 DEF Body
    <3> QED BY <2>3, <2>5, <3>1 DEF BodyIsInOrder, Filled
  <2>7. UploadIsWhole
    <3> SUFFICES ASSUME post.ended, ~source.failed
                 PROVE  /\ wire.arrives => post.got = wire.body
                        /\ ~wire.arrives => post.got = <<>>
                        /\ Len(post.got) = info.content_length
      BY DEF UploadIsWhole
    <3>1. source.rest = <<>> /\ read = None /\ Started
      BY <2>1 DEF Body
    <3>2. post.got = collected(wire)
      <4>1. collected(wire) = (post.got \o Filled) \o source.rest
        BY <2>1, <3>1 DEF Body, Started
      <4>2. Filled = <<>>
        BY <3>1 DEF Filled
      <4>3. (post.got \o <<>>) \o <<>> = post.got
        BY <2>2
      <4> QED BY <3>1, <4>1, <4>2, <4>3
    <3>3. info = InfoOf(wire)
      BY <2>1, <3>1 DEF Derived, Started
    <3>4. InfoOf(wire).content_length = Len(collected(wire))
      BY ContextParts, InfoParts
    <3> QED BY <3>2, <3>3, <3>4 DEF collected
  <2> QED BY <2>6, <2>7 DEF BodyIsWhole
<1> QED BY <1>1, InputInvHolds, PTL
-------------------------------------------------------------------------------
(* One value *)

LEMMA OnWireValues == \A name : OnWire(name) = ValuesLike(wire.fields, Lowercase(name))
BY Zenon DEF OnWire, ValuesLike

LEMMA AskedNames ==
  \A n \in {CONTENT_LENGTH, CONTENT_TYPE, AUTHORIZATION, COOKIE, HOST} :
    n \in Text /\ canonical_header_name(n) = n
BY RequestInputAssumption, Zenon DEF Text

LEMMA FirstValue ==
  ASSUME NEW n \in {CONTENT_LENGTH, CONTENT_TYPE, AUTHORIZATION, COOKIE, HOST},
         wire.fields \in Wired
  PROVE  headers_get_first(Context(wire).request.headers, n) = FirstOnWire(n)
<1>1. n \in Text /\ canonical_header_name(n) = n
  BY AskedNames
<1>2. headers_get_all(build_headers(wire.fields), n) = OnWire(n)
  BY <1>1, Built, OnWireValues
<1>3. Context(wire).request.headers = build_headers(wire.fields)
  BY ContextParts
<1> QED BY <1>2, <1>3 DEF headers_get_first, FirstOnWire

LEMMA FirstValues ==
  ASSUME InputTyped, Derived
  PROVE  FirstValueCounts
<1> SUFFICES ASSUME server # None PROVE
      /\ server[1].content_type = Some(FirstOnWire(CONTENT_TYPE))
      /\ info.authorization = NonEmpty(FirstOnWire(AUTHORIZATION))
      /\ server[1].known.content_length = FirstOnWire(CONTENT_LENGTH)
      /\ LET length == parse_i64(server[1].known.content_length)
         IN  server[1].known.content_length # <<>> => length # None /\ length[1] >= 0
  BY DEF FirstValueCounts
<1>1. step \in {"registered", "listed"}
  BY DEF Derived
<1>2. server[1] = ServerOf(wire) /\ info = InfoOf(wire) /\ validate_request(Context(wire).request)
  BY <1>1 DEF Derived, Some
<1>3. wire.fields \in Wired
  BY DEF InputTyped, Wired
<1>4. server[1].content_type = Some(FirstOnWire(CONTENT_TYPE))
  <2>1. InfoOf(wire).content_type = IF FirstOnWire(CONTENT_TYPE) = <<>> THEN None
                                    ELSE Some(FirstOnWire(CONTENT_TYPE))
    BY <1>3, FirstValue, InfoParts
  <2>2. server[1].content_type = IF InfoOf(wire).content_type = None THEN Some(<<>>)
                                 ELSE InfoOf(wire).content_type
    BY <1>2, ServerParts
  <2> QED BY <2>1, <2>2, SomeIsNotNone
<1>5. info.authorization = NonEmpty(FirstOnWire(AUTHORIZATION))
  BY <1>2, <1>3, FirstValue, InfoParts
<1>6. server[1].known.content_length = FirstOnWire(CONTENT_LENGTH)
  BY <1>2, <1>3, FirstValue, KnownParts
<1>7. FirstOnWire(CONTENT_LENGTH) # <<>> =>
        /\ parse_i64(FirstOnWire(CONTENT_LENGTH)) # None
        /\ parse_i64(FirstOnWire(CONTENT_LENGTH))[1] >= 0
  BY <1>2, <1>3, FirstValue DEF validate_request
<1> QED BY <1>4, <1>5, <1>6, <1>7
-------------------------------------------------------------------------------
(* The list *)

LEMMA HeaderLists ==
  ASSUME InputTyped, Derived
  PROVE  HeaderListIsWhole
<1> DEFINE H == build_headers(wire.fields)
<1> SUFFICES ASSUME listed # None
             PROVE  /\ \A name \in WireNames :
                         \E h \in Range(listed[1]) :
                           /\ Lowercase(h.name) = name
                           /\ h.value = JoinWith(OnWire(name), <<Comma, Space>>)
                    /\ Len(listed[1]) = Cardinality(WireNames)
  BY DEF HeaderListIsWhole
<1>1. wire.fields \in Wired
  BY DEF InputTyped, Wired
<1>2. listed[1] = ListOf(wire)
  BY DEF Derived, Some
<1>3. /\ H \in Headers /\ Distinct(H) /\ Len(H) \in Nat /\ DOMAIN H = 1..Len(H)
      /\ Names(H) = {canonical_header_name(wire.fields[k].name) : k \in 1..Len(wire.fields)}
  BY <1>1, Built DEF Headers
<1>4. listed[1] = [i \in 1..Len(H) |-> [name |-> H[i].name,
                                        value |-> JoinWith(H[i].values, <<Comma, Space>>)]]
  BY <1>2, <1>3, ContextParts DEF ListOf, join_values
<1>5. Len(listed[1]) = Len(H) /\ DOMAIN listed[1] = 1..Len(H)
  BY <1>3, <1>4
<1>6. \A k \in 1..Len(wire.fields) : /\ wire.fields[k].name \in Text
                                     /\ Lowercase(wire.fields[k].name) = wire.fields[k].name
                                     /\ ValidName(wire.fields[k].name)
  BY <1>1, FieldTyped DEF Wired
<1>7. WireNames = {wire.fields[k].name : k \in 1..Len(wire.fields)}
  BY <1>1 DEF WireNames, Range, Wired
<1>8. \A i \in 1..Len(H) : \E k \in 1..Len(wire.fields) :
         /\ H[i].name = canonical_header_name(wire.fields[k].name)
         /\ Lowercase(H[i].name) = wire.fields[k].name
         /\ H[i].values = ValuesLike(wire.fields, wire.fields[k].name)
  BY <1>1, BuiltEntry
<1> HIDE DEF H
<1>9. ASSUME NEW name \in WireNames
      PROVE  \E i \in 1..Len(H) : /\ Lowercase(H[i].name) = name
                                  /\ H[i].values = OnWire(name)
  <2>1. PICK k \in 1..Len(wire.fields) : name = wire.fields[k].name
    BY <1>7
  <2>2. PICK i \in 1..Len(H) : H[i].name = canonical_header_name(name)
    BY <1>3, <2>1 DEF Names
  <2>3. Lowercase(H[i].name) = name
    BY <1>6, <2>1, <2>2, CanonicalLowercase
  <2>4. H[i].values = ValuesLike(wire.fields, name)
    BY <1>8, <2>3
  <2>5. OnWire(name) = ValuesLike(wire.fields, name)
    BY <1>6, <2>1, OnWireValues
  <2> QED BY <2>3, <2>4, <2>5
<1>10. ASSUME NEW name \in WireNames
       PROVE  \E h \in Range(listed[1]) :
                           /\ Lowercase(h.name) = name
                           /\ h.value = JoinWith(OnWire(name), <<Comma, Space>>)
  <2>1. PICK i \in 1..Len(H) : Lowercase(H[i].name) = name /\ H[i].values = OnWire(name)
    BY <1>9
  <2>2. /\ listed[1][i] \in Range(listed[1])
        /\ listed[1][i].name = H[i].name
        /\ listed[1][i].value = JoinWith(H[i].values, <<Comma, Space>>)
    <3>1. listed[1][i] = [name |-> H[i].name, value |-> JoinWith(H[i].values, <<Comma, Space>>)]
      BY <1>4
    <3>2. listed[1][i] \in Range(listed[1])
      BY <1>5 DEF Range
    <3> QED BY <3>1, <3>2
  <2> QED BY <2>1, <2>2
<1>11. Len(H) = Cardinality(WireNames)
  <2> DEFINE low == [i \in 1..Len(H) |-> Lowercase(H[i].name)]
  <2>1. low \in [1..Len(H) -> WireNames]
    BY <1>7, <1>8
  <2>2. \A name \in WireNames : \E i \in 1..Len(H) : low[i] = name
    BY <1>9
  <2>3. \A i, j \in 1..Len(H) : low[i] = low[j] => i = j
    <3> SUFFICES ASSUME NEW i \in 1..Len(H), NEW j \in 1..Len(H), low[i] = low[j] PROVE i = j
      OBVIOUS
    <3>1. PICK k \in 1..Len(wire.fields) : /\ H[i].name = canonical_header_name(wire.fields[k].name)
                                           /\ Lowercase(H[i].name) = wire.fields[k].name
      BY <1>8
    <3>2. PICK m \in 1..Len(wire.fields) : /\ H[j].name = canonical_header_name(wire.fields[m].name)
                                           /\ Lowercase(H[j].name) = wire.fields[m].name
      BY <1>8
    <3>3. wire.fields[k].name = wire.fields[m].name
      BY <3>1, <3>2
    <3> QED BY <1>3, <3>1, <3>2, <3>3 DEF Distinct
  <2> HIDE DEF low
  <2>4. low \in Bijection(1..Len(H), WireNames)
    BY <2>1, <2>2, <2>3 DEF Bijection, Injection, IsInjective, Surjection
  <2>5. IsFiniteSet(1..Len(H)) /\ Cardinality(1..Len(H)) = Len(H)
    <3>1. Len(H) \in Nat
      BY <1>3
    <3> QED BY <3>1, FS_Interval
  <2>6. Cardinality(WireNames) = Cardinality(1..Len(H))
    BY <2>4, <2>5, FS_Bijection DEF ExistsBijection
  <2> QED BY <2>5, <2>6
<1> QED BY <1>5, <1>10, <1>11
-------------------------------------------------------------------------------
(* Cookies *)

\* Stripping the NULs changes nothing where there are none.
LEMMA NothingToStrip ==
  ASSUME NEW t \in CText
  PROVE  Filtered(t, LAMBDA b : b # Nul) = t
<1> DEFINE N == Len(t)
           Turn(kept, i) == IF t[i] # Nul THEN Append(kept, t[i]) ELSE kept
           turn == [p \in CText \X (1..N) |-> Turn(p[1], p[2])]
           f == CHOOSE g : g = [k \in 0..N |-> IF k = 0 THEN <<>> ELSE Turn(g[k - 1], k)]
<1>1. N \in Nat /\ \A i \in 1..N : t[i] \in NonNul
  BY DEF CText
<1>2. \A s \in CText, i \in 1..N : Turn(s, i) \in CText
  BY <1>1 DEF CText
<1>13. \A s \in CText, i \in 1..N : Turn(s, i) = Append(s, t[i])
  <2>1. \A b \in NonNul : b # Nul
    BY DEF NonNul, Nul
  <2> QED BY <1>1, <2>1
<1> HIDE DEF Turn, N
<1>3. turn \in Turns(CText, N)
  BY <1>2 DEF Turns
<1>4. <<>> \in CText
  BY DEF CText
<1>5. PICK g : IsLoop(g, CText, N, <<>>, turn)
  <2> HIDE DEF turn, f
  <2> QED BY <1>1, <1>3, <1>4, LoopExists
<1>6. \A k \in 0..N : k # 0 => turn[<<g[k - 1], k>>] = Turn(g[k - 1], k)
  <2> TAKE k \in 0..N
  <2> HAVE k # 0
  <2>1. g \in [0..N -> CText]
    BY <1>5 DEF IsLoop
  <2>2. k - 1 \in 0..N /\ k \in 1..N
    BY <1>1
  <2>3. <<g[k - 1], k>> \in CText \X (1..N)
    BY <2>1, <2>2
  <2> QED BY <2>3
<1> HIDE DEF turn
<1>7. g = [k \in 0..N |-> IF k = 0 THEN <<>> ELSE Turn(g[k - 1], k)]
  BY <1>5, <1>6 DEF IsLoop
<1>8. f = [k \in 0..N |-> IF k = 0 THEN <<>> ELSE Turn(f[k - 1], k)]
  BY <1>7, Zenon
<1>9. Filtered(t, LAMBDA b : b # Nul) = f[N]
  BY Zenon DEF Filtered, Loop, N, Turn
<1> HIDE DEF f
<1>10. f[0] = <<>> /\ \A k \in 1..N : f[k] = Turn(f[k - 1], k)
  BY <1>1, <1>8
<1> DEFINE Upto(n) == [i \in 1..n |-> t[i]]
           G == {n \in 0..N : f[n] = Upto(n)}
<1>11. 0 \in G
  BY <1>1, <1>10
<1>12. ASSUME NEW n \in 1..N, n - 1 \in G PROVE n \in G
  <2>1. /\ Upto(n - 1) \in [1..(n - 1) -> NonNul] /\ n - 1 \in Nat /\ n \in Nat /\ n > 0
        /\ Upto(n) \in [1..n -> NonNul] /\ Upto(n)[n] = t[n]
        /\ \A i \in 1..(n - 1) : Upto(n - 1)[i] = Upto(n)[i]
    BY <1>1
  <2>2. f[n - 1] = Upto(n - 1)
    BY <1>12
  <2> HIDE DEF Upto
  <2>3. Upto(n - 1) \in CText /\ Upto(n - 1) \in Seq(NonNul) /\ Len(Upto(n - 1)) = n - 1
    BY <2>1, FunctionIsSeq DEF CText
  <2>4. Append(Upto(n - 1), Upto(n)[n]) = Upto(n)
    BY <2>1, <2>3, AppendFunction
  <2>5. f[n] = Append(Upto(n - 1), t[n])
    BY <1>10, <1>13, <2>2, <2>3
  <2>6. n \in 0..N
    BY <1>1
  <2> QED BY <2>1, <2>4, <2>5, <2>6
<1>14. N \in G
  <2> HIDE DEF G
  <2>1. N \in Nat /\ N \in 0..N
    BY <1>1
  <2> QED BY <1>11, <1>12, <2>1, Induction
<1>15. Upto(N) = t
  BY DEF N, CText
<1> QED BY <1>9, <1>14, <1>15

LEMMA ValuesType ==
  ASSUME NEW fields \in Wired, NEW low
  PROVE  ValuesLike(fields, low) \in Seq(CText)
<1>1. PICK v \in [0..Len(fields) -> Seq(CText)] :
        /\ v[0] = <<>>
        /\ \A n \in 1..Len(fields) :
             v[n] = IF Lowercase(fields[n].name) = low
                    THEN Append(v[n - 1], fields[n].value) ELSE v[n - 1]
        /\ ValuesLike(fields, low) = v[Len(fields)]
  BY ValuesLoop
<1>2. Len(fields) \in 0..Len(fields)
  BY DEF Wired
<1> QED BY <1>1, <1>2

LEMMA Cookies ==
  ASSUME InputTyped, Derived
  PROVE  CookiesAreWhole
<1> SUFFICES ASSUME cookies # None
             PROVE  cookies[1] = JoinWith(OnWire(COOKIE), <<Semicolon, Space>>)
  BY DEF CookiesAreWhole
<1> DEFINE V == OnWire(COOKIE)
           joined == JoinWith(V, <<Semicolon, Space>>)
<1>1. wire.fields \in Wired
  BY DEF InputTyped, Wired
<1>2. cookies = cookie_data(Context(wire))
  BY DEF Derived
<1>3. headers_get_all(Context(wire).request.headers, COOKIE) = V
  <2>1. COOKIE \in Text /\ canonical_header_name(COOKIE) = COOKIE
    BY AskedNames
  <2> QED BY <1>1, <2>1, Built, ContextParts, OnWireValues
<1>4. V \in Seq(CText)
  BY <1>1, ValuesType, OnWireValues
<1>5. <<Semicolon, Space>> \in CText
  BY DEF CText, NonNul, Semicolon, Space
<1> HIDE DEF V
<1>6. joined \in CText
  BY <1>4, <1>5, Joined DEF CText
<1>7. cookies = IF joined = <<>> THEN None ELSE Some(Filtered(joined, LAMBDA b : b # Nul))
  BY <1>2, <1>3, Zenon DEF cookie_data, join_values
<1> HIDE DEF joined
<1>8. Filtered(joined, LAMBDA b : b # Nul) = joined
  BY <1>6, NothingToStrip, Zenon
<1>9. cookies = Some(joined)
  BY <1>7, <1>8
<1> QED BY <1>9 DEF Some, joined, V
-------------------------------------------------------------------------------
(* The variables *)

KeyOf(name) == php_register_key(mangle_header_name(name))

LEMMA MangledBytes ==
  ASSUME NEW t \in Text, NEW b \in {Nul, Dot}, b \notin Range(t)
  PROVE  b \notin Range(mangle_header_name(t))
<1> DEFINE M == [i \in DOMAIN t |-> IF t[i] = Dash THEN Underscore ELSE ToUpper(t[i])]
           m == HttpPrefix \o M
<1>1. DOMAIN t = 1..Len(t) /\ Len(t) \in Nat /\ \A i \in 1..Len(t) : t[i] \in Byte /\ t[i] # b
  BY DEF Text, Range
<1>2. \A i \in 1..Len(t) : ToUpper(t[i]) # b /\ Underscore # b
  <2>1. \A c \in Byte : c # b => ToUpper(c) # b
    BY DEF Byte, ToUpper, IsLower, Nul, Dot
  <2>2. Underscore # b
    BY DEF Underscore, Nul, Dot
  <2> QED BY <1>1, <2>1, <2>2
<1>3. M \in [1..Len(t) -> Byte]
  <2>1. Underscore \in Byte
    BY DEF Underscore, Byte
  <2> QED BY <1>1, <2>1, CaseOfByte
<1>4. M \in Text /\ Len(M) = Len(t) /\ \A i \in 1..Len(t) : M[i] # b
  <2>1. \A i \in 1..Len(t) : M[i] # b
    BY <1>1, <1>2
  <2> HIDE DEF M
  <2> QED BY <1>1, <1>3, <2>1, FunctionIsSeq DEF Text
<1>5. HttpPrefix \in Text /\ Len(HttpPrefix) = 5 /\ \A i \in 1..5 : HttpPrefix[i] # b
  <2>1. HttpPrefix \in Text /\ Len(HttpPrefix) = 5
    BY DEF HttpPrefix, Text, Byte
  <2>2. /\ HttpPrefix[1] = 72 /\ HttpPrefix[2] = 84 /\ HttpPrefix[3] = 84 /\ HttpPrefix[4] = 80
        /\ HttpPrefix[5] = 95
    BY DEF HttpPrefix
  <2>3. b \in {0, 46}
    BY DEF Nul, Dot
  <2>4. \A i \in 1..5 : i = 1 \/ i = 2 \/ i = 3 \/ i = 4 \/ i = 5
    OBVIOUS
  <2> QED BY <2>1, <2>2, <2>3, <2>4
<1> HIDE DEF M
<1>6. /\ m \in Text /\ Len(m) = 5 + Len(t)
      /\ \A i \in 1..5 : m[i] = HttpPrefix[i]
      /\ \A i \in (5 + 1)..(5 + Len(t)) : m[i] = M[i - 5]
  <2>1. PICK p \in Text, q \in Text : p = HttpPrefix /\ q = M
    BY <1>4, <1>5
  <2>2. /\ p \o q \in Text /\ Len(p \o q) = Len(p) + Len(q)
        /\ \A i \in 1..Len(p) : (p \o q)[i] = p[i]
        /\ \A i \in (Len(p) + 1)..(Len(p) + Len(q)) : (p \o q)[i] = q[i - Len(p)]
    BY JoinedTexts
  <2> QED BY <1>4, <1>5, <2>1, <2>2
<1>7. \A i \in 1..Len(m) : m[i] # b
  <2> HIDE DEF m
  <2> TAKE i \in 1..Len(m)
  <2>1. CASE i \in 1..5
    BY <1>5, <1>6, <2>1
  <2>2. CASE i \notin 1..5
    <3>1. i \in (5 + 1)..(5 + Len(t)) /\ i - 5 \in 1..Len(t)
      BY <1>1, <1>6, <2>2
    <3> QED BY <1>4, <1>6, <3>1
  <2> QED BY <2>1, <2>2
<1>8. DOMAIN m = 1..Len(m)
  BY <1>6 DEF Text
<1>9. mangle_header_name(t) = m
  BY DEF mangle_header_name, M
<1> HIDE DEF m
<1> QED BY <1>7, <1>8, <1>9 DEF Range

\* An interned key and a computed one are the same variable.
LEMMA HeaderKey ==
  ASSUME NEW name \in Text, ValidName(name)
  PROVE  header_key(name) = KeyOf(name)
<1> DEFINE m == mangle_header_name(name)
<1>1. m \in Text
  BY MangledName
<1>2. DOMAIN name = 1..Len(name)
  BY DEF Text
<1>3. CASE name \in CommonNames
  <2>1. Dot \notin Range(name)
    BY <1>3, CommonNamesAssumption
  <2>2. Dot \notin Range(m)
    BY <2>1, MangledBytes
  <2>3. m # <<>>
    BY DEF mangle_header_name, HttpPrefix
  <2>4. header_key(name) = m
    BY <1>3, <2>3 DEF header_key, lookup_common_header, COMMON_HEADERS
  <2> HIDE DEF m
  <2>5. php_register_key(m) = m
    <3>1. \A i \in DOMAIN m : m[i] # Dot
      BY <2>2 DEF Range
    <3>2. m = [i \in DOMAIN m |-> m[i]]
      BY <1>1 DEF Text
    <3> QED BY <3>1, <3>2 DEF php_register_key
  <2> QED BY <2>4, <2>5 DEF KeyOf, m
<1>4. CASE name \notin CommonNames
  <2>1. Nul \notin Range(name)
    <3>1. ~is_header_field_byte(Nul)
      BY DEF is_header_field_byte, IsAlphanumeric, IsUpper, IsLower, IsDigit, TokenPunctuation, Nul
    <3> QED BY <1>2, <3>1 DEF ValidName, Range
  <2>2. Nul \notin Range(m)
    BY <2>1, MangledBytes
  <2>3. CString(uncommon_header_key(name)) = m
    BY <1>1, <2>2, OneVariable, FirstNul
  <2> QED BY <1>4, <2>3 DEF header_key, lookup_common_header, KeyOf
<1> QED BY <1>3, <1>4

\* Every variable has the value of a field that registers it.
FromFields(http, bh, M) ==
  /\ DOMAIN http = {mangle_header_name(HOST)} \cup {bh[i].key : i \in 1..M}
  /\ \A i \in 1..M : \E j \in 1..M : bh[j].key = bh[i].key /\ http[bh[i].key] = bh[j].value

LEMMA Registered ==
  ASSUME NEW host, NEW M \in Nat, NEW bh, Len(bh) = M
  PROVE  FromFields(register_headers(host, bh), bh, M)
<1> DEFINE first == mangle_header_name(HOST)
           K == {first} \cup {bh[i].key : i \in 1..M}
           V == {host} \cup {bh[i].value : i \in 1..M}
           S == UNION {[D -> V] : D \in SUBSET K}
           start == [k \in {first} |-> host]
           Turn(http, i) == php_register_variable(http, bh[i].key, bh[i].value)
           turn == [p \in S \X (1..M) |-> Turn(p[1], p[2])]
           f == CHOOSE g : g = [k \in 0..M |-> IF k = 0 THEN start ELSE Turn(g[k - 1], k)]
<1>1. start \in S
  <2>1. {first} \in SUBSET K /\ start \in [{first} -> V]
    OBVIOUS
  <2> QED BY <2>1
<1>2. \A h \in S, i \in 1..M : Turn(h, i) \in S
  <2> TAKE h \in S, i \in 1..M
  <2>1. PICK D \in SUBSET K : h \in [D -> V]
    OBVIOUS
  <2>2. D \cup {bh[i].key} \in SUBSET K /\ bh[i].value \in V
    OBVIOUS
  <2> HIDE DEF K, V
  <2>3. Turn(h, i) \in [D \cup {bh[i].key} -> V]
    BY <2>1, <2>2 DEF php_register_variable
  <2> QED BY <2>2, <2>3
<1>13. \A h, i : /\ DOMAIN Turn(h, i) = DOMAIN h \cup {bh[i].key}
                 /\ Turn(h, i)[bh[i].key] = bh[i].value
                 /\ \A k \in DOMAIN h : k # bh[i].key => Turn(h, i)[k] = h[k]
  BY DEF php_register_variable
<1>14. DOMAIN start = {first}
  OBVIOUS
<1> HIDE DEF Turn, S, start
<1>3. turn \in Turns(S, M)
  BY <1>2 DEF Turns
<1>5. PICK g : IsLoop(g, S, M, start, turn)
  <2> HIDE DEF turn, f
  <2> QED BY <1>1, <1>3, LoopExists
<1>6. \A k \in 0..M : k # 0 => turn[<<g[k - 1], k>>] = Turn(g[k - 1], k)
  <2> TAKE k \in 0..M
  <2> HAVE k # 0
  <2>1. g \in [0..M -> S]
    BY <1>5 DEF IsLoop
  <2>2. k - 1 \in 0..M /\ k \in 1..M
    OBVIOUS
  <2>3. <<g[k - 1], k>> \in S \X (1..M)
    BY <2>1, <2>2
  <2> QED BY <2>3
<1> HIDE DEF turn
<1>7. g = [k \in 0..M |-> IF k = 0 THEN start ELSE Turn(g[k - 1], k)]
  BY <1>5, <1>6 DEF IsLoop
<1>8. f = [k \in 0..M |-> IF k = 0 THEN start ELSE Turn(f[k - 1], k)]
  BY <1>7, Zenon
<1>9. register_headers(host, bh) = f[M]
  BY Zenon DEF register_headers, Loop, Turn, start
<1> HIDE DEF f
<1>10. f[0] = start /\ \A k \in 1..M : f[k] = Turn(f[k - 1], k)
  BY <1>8
<1> DEFINE Good(n) == /\ DOMAIN f[n] = {first} \cup {bh[i].key : i \in 1..n}
                      /\ \A i \in 1..n : \E j \in 1..n : /\ bh[j].key = bh[i].key
                                                         /\ f[n][bh[i].key] = bh[j].value
           G == {n \in 0..M : Good(n)}
<1> HIDE DEF first, K, V
<1>11. 0 \in G
  BY <1>10, <1>14
<1>12. ASSUME NEW n \in 1..M, n - 1 \in G PROVE n \in G
  <2>1. /\ DOMAIN f[n - 1] = {first} \cup {bh[i].key : i \in 1..(n - 1)}
        /\ \A i \in 1..(n - 1) : \E j \in 1..(n - 1) : /\ bh[j].key = bh[i].key
                                                       /\ f[n - 1][bh[i].key] = bh[j].value
    BY <1>12
  <2>2. /\ DOMAIN f[n] = DOMAIN f[n - 1] \cup {bh[n].key}
        /\ f[n][bh[n].key] = bh[n].value
        /\ \A k \in DOMAIN f[n - 1] : k # bh[n].key => f[n][k] = f[n - 1][k]
    <3>1. f[n] = Turn(f[n - 1], n)
      BY <1>10
    <3> DEFINE h == f[n - 1]
    <3> HIDE DEF h
    <3>2. /\ DOMAIN Turn(h, n) = DOMAIN h \cup {bh[n].key}
          /\ Turn(h, n)[bh[n].key] = bh[n].value
          /\ \A k \in DOMAIN h : k # bh[n].key => Turn(h, n)[k] = h[k]
      BY <1>13
    <3> QED BY <3>1, <3>2 DEF h
  <2>3. 1..n = (1..(n - 1)) \cup {n} /\ n \in 0..M
    OBVIOUS
  <2>4. DOMAIN f[n] = {first} \cup {bh[i].key : i \in 1..n}
    BY <2>1, <2>2, <2>3
  <2>5. ASSUME NEW i \in 1..n
        PROVE  \E j \in 1..n : bh[j].key = bh[i].key /\ f[n][bh[i].key] = bh[j].value
    <3>1. CASE bh[i].key = bh[n].key
      BY <2>2, <2>3, <3>1
    <3>2. CASE bh[i].key # bh[n].key
      <4>1. i \in 1..(n - 1) /\ bh[i].key \in DOMAIN f[n - 1]
        BY <2>1, <2>3, <3>2
      <4>2. PICK j \in 1..(n - 1) : bh[j].key = bh[i].key /\ f[n - 1][bh[i].key] = bh[j].value
        BY <2>1, <4>1
      <4>3. f[n][bh[i].key] = f[n - 1][bh[i].key]
        BY <2>2, <3>2, <4>1
      <4> QED BY <2>3, <4>2, <4>3
    <3> QED BY <3>1, <3>2
  <2> QED BY <2>3, <2>4, <2>5
<1>15. M \in G
  <2> HIDE DEF G
  <2> QED BY <1>11, <1>12, Induction
<1> QED BY <1>9, <1>15 DEF first, FromFields

LEMMA CanonicalIsValid ==
  ASSUME NEW t \in Text, ValidName(t)
  PROVE  ValidName(canonical_header_name(t))
<1> DEFINE c == canonical_header_name(t)
<1>1. c \in Text /\ Len(c) = Len(t) /\ c = [i \in 1..Len(t) |-> CanonicalByte(t, i)]
  BY CanonicalName
<1>2. \A i \in 1..Len(t) : is_header_field_byte(CanonicalByte(t, i))
  <2> TAKE i \in 1..Len(t)
  <2>1. t[i] \in Byte /\ is_header_field_byte(t[i])
    BY DEF Text, ValidName
  <2> QED BY <2>1, CaseOfFieldByte DEF CanonicalByte
<1> HIDE DEF c
<1> QED BY <1>1, <1>2 DEF ValidName, c

LEMMA Variables ==
  ASSUME InputTyped, Derived
  PROVE  FieldsReachPhp
<1> DEFINE H == build_headers(wire.fields)
           bh == BatchOf(wire).headers
           http == ServerOf(wire).http
           M == Len(H)
           Value(name) == JoinWith(OnWire(name), <<Comma, Space>>)
<1>1. wire.fields \in Wired
  BY DEF InputTyped, Wired
<1>2. /\ H \in Headers /\ M \in Nat /\ DOMAIN H = 1..M
      /\ Names(H) = {canonical_header_name(wire.fields[k].name) : k \in 1..Len(wire.fields)}
  BY <1>1, Built DEF Headers
<1>3. bh = [i \in 1..M |-> [key |-> header_key(H[i].name), value |-> join_header_values(H[i].values)]]
  <2>1. Context(wire).request.headers = H
    BY ContextParts
  <2>2. bh = [i \in DOMAIN Context(wire).request.headers |->
               [key |-> header_key(Context(wire).request.headers[i].name),
                value |-> join_header_values(Context(wire).request.headers[i].values)]]
    BY ServerParts
  <2>3. DOMAIN H = 1..M
    BY <1>2
  <2> HIDE DEF H, bh, M, http
  <2> QED BY <2>1, <2>2, <2>3
<1>4. Len(bh) = M /\ \A i \in 1..M : /\ bh[i].key = header_key(H[i].name)
                                     /\ bh[i].value = join_header_values(H[i].values)
  BY <1>2, <1>3
<1>5. http = register_headers(ServerOf(wire).known.http_host, bh)
  BY ServerParts
<1> HIDE DEF bh, http, M
<1>6. /\ DOMAIN http = {mangle_header_name(HOST)} \cup {bh[i].key : i \in 1..M}
      /\ \A i \in 1..M : \E j \in 1..M : bh[j].key = bh[i].key /\ http[bh[i].key] = bh[j].value
  <2> DEFINE host == ServerOf(wire).known.http_host
  <2>1. M \in Nat /\ Len(bh) = M /\ http = register_headers(host, bh)
    BY <1>2, <1>4, <1>5
  <2> HIDE DEF host, H, Value
  <2>2. FromFields(register_headers(host, bh), bh, M)
    BY <2>1, Registered
  <2> QED BY <2>1, <2>2 DEF FromFields
<1>7. \A k \in 1..Len(wire.fields) : /\ wire.fields[k].name \in Text
                                     /\ Lowercase(wire.fields[k].name) = wire.fields[k].name
                                     /\ ValidName(wire.fields[k].name)
  BY <1>1, FieldTyped DEF Wired
<1>8. WireNames = {wire.fields[k].name : k \in 1..Len(wire.fields)}
  BY <1>1 DEF WireNames, Range, Wired
<1>9. \A i \in 1..M : \E k \in 1..Len(wire.fields) :
         /\ H[i].name = canonical_header_name(wire.fields[k].name)
         /\ Lowercase(H[i].name) = wire.fields[k].name
         /\ H[i].values = ValuesLike(wire.fields, wire.fields[k].name)
  BY <1>1, BuiltEntry DEF M
<1> HIDE DEF H
<1>10. ASSUME NEW k \in 1..Len(wire.fields)
       PROVE  header_key(canonical_header_name(wire.fields[k].name)) = KeyOf(wire.fields[k].name)
  <2>1. wire.fields[k].name \in Text /\ ValidName(wire.fields[k].name)
    BY <1>7
  <2>2. /\ canonical_header_name(wire.fields[k].name) \in Text
        /\ ValidName(canonical_header_name(wire.fields[k].name))
    BY <2>1, CanonicalIsValid, CanonicalName
  <2>3. header_key(canonical_header_name(wire.fields[k].name)) =
          KeyOf(canonical_header_name(wire.fields[k].name))
    BY <2>2, HeaderKey
  <2> QED BY <2>1, <2>3, MangledName DEF KeyOf
<1>11. ASSUME NEW i \in 1..M
       PROVE  \E name \in WireNames : bh[i].key = KeyOf(name) /\ bh[i].value = Value(name)
  <2>1. PICK k \in 1..Len(wire.fields) :
         /\ H[i].name = canonical_header_name(wire.fields[k].name)
         /\ H[i].values = ValuesLike(wire.fields, wire.fields[k].name)
    BY <1>9
  <2>2. bh[i].key = KeyOf(wire.fields[k].name)
    BY <1>4, <1>10, <2>1
  <2>3. H[i].values = OnWire(wire.fields[k].name)
    BY <1>7, <2>1, OnWireValues
  <2>4. bh[i].value = Value(wire.fields[k].name)
    BY <1>4, <2>3 DEF join_header_values
  <2> HIDE DEF Value
  <2> QED BY <1>8, <2>2, <2>4
<1>12. ASSUME NEW name \in WireNames
       PROVE  \E i \in 1..M : bh[i].key = KeyOf(name)
  <2>1. PICK k \in 1..Len(wire.fields) : name = wire.fields[k].name
    BY <1>8
  <2>2. PICK i \in 1..M : H[i].name = canonical_header_name(name)
    BY <1>2, <2>1 DEF Names, M
  <2> QED BY <1>4, <1>10, <2>1, <2>2
<1> HIDE DEF Value
<1>13. ASSUME NEW name \in WireNames
       PROVE  \E other \in WireNames : /\ KeyOf(other) = KeyOf(name)
                                       /\ KeyOf(other) \in DOMAIN http
                                       /\ http[KeyOf(other)] = Value(other)
  <2>1. PICK i \in 1..M : bh[i].key = KeyOf(name)
    BY <1>12
  <2>2. PICK j \in 1..M : bh[j].key = bh[i].key /\ http[bh[i].key] = bh[j].value
    BY <1>6
  <2>3. PICK other \in WireNames : bh[j].key = KeyOf(other) /\ bh[j].value = Value(other)
    BY <1>11
  <2>4. bh[i].key \in DOMAIN http
    BY <1>6
  <2> QED BY <2>1, <2>2, <2>3, <2>4
<1>14. ASSUME NEW key \in DOMAIN http \ {mangle_header_name(HOST)}
       PROVE  \E name \in WireNames : KeyOf(name) = key
  BY <1>6, <1>11
<1>15. server # None => server[1].http = http
  BY DEF Derived, Some, http
<1> QED BY <1>13, <1>14, <1>15 DEF FieldsReachPhp, KeyOf, Value
-------------------------------------------------------------------------------
(* The target *)

LEMMA TargetTyped ==
  ASSUME NEW l \in Targets
  PROVE  l.path \in Text /\ CString(Query(l)) = Query(l)
<1>1. /\ l.path \in Seq(Byte)
      /\ l.query = <<>> \/ (Len(l.query) = 1 /\ l.query[1] \in Seq(Byte) /\ Nul \notin Range(l.query[1]))
  BY WireAssumption
<1>2. CASE l.query = <<>>
  <2>1. Query(l) = <<>>
    BY <1>2 DEF Query, None
  <2>2. <<>> \in Text /\ Nul \notin Range(<<>>)
    BY DEF Text, Range
  <2>3. CString(<<>>) = <<>>
    BY <2>2, FirstNul
  <2> QED BY <1>1, <2>1, <2>3 DEF Text
<1>3. CASE l.query # <<>>
  <2>1. Query(l) = l.query[1]
    BY <1>3 DEF Query, None
  <2>2. l.query[1] \in Text /\ Nul \notin Range(l.query[1])
    BY <1>1, <1>3 DEF Text
  <2>3. CString(l.query[1]) = l.query[1]
    BY <2>2, FirstNul
  <2> QED BY <1>1, <2>1, <2>3 DEF Text
<1> QED BY <1>2, <1>3

\* A cut of a text, and the character that begins there.
CutsInto(t, cuts) ==
  /\ cuts \in SUBSET (0..Len(t)) /\ {0, Len(t)} \subseteq cuts
  /\ \A c \in cuts \ {Len(t)} :
       \E w \in 1..4 : c + w \in cuts /\ Rune(SubSeq(t, c + 1, c + w)) >= 0

LEMMA Utf8Cuts == \A t : IsUtf8(t) <=> \E cuts : CutsInto(t, cuts)
BY DEF IsUtf8, CutsInto

\* A character's first byte says how wide it is.
LEMMA OneWidth ==
  ASSUME NEW a \in Text, NEW b \in Text, Len(a) \in 1..4, Len(b) \in 1..4, a[1] = b[1],
         Rune(a) >= 0, Rune(b) >= 0
  PROVE  Len(a) = Len(b)
<1>1. a[1] \in LeadBytes[Len(a)] /\ a[1] \in LeadBytes[Len(b)]
  BY RuneFacts DEF IsRune
<1>2. \A m, n \in 1..4 : \A x \in LeadBytes[m] \cap LeadBytes[n] : m = n
  BY DEF LeadBytes
<1> QED BY <1>1, <1>2

\* A character at a cut: what is left of the text begins with it and goes on after it.
LEMMA InnerStretch ==
  ASSUME NEW t \in Text, NEW c \in Nat, NEW w \in 1..4, c + w <= Len(t)
  PROVE  LET rest == SubSeq(t, c + 1, Len(t))
             mid == SubSeq(t, c + 1, c + w)
         IN  /\ rest \in Text /\ Len(rest) = Len(t) - c /\ mid \in Text /\ Len(mid) = w
             /\ SubSeq(rest, 1, w) = mid
             /\ SubSeq(rest, w + 1, Len(rest)) = SubSeq(t, (c + w) + 1, Len(t))
             /\ SubSeq(t, 1, c) \o mid = SubSeq(t, 1, c + w)
<1> DEFINE N == Len(t)
           rest == SubSeq(t, c + 1, N)
           mid == SubSeq(t, c + 1, c + w)
<1>1. N \in Nat /\ c \in Nat /\ w \in Nat /\ c + w <= N /\ w >= 1 /\ t \in Seq(Byte)
  BY DEF Text
<1>2. c + 1 \in 1..(Len(t) + 1) /\ N \in 0..Len(t) /\ c + w \in 0..Len(t) /\ c + 1 <= N /\ c + 1 <= c + w
  BY <1>1
<1>3. rest \in Text /\ Len(rest) = N - c
  <2>1. rest \in Text /\ Len(rest) = IF c + 1 <= N THEN N - (c + 1) + 1 ELSE 0
    BY <1>2, Stretch
  <2>2. Len(rest) = N - (c + 1) + 1
    BY <1>2, <2>1
  <2> HIDE DEF N, rest
  <2> QED BY <1>1, <2>1, <2>2
<1>4. mid \in Text /\ Len(mid) = w
  <2>1. mid \in Text /\ Len(mid) = IF c + 1 <= c + w THEN (c + w) - (c + 1) + 1 ELSE 0
    BY <1>2, Stretch
  <2>2. Len(mid) = (c + w) - (c + 1) + 1
    BY <1>2, <2>1
  <2> HIDE DEF mid
  <2> QED BY <1>1, <2>1, <2>2
<1>5. SubSeq(rest, 1, w) = mid
  <2>1. /\ c + 1 \in 1..Len(t) /\ N \in 1..Len(t) /\ 1 \in 1..(N - (c + 1) + 1)
        /\ w \in 1..(N - (c + 1) + 1) /\ (c + 1) + 1 - 1 = c + 1 /\ (c + 1) + w - 1 = c + w
    BY <1>1
  <2>2. SubSeq(SubSeq(t, c + 1, N), 1, w) = SubSeq(t, (c + 1) + 1 - 1, (c + 1) + w - 1)
    BY <1>1, <2>1, SubSeqOfSubSeq
  <2> QED BY <2>1, <2>2
<1>6. SubSeq(rest, w + 1, Len(rest)) = SubSeq(t, (c + w) + 1, N)
  <2>1. CASE w = N - c
    <3>1. Len(rest) < w + 1 /\ N < (c + w) + 1 /\ w + 1 \in Int /\ (c + w) + 1 \in Int /\ Len(rest) \in Int
      BY <1>1, <1>3, <2>1
    <3>2. SubSeq(rest, w + 1, Len(rest)) = <<>>
      BY <3>1, SubSeqEmpty
    <3>3. SubSeq(t, (c + w) + 1, N) = <<>>
      BY <1>1, <3>1, SubSeqEmpty
    <3> QED BY <3>2, <3>3
  <2>2. CASE w < N - c
    <3>1. /\ c + 1 \in 1..Len(t) /\ N \in 1..Len(t) /\ w + 1 \in 1..(N - (c + 1) + 1)
          /\ N - c \in 1..(N - (c + 1) + 1) /\ (c + 1) + (w + 1) - 1 = (c + w) + 1
          /\ (c + 1) + (N - c) - 1 = N
      BY <1>1, <2>2
    <3>2. SubSeq(SubSeq(t, c + 1, N), w + 1, N - c)
            = SubSeq(t, (c + 1) + (w + 1) - 1, (c + 1) + (N - c) - 1)
      BY <1>1, <3>1, SubSeqOfSubSeq
    <3> QED BY <1>3, <3>1, <3>2
  <2> QED BY <1>1, <2>1, <2>2
<1>7. SubSeq(t, 1, c) \o mid = SubSeq(t, 1, c + w)
  <2>1. 1 \in 1..(Len(t) + 1) /\ c \in (1 - 1)..Len(t) /\ c + w \in c..Len(t)
    BY <1>1
  <2> QED BY <1>1, <2>1, ConcatAdjacentSubSeq
<1> QED BY <1>3, <1>4, <1>5, <1>6, <1>7

\* A text of characters with one more character is a text of characters.
LEMMA OneMoreRune ==
  ASSUME NEW u \in Text, NEW r \in Text, Len(r) \in 1..4, Rune(r) >= 0, IsUtf8(u)
  PROVE  IsUtf8(u \o r)
<1> DEFINE v == u \o r
           M == Len(u)
<1>1. v \in Text /\ Len(v) = M + Len(r) /\ M \in Nat /\ u \in Seq(Byte) /\ r \in Seq(Byte)
  BY JoinedTexts DEF Text
<1>2. PICK cuts : CutsInto(u, cuts)
  BY Utf8Cuts
<1> DEFINE more == cuts \cup {Len(v)}
<1>3. more \in SUBSET (0..Len(v)) /\ {0, Len(v)} \subseteq more /\ M \in more
  <2>1. cuts \in SUBSET (0..M) /\ 0 \in cuts /\ M \in cuts
    BY <1>2 DEF CutsInto
  <2> HIDE DEF v, M
  <2>2. 0..M \subseteq 0..Len(v) /\ Len(v) \in 0..Len(v)
    BY <1>1
  <2> QED BY <2>1, <2>2
<1>4. SubSeq(v, M + 1, M + Len(r)) = r
  <2>1. /\ M + 1 \in (Len(u) + 1)..(Len(u) + Len(r)) /\ M + Len(r) \in (Len(u) + 1)..(Len(u) + Len(r))
        /\ (M + 1) - Len(u) = 1 /\ (M + Len(r)) - Len(u) = Len(r)
    <3>1. Len(u) = M
      OBVIOUS
    <3> HIDE DEF M, v
    <3> QED BY <1>1, <3>1
  <2>2. SubSeq(u \o r, M + 1, M + Len(r)) = SubSeq(r, (M + 1) - Len(u), (M + Len(r)) - Len(u))
    BY <1>1, <2>1, SubSeqOfConcat2
  <2>3. SubSeq(r, 1, Len(r)) = r
    BY <1>1, SubSeqFull
  <2> QED BY <2>1, <2>2, <2>3
<1>5. ASSUME NEW c \in more \ {Len(v)}
      PROVE  \E w \in 1..4 : c + w \in more /\ Rune(SubSeq(v, c + 1, c + w)) >= 0
  <2>1. c \in cuts /\ c \in 0..M
    BY <1>2 DEF CutsInto
  <2>2. CASE c = M
    BY <1>1, <1>4, <2>2
  <2>3. CASE c # M
    <3>1. PICK w \in 1..4 : c + w \in cuts /\ Rune(SubSeq(u, c + 1, c + w)) >= 0
      BY <1>2, <2>1, <2>3 DEF CutsInto
    <3>2. c + w \in 0..M
      BY <1>2, <3>1 DEF CutsInto
    <3>3. c + 1 \in 1..Len(u) /\ c + w \in 1..Len(u)
      BY <1>1, <2>1, <3>2
    <3>4. SubSeq(v, c + 1, c + w) = SubSeq(u, c + 1, c + w)
      BY <1>1, <3>3, SubSeqOfConcat1
    <3> QED BY <3>1, <3>4
  <2> QED BY <2>2, <2>3
<1>6. CutsInto(v, more)
  BY <1>3, <1>5 DEF CutsInto
<1> QED BY <1>6, Utf8Cuts

LEMMA ReplacementIsRune == Replacement \in Text /\ Len(Replacement) = 3 /\ Rune(Replacement) >= 0
<1>1. Replacement \in Text /\ Len(Replacement) = 3
  BY DEF Replacement, Text, Byte
<1>2. RuneBits(Replacement) = 65533
  <2>1. RuneBits(Replacement) = RuneValue(Replacement)
    BY <1>1, RuneLoop
  <2>2. Replacement[1] = 239 /\ Replacement[2] = 191 /\ Replacement[3] = 189
    BY DEF Replacement
  <2>3. RuneValue(Replacement) = ((((239 % 16) * 64) + (191 % 64)) * 64) + (189 % 64)
    BY <1>1, <2>2 DEF RuneValue
  <2> QED BY <2>1, <2>3
<1>3. /\ Replacement[1] \in LeadBytes[3] /\ Smallest[3] = 2048
      /\ \A i \in 2..3 : Continuation(Replacement[i])
  BY DEF Replacement, LeadBytes, Smallest, Continuation
<1>4. IsChar(65533)
  BY DEF IsChar
<1>5. Rune(Replacement) = 65533
  BY <1>1, <1>2, <1>3, <1>4 DEF Rune
<1> QED BY <1>1, <1>5
-------------------------------------------------------------------------------
(* The document root's text *)

LossyStates == [rest : Text, output : Text]

\* A turn passes n bytes and writes one character for them: themselves, if they are one.
LossyOn(s, n, piece) ==
  /\ n \in 1..Len(s.rest) /\ piece \in Text /\ Len(piece) \in 1..4 /\ Rune(piece) >= 0
  /\ LossyTurn(s) = [rest |-> SubSeq(s.rest, n + 1, Len(s.rest)), output |-> s.output \o piece]
  /\ RuneWidth(s.rest) # 0 => n = RuneWidth(s.rest) /\ piece = SubSeq(s.rest, 1, n)

LEMMA InvalidWidths ==
  ASSUME NEW t \in Text, t # <<>>
  PROVE  InvalidWidth(t) \in 1..Len(t)
<1> DEFINE W == {1} \cup {w \in 2..3 : w <= Len(t) /\ IsBegun(SubSeq(t, 1, w))}
<1>1. Len(t) \in Nat /\ Len(t) >= 1
  BY DEF Text
<1>2. W \subseteq 0..Len(t) /\ W # {} /\ W \subseteq 1..Len(t)
  BY <1>1
<1>3. Max(W) \in W
  <2> HIDE DEF W
  <2> QED BY <1>1, <1>2, MaxIsGreatest
<1>4. InvalidWidth(t) = Max(W)
  BY Zenon DEF InvalidWidth
<1> HIDE DEF W
<1> QED BY <1>2, <1>3, <1>4

LEMMA LossyGoesOn ==
  ASSUME NEW s \in LossyStates, s.rest # <<>>
  PROVE  \E n, piece : LossyOn(s, n, piece)
<1> DEFINE t == s.rest
           w == RuneWidth(t)
           head == SubSeq(t, 1, w)
           n0 == InvalidWidth(t)
<1>1. t \in Text /\ t # <<>>
  BY DEF LossyStates
<1>2. LossyTurn(s) = CASE t = <<>> -> s
                       [] t # <<>> /\ w = 0 ->
                            [rest |-> SubSeq(t, n0 + 1, Len(t)), output |-> s.output \o Replacement]
                       [] OTHER -> [rest |-> SubSeq(t, w + 1, Len(t)), output |-> s.output \o head]
  BY Zenon DEF LossyTurn
<1>3. w = 0 \/ (w \in 1..4 /\ w <= Len(t) /\ Rune(head) >= 0)
  BY <1>1, Width
<1>4. n0 \in 1..Len(t)
  BY <1>1, InvalidWidths
<1>5. Len(t) \in Nat
  BY <1>1 DEF Text
<1> HIDE DEF t, w, n0, head
<1>6. CASE w = 0
  <2>1. LossyTurn(s) = [rest |-> SubSeq(t, n0 + 1, Len(t)), output |-> s.output \o Replacement]
    BY <1>1, <1>2, <1>6
  <2>2. LossyOn(s, n0, Replacement)
    BY <1>4, <1>6, <2>1, ReplacementIsRune DEF LossyOn, t, w
  <2> QED BY <2>2
<1>7. CASE w # 0
  <2>1. LossyTurn(s) = [rest |-> SubSeq(t, w + 1, Len(t)), output |-> s.output \o head]
    BY <1>1, <1>2, <1>7
  <2>2. w \in 1..Len(t) /\ w \in 1..4 /\ Rune(head) >= 0
    BY <1>3, <1>5, <1>7
  <2>3. head \in Text /\ Len(head) = w
    BY <1>1, <2>2, Halves DEF head
  <2>4. LossyOn(s, w, head)
    BY <2>1, <2>2, <2>3 DEF LossyOn, t, w, head
  <2> QED BY <2>4
<1> QED BY <1>6, <1>7

\* The turn has come to a cut, and has written what is before it.
AtCut(t, cuts, s) ==
  \E c \in cuts : s.output = SubSeq(t, 1, c) /\ s.rest = SubSeq(t, c + 1, Len(t))

LEMMA NextCut ==
  ASSUME NEW t \in Text, NEW cuts, CutsInto(t, cuts), NEW s \in LossyStates, s.rest # <<>>,
         AtCut(t, cuts, s)
  PROVE  AtCut(t, cuts, LossyTurn(s))
<1>1. PICK c \in cuts : s.output = SubSeq(t, 1, c) /\ s.rest = SubSeq(t, c + 1, Len(t))
  BY DEF AtCut
<1>2. Len(t) \in Nat /\ c \in 0..Len(t)
  BY DEF CutsInto, Text
<1>3. c # Len(t)
  <2> SUFFICES ASSUME c = Len(t) PROVE FALSE
    OBVIOUS
  <2>1. c + 1 \in Int /\ Len(t) \in Int /\ Len(t) < c + 1
    BY <1>2
  <2>2. SubSeq(t, c + 1, Len(t)) = <<>>
    BY <2>1, SubSeqEmpty
  <2> QED BY <1>1, <2>2
<1>4. PICK w \in 1..4 : c + w \in cuts /\ Rune(SubSeq(t, c + 1, c + w)) >= 0
  BY <1>3 DEF CutsInto
<1>5. c \in Nat /\ c + w \in 0..Len(t) /\ c + w <= Len(t)
  BY <1>2, <1>4 DEF CutsInto
<1> DEFINE mid == SubSeq(t, c + 1, c + w)
           rest == SubSeq(t, c + 1, Len(t))
<1>6. /\ rest \in Text /\ Len(rest) = Len(t) - c /\ mid \in Text /\ Len(mid) = w
      /\ SubSeq(rest, 1, w) = mid
      /\ SubSeq(rest, w + 1, Len(rest)) = SubSeq(t, (c + w) + 1, Len(t))
      /\ SubSeq(t, 1, c) \o mid = SubSeq(t, 1, c + w)
  BY <1>5, InnerStretch
<1> HIDE DEF mid, rest
<1>7. s.rest = rest
  BY <1>1 DEF rest
<1>8. RuneWidth(rest) = w
  <2> DEFINE W == {x \in 1..4 : x <= Len(rest) /\ Rune(SubSeq(rest, 1, x)) >= 0}
             x == RuneWidth(rest)
             head == SubSeq(rest, 1, x)
  <2>1. w <= Len(rest) /\ Len(rest) \in Nat
    BY <1>2, <1>5, <1>6
  <2>2. w \in W
    BY <1>4, <1>6, <2>1 DEF mid
  <2>3. x = IF W = {} THEN 0 ELSE Min(W)
    BY Zenon DEF RuneWidth
  <2>4. W \subseteq Nat
    OBVIOUS
  <2>5. x # 0
    <3>1. 0 \notin W
      OBVIOUS
    <3> HIDE DEF W, x
    <3>2. x \in W
      BY <2>2, <2>3, <2>4, MinIsLeast
    <3> QED BY <3>1, <3>2
  <2>6. x \in 1..4 /\ x <= Len(rest) /\ Rune(head) >= 0
    BY <1>6, <2>5, Width
  <2>7. x \in 1..Len(rest)
    BY <2>1, <2>6
  <2>8. head \in Text /\ Len(head) = x /\ head[1] = rest[1]
    <3>1. head \in Text /\ Len(head) = x
      BY <1>6, <2>7, Halves
    <3>2. head[1] = rest[1]
      BY <1>6, <2>7 DEF Text
    <3> QED BY <3>1, <3>2
  <2>9. mid[1] = rest[1]
    <3>1. w \in 1..Len(rest)
      BY <2>1
    <3>2. SubSeq(rest, 1, w)[1] = rest[1]
      BY <1>6, <3>1 DEF Text
    <3> QED BY <1>6, <3>2
  <2> HIDE DEF x, head
  <2>10. Rune(mid) >= 0
    BY <1>4 DEF mid
  <2>11. Len(head) = Len(mid)
    BY <1>6, <2>6, <2>8, <2>9, <2>10, OneWidth
  <2> QED BY <1>6, <2>8, <2>11 DEF x
<1>9. PICK n, piece : LossyOn(s, n, piece)
  BY LossyGoesOn
<1>10. n = w /\ piece = mid
  <2>1. RuneWidth(s.rest) = w /\ w # 0
    BY <1>7, <1>8
  <2>2. n = w /\ piece = SubSeq(s.rest, 1, n)
    BY <1>9, <2>1, Zenon DEF LossyOn
  <2>3. piece = SubSeq(rest, 1, w)
    BY <1>7, <2>2, Zenon
  <2> QED BY <1>6, <2>2, <2>3, Zenon
<1>11. LossyTurn(s) = [rest |-> SubSeq(rest, w + 1, Len(rest)), output |-> s.output \o mid]
  <2>1. LossyTurn(s) = [rest |-> SubSeq(s.rest, n + 1, Len(s.rest)), output |-> s.output \o piece]
    BY <1>9, Zenon DEF LossyOn
  <2> QED BY <1>7, <1>10, <2>1, Zenon
<1>12. /\ LossyTurn(s).rest = SubSeq(t, (c + w) + 1, Len(t))
       /\ LossyTurn(s).output = SubSeq(t, 1, c + w)
  <2> DEFINE z == LossyTurn(s)
             a == SubSeq(rest, w + 1, Len(rest))
             b == s.output \o mid
  <2>1. z = [rest |-> a, output |-> b]
    BY <1>11
  <2>2. a = SubSeq(t, (c + w) + 1, Len(t)) /\ b = SubSeq(t, 1, c + w)
    BY <1>1, <1>6
  <2> HIDE DEF z, a, b
  <2>3. z.rest = a /\ z.output = b
    BY <2>1
  <2>4. z.rest = SubSeq(t, (c + w) + 1, Len(t)) /\ z.output = SubSeq(t, 1, c + w)
    BY <2>2, <2>3, Zenon
  <2> QED BY <2>4, Zenon DEF z
<1> QED BY <1>4, <1>12 DEF AtCut

\* What has been written is UTF-8, and the text itself as far as it was UTF-8.
LossyInv(t, s) ==
  /\ s \in LossyStates /\ IsUtf8(s.output)
  /\ \A cuts : CutsInto(t, cuts) => AtCut(t, cuts, s)

LEMMA LossyStep ==
  ASSUME NEW t \in Text, NEW s, LossyInv(t, s), s.rest # <<>>
  PROVE  LossyInv(t, LossyTurn(s)) /\ Len(LossyTurn(s).rest) < Len(s.rest)
<1>1. s \in LossyStates /\ s.rest \in Text /\ s.output \in Text /\ IsUtf8(s.output)
  BY DEF LossyInv, LossyStates
<1>2. PICK n, piece : LossyOn(s, n, piece)
  BY <1>1, LossyGoesOn
<1> DEFINE z == LossyTurn(s)
           rest == SubSeq(s.rest, n + 1, Len(s.rest))
<1>3. /\ n \in 1..Len(s.rest) /\ piece \in Text /\ Len(piece) \in 1..4 /\ Rune(piece) >= 0
      /\ z = [rest |-> rest, output |-> s.output \o piece]
  BY <1>2 DEF LossyOn
<1>4. rest \in Text /\ Len(rest) = Len(s.rest) - n
  BY <1>1, <1>3, Halves
<1>5. s.output \o piece \in Text /\ IsUtf8(s.output \o piece)
  BY <1>1, <1>3, JoinedTexts, OneMoreRune
<1>6. \A cuts : CutsInto(t, cuts) => AtCut(t, cuts, z)
  BY <1>1, NextCut DEF LossyInv
<1> HIDE DEF z, rest
<1>7. z.rest = rest /\ z.output = s.output \o piece /\ z \in LossyStates
  BY <1>3, <1>4, <1>5 DEF LossyStates
<1>8. Len(s.rest) \in Nat
  BY <1>1 DEF Text
<1>9. Len(z.rest) < Len(s.rest)
  BY <1>3, <1>4, <1>7, <1>8
<1> QED BY <1>5, <1>6, <1>7, <1>9 DEF LossyInv, z

LEMMA LossyStarts ==
  ASSUME NEW t \in Text
  PROVE  LossyInv(t, [rest |-> t, output |-> <<>>])
<1> DEFINE b == [rest |-> t, output |-> <<>>]
<1>1. <<>> \in Text /\ b \in LossyStates /\ b.output = <<>> /\ b.rest = t
  BY DEF Text, LossyStates
<1>2. IsUtf8(<<>>)
  <2>1. CutsInto(<<>>, {0})
    BY DEF CutsInto
  <2> QED BY <2>1, Utf8Cuts
<1>3. ASSUME NEW cuts, CutsInto(t, cuts) PROVE AtCut(t, cuts, b)
  <2>1. 0 \in cuts
    BY <1>3 DEF CutsInto
  <2>2. SubSeq(t, 1, 0) = <<>>
    BY SubSeqEmpty
  <2>3. SubSeq(t, 0 + 1, Len(t)) = t
    BY SubSeqFull DEF Text
  <2> HIDE DEF b
  <2> QED BY <1>1, <2>1, <2>2, <2>3 DEF AtCut
<1> HIDE DEF b
<1> QED BY <1>1, <1>2, <1>3 DEF LossyInv, b

\* Reading a text as UTF-8 changes it if and only if it is not UTF-8.
LEMMA LossyReading ==
  ASSUME NEW t \in Text
  PROVE  (from_utf8_lossy(t) = t) <=> IsUtf8(t)
<1> DEFINE b == [rest |-> t, output |-> <<>>]
           N == Len(t)
           turn == [x \in LossyStates \X (1..N) |-> IF LossyInv(t, x[1]) THEN LossyTurn(x[1]) ELSE b]
           f == CHOOSE g : g = [k \in 0..N |-> IF k = 0 THEN b ELSE LossyTurn(g[k - 1])]
<1>1. N \in Nat
  BY DEF Text
<1>2. b.rest = t /\ LossyInv(t, b) /\ b \in LossyStates
  BY LossyStarts DEF LossyInv
<1>3. ASSUME NEW s, LossyInv(t, s) PROVE LossyInv(t, LossyTurn(s))
  <2>1. CASE s.rest = <<>>
    <3>1. LossyTurn(s) = s
      BY <2>1, Zenon DEF LossyTurn
    <3> QED BY <1>3, <3>1
  <2>2. CASE s.rest # <<>>
    BY <1>3, <2>2, LossyStep
  <2> QED BY <2>1, <2>2
<1>4. \A s : LossyInv(t, s) => s \in LossyStates
  BY DEF LossyInv
<1>5. turn \in Turns(LossyStates, N)
  <2>1. \A x \in LossyStates \X (1..N) :
          (IF LossyInv(t, x[1]) THEN LossyTurn(x[1]) ELSE b) \in LossyStates
    <3> HIDE DEF b
    <3> QED BY <1>2, <1>3, <1>4
  <2> HIDE DEF b, N
  <2> QED BY <2>1 DEF Turns
<1> HIDE DEF b, N
<1>6. PICK g : IsLoop(g, LossyStates, N, b, turn)
  <2> HIDE DEF turn
  <2> QED BY <1>1, <1>2, <1>5, LoopExists
<1> DEFINE G == {k \in 0..N : LossyInv(t, g[k])}
<1>7. g \in [0..N -> LossyStates] /\ g[0] = b
  BY <1>6 DEF IsLoop
<1>8. ASSUME NEW k \in 1..N, LossyInv(t, g[k - 1]) PROVE g[k] = LossyTurn(g[k - 1])
  <2>1. g[k - 1] \in LossyStates
    BY <1>4, <1>8
  <2>2. g[k] = turn[<<g[k - 1], k>>]
    <3> HIDE DEF turn
    <3> QED BY <1>6 DEF IsLoop
  <2>3. <<g[k - 1], k>> \in LossyStates \X (1..N)
    BY <2>1
  <2>4. turn[<<g[k - 1], k>>] = LossyTurn(g[k - 1])
    BY <1>8, <2>3
  <2> QED BY <2>2, <2>4
<1> HIDE DEF turn
<1>9. 0..N \subseteq G
  <2>1. 0 \in G
    BY <1>1, <1>2, <1>7
  <2>2. ASSUME NEW k \in 1..N, k - 1 \in G PROVE k \in G
    BY <1>3, <1>8, <2>2
  <2> HIDE DEF G
  <2> QED BY <1>1, <2>1, <2>2, Induction
<1>10. g = [k \in 0..N |-> IF k = 0 THEN b ELSE LossyTurn(g[k - 1])]
  <2>1. \A k \in 0..N : g[k] = IF k = 0 THEN b ELSE LossyTurn(g[k - 1])
    <3> TAKE k \in 0..N
    <3>1. CASE k = 0
      BY <1>7, <3>1
    <3>2. CASE k # 0
      <4>1. k \in 1..N /\ k - 1 \in 0..N
        BY <1>1, <3>2
      <4> QED BY <1>8, <1>9, <3>2, <4>1
    <3> QED BY <3>1, <3>2
  <2>2. g = [k \in 0..N |-> g[k]]
    BY <1>7
  <2> QED BY <2>1, <2>2
<1>11. f = [k \in 0..N |-> IF k = 0 THEN b ELSE LossyTurn(f[k - 1])]
  BY <1>10, Zenon
<1>12. from_utf8_lossy(t) = f[N].output
  BY Zenon DEF from_utf8_lossy, Loop, b, N
<1> HIDE DEF f
<1>13. f[0] = b /\ \A k \in 1..N : f[k] = LossyTurn(f[k - 1])
  BY <1>1, <1>11
<1> DEFINE H == {k \in 0..N : LossyInv(t, f[k]) /\ Len(f[k].rest) <= N - k}
<1>14. 0 \in H
  BY <1>1, <1>2, <1>13 DEF N
<1>15. ASSUME NEW k \in 1..N, k - 1 \in H PROVE k \in H
  <2> DEFINE s == f[k - 1]
  <2>1. LossyInv(t, s) /\ Len(s.rest) <= N - (k - 1) /\ f[k] = LossyTurn(s)
    BY <1>13, <1>15
  <2> HIDE DEF s
  <2>2. LossyInv(t, f[k])
    BY <1>3, <2>1
  <2>3. CASE s.rest = <<>>
    <3>1. LossyTurn(s) = s
      BY <2>3, Zenon DEF LossyTurn
    <3>2. Len(f[k].rest) = 0
      BY <2>1, <2>3, <3>1
    <3> QED BY <1>1, <2>2, <3>2
  <2>4. CASE s.rest # <<>>
    <3>1. Len(f[k].rest) < Len(s.rest)
      BY <2>1, <2>4, LossyStep
    <3>2. s.rest \in Text /\ f[k].rest \in Text
      BY <2>1, <2>2 DEF LossyInv, LossyStates
    <3>3. Len(s.rest) \in Nat /\ Len(f[k].rest) \in Nat
      BY <3>2 DEF Text
    <3>4. Len(f[k].rest) <= N - k
      BY <1>1, <2>1, <3>1, <3>3
    <3> QED BY <2>2, <3>4
  <2> QED BY <2>3, <2>4
<1>16. N \in H
  <2> HIDE DEF H
  <2>1. 0..N \subseteq H
    BY <1>1, <1>14, <1>15, Induction
  <2> QED BY <1>1, <2>1
<1> DEFINE z == f[N]
<1>17. LossyInv(t, z) /\ Len(z.rest) <= 0
  BY <1>1, <1>16
<1> HIDE DEF z
<1>18. z.rest = <<>> /\ IsUtf8(z.output)
  <2>1. z.rest \in Text
    BY <1>17 DEF LossyInv, LossyStates
  <2>2. Len(z.rest) = 0
    BY <1>17, <2>1 DEF Text
  <2> QED BY <1>17, <2>1, <2>2, EmptySeq DEF Text, LossyInv
<1>19. ASSUME IsUtf8(t) PROVE z.output = t
  <2>1. PICK cuts : CutsInto(t, cuts)
    BY <1>19, Utf8Cuts
  <2>2. PICK c \in cuts : z.output = SubSeq(t, 1, c) /\ z.rest = SubSeq(t, c + 1, Len(t))
    BY <1>17, <2>1 DEF LossyInv, AtCut
  <2>3. Len(t) \in Nat /\ c \in 0..Len(t)
    BY <2>1 DEF CutsInto, Text
  <2>4. c = Len(t)
    <3> SUFFICES ASSUME c # Len(t) PROVE FALSE
      OBVIOUS
    <3>1. c + 1 \in 1..(Len(t) + 1) /\ Len(t) \in 0..Len(t) /\ c + 1 <= Len(t)
      BY <2>3
    <3>2. Len(SubSeq(t, c + 1, Len(t))) = IF c + 1 <= Len(t) THEN Len(t) - (c + 1) + 1 ELSE 0
      BY <3>1, Stretch
    <3>3. Len(z.rest) = Len(t) - (c + 1) + 1
      BY <2>2, <3>1, <3>2
    <3> QED BY <1>18, <2>3, <3>1, <3>3
  <2> QED BY <2>2, <2>4, SubSeqFull DEF Text
<1> QED BY <1>12, <1>18, <1>19 DEF z

LEMMA Target ==
  ASSUME InputTyped, Derived
  PROVE  TargetIsPreserved
<1> DEFINE k == ServerOf(wire).known
           c == Context(wire)
<1>1. wire.line \in Targets
  BY DEF InputTyped
<1>2. server # None => server[1] = ServerOf(wire)
  BY DEF Derived, Some
<1>3. k.request_uri = raw_target(wire.line)
  BY ContextParts, KnownParts
<1>4. ServerOf(wire).query_string = Some(Query(wire.line))
  <2>1. ServerOf(wire).query_string = InfoOf(wire).query_string
    BY ServerParts
  <2>2. InfoOf(wire).query_string = Some(CString(Context(wire).request.query))
    BY InfoParts
  <2>3. Context(wire).request.query = Query(wire.line)
    BY ContextParts
  <2>4. CString(Query(wire.line)) = Query(wire.line)
    BY <1>1, TargetTyped
  <2> QED BY <2>1, <2>2, <2>3, <2>4
<1>5. /\ k.path_info = c.paths.path_info /\ k.script_name = c.paths.script_name
      /\ k.php_self = c.paths.script_name \o c.paths.path_info /\ k.remote_host = k.remote_addr
  BY KnownParts
<1>6. IsSuffix(c.paths.path_info, percent_decode(wire.line.path))
  <2>1. PICK p \in Text : p = percent_decode(wire.line.path)
    BY <1>1, TargetTyped, DecodedText
  <2>2. c.paths = split_cgi_path(DocumentRoot, <<PhpExt>>, resolve_directory_index(p))
    BY <2>1, ContextParts
  <2>3. IsSuffix(split_cgi_path(DocumentRoot, <<PhpExt>>, resolve_directory_index(p)).path_info, p)
    BY IndexSplit
  <2> QED BY <2>1, <2>2, <2>3
<1>7. ServerOf(wire).path_translated =
        IF c.paths.path_info = <<>> THEN None
        ELSE Some(sanitized_path_join(c.document_root, c.paths.path_info))
  BY ServerParts, InfoParts
<1>8. k.script_filename = sanitized_path_join(DocumentRoot, k.script_name)
  <2>1. c.paths.script_filename = sanitized_path_join(DocumentRoot, c.paths.script_name)
    <3>1. c.paths = split_cgi_path(DocumentRoot, <<PhpExt>>,
                                   resolve_directory_index(percent_decode(wire.line.path)))
      BY ContextParts
    <3>2. \A root, splits, path :
            split_cgi_path(root, splits, path).script_filename =
              sanitized_path_join(root, split_cgi_path(root, splits, path).script_name)
      BY DEF split_cgi_path
    <3> HIDE DEF c
    <3> QED BY <3>1, <3>2
  <2>2. k.script_filename = c.paths.script_filename
    BY KnownParts
  <2> QED BY <1>5, <2>1, <2>2
<1>9. k.document_root = c.document_root /\ c.document_root = from_utf8_lossy(DocumentRoot)
  BY KnownParts, ContextParts
<1>10. (from_utf8_lossy(DocumentRoot) = DocumentRoot) <=> IsUtf8(DocumentRoot)
  BY LossyReading, RequestInputAssumption DEF Text
<1> HIDE DEF k, c
<1>11. k.php_self = k.script_name \o k.path_info /\ IsSuffix(k.path_info, percent_decode(wire.line.path))
  BY <1>5, <1>6
<1>12. ServerOf(wire).path_translated =
         IF k.path_info = <<>> THEN None ELSE Some(sanitized_path_join(k.document_root, k.path_info))
  BY <1>5, <1>7, <1>9
<1>13. server # None => server[1].known = k
  BY <1>2 DEF k
<1> QED BY <1>2, <1>3, <1>4, <1>5, <1>8, <1>9, <1>10, <1>11, <1>12, <1>13
        DEF TargetIsPreserved, Query
-------------------------------------------------------------------------------
\* The script sees the request the client sent, for every target and every sequence of
\* fields: each field under its variable with all its values in order of arrival
\* (Headers::insert, build_server_vars_batch, go_register_server_variables), each name once
\* in apache_request_headers, the first Content-Type, Authorization and Content-Length, all
\* the cookies as one, and the target's URI, query and path end as they were sent; the file
\* that runs is under the root's own bytes, which DOCUMENT_ROOT is exactly when they are UTF-8.
THEOREM RequestIsSeen == InputSpec => []RequestReachesPhp
<1>1. InputInv => RequestReachesPhp
  <2> SUFFICES ASSUME InputInv PROVE RequestReachesPhp
    OBVIOUS
  <2>1. InputTyped /\ Derived
    BY DEF InputInv
  <2> QED BY <2>1, Variables, HeaderLists, FirstValues, Cookies, Target DEF RequestReachesPhp
<1> QED BY <1>1, InputInvHolds, PTL
===============================================================================
