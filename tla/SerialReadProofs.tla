-------------------------- MODULE SerialReadProofs --------------------------
(***************************************************************************)
(* Proofs about SerialRead, for every length of the buffer, every number   *)
(* of bytes and every number of operations and handlers that asio holds.   *)
(***************************************************************************)
EXTENDS SerialRead, SequenceTheorems, TLAPS

ReadPcs == {"idle", "begun", "started", "wait", "parse"}

ReadType ==
    /\ rdPc \in ReadPcs
    /\ readLen \in 0 .. BufLen /\ i \in Nat
    /\ input \in [1 .. BufLen -> Nat]
    /\ pending \in Seq(Owner) /\ handlers \in Seq(Handler)
    /\ arrived \in Nat /\ taken \in Nat
    /\ parsed \in Seq(Nat)

\* A cancelled read tells of its end only when the wait for it is over.
AbortsAreLate ==
    rdPc \in {"begun", "started", "wait"} =>
        \A k \in DOMAIN handlers : handlers[k].owner = "current" => handlers[k].result # "aborted"

\* The loop begins at the first byte.
LoopStart == rdPc = "wait" => i = 0

\* The places of the buffer that the loop has still to come to.
Ahead == IF rdPc = "parse" THEN {k \in 1 .. BufLen : k > i}
         ELSE IF BufferLives THEN 1 .. BufLen ELSE {}

\* What was parsed and what is in the buffer has been taken from the port, and what
\* is ahead in the buffer is in no other place and was not parsed.
Fresh ==
    /\ \A k \in DOMAIN parsed : parsed[k] <= taken
    /\ \A k \in 1 .. BufLen : input[k] <= taken
    /\ \A k \in Ahead : input[k] # 0 => \A j \in DOMAIN parsed : parsed[j] # input[k]
    /\ \A j, k \in Ahead : j # k /\ input[k] # 0 => input[j] # input[k]

\* The inductive invariant.
ReadInv == ReadType /\ AbortsAreLate /\ LoopStart /\ Fresh /\ NoByteTwice /\ CompletionWakes

\* The next handler to run is late: to run it disturbs the reads.
Late == /\ handlers # <<>>
        /\ \/ Head(handlers).owner # "current"
           \/ Head(handlers).result = "ok" /\ rdPc = "idle"

\* The loop is done with the bytes 1 .. Done of the buffer.
Done == IF rdPc = "parse" THEN i ELSE 0

\* The buffer holds, from the byte Done + 1 to the byte n, what is to be parsed next.
Holds(n) ==
    /\ Done <= n /\ Len(parsed) + (n - Done) = taken
    /\ \A k \in 1 .. n : k > Done => input[k] = Len(parsed) + (k - Done)

\* Where a read can be if no handler is late: between two reads, ...
Between ==
    /\ rdPc \in {"idle", "begun"} /\ pending = <<>> /\ Len(parsed) = taken
    /\ rdPc = "begun" => ~readComplete
    /\ \/ handlers = <<>>
       \/ /\ rdPc = "idle" /\ Len(handlers) = 1
          /\ handlers[1].owner = "current" /\ handlers[1].result # "ok"

\* ... with the operation outstanding, ...
Outstanding ==
    /\ rdPc \in {"started", "wait"} /\ Len(pending) = 1 /\ handlers = <<>>
    /\ pending[1] = "current"
    /\ readLen = 0 /\ ~readComplete /\ Len(parsed) = taken

\* ... with its handler to come, ...
HandlerDue ==
    /\ BufferLives /\ pending = <<>>
    /\ Len(handlers) = 1 /\ handlers[1].owner = "current"
    /\ readLen = 0 /\ ~readComplete /\ Done = 0
    /\ IF handlers[1].result = "ok" THEN Holds(handlers[1].bytes) ELSE Len(parsed) = taken

\* ... or with nothing to come but the loop.
Handled ==
    BufferLives /\ pending = <<>> /\ handlers = <<>> /\ Holds(readLen)

InTime == Between \/ Outstanding \/ HandlerDue \/ Handled

\* What was parsed is what came in.
Exact == ~junk /\ \A k \in DOMAIN parsed : parsed[k] = k

\* The inductive invariant of reads that nothing disturbs.
CleanInv == ~disturbed => Exact /\ (InTime \/ (Late /\ (BufferLives => readLen = 0)))

-----------------------------------------------------------------------------
(* Sequences *)

LEMMA MapSeq ==
    ASSUME NEW S, NEW T, NEW s \in Seq(S), NEW f \in [DOMAIN s -> T]
    PROVE  f \in Seq(T) /\ Len(f) = Len(s)
<1>1. Len(s) \in Nat /\ DOMAIN s = 1 .. Len(s)
  BY LenProperties
<1>2. f \in Seq(T)
  BY <1>1
<1> QED BY <1>1, <1>2

LEMMA MapHead ==
    ASSUME NEW S, NEW T, NEW s \in Seq(S), NEW f \in Seq(T), Len(f) = Len(s)
    PROVE  /\ s = <<>> => f = <<>>
           /\ s # <<>> => f # <<>> /\ 1 \in DOMAIN s /\ Head(f) = f[1] /\ Head(s) = s[1]
OBVIOUS

LEMMA ConcatHead ==
    ASSUME NEW S, NEW s \in Seq(S), NEW t \in Seq(S)
    PROVE  /\ s \o t \in Seq(S)
           /\ s # <<>> => s \o t # <<>> /\ Head(s \o t) = Head(s)
           /\ s = <<>> => s \o t = t
           /\ t # <<>> => s \o t # <<>>
           /\ t = <<>> => s \o t = s
OBVIOUS

LEMMA AppendHead ==
    ASSUME NEW S, NEW s \in Seq(S), NEW e \in S
    PROVE  /\ Append(s, e) \in Seq(S)
           /\ s # <<>> => Append(s, e) # <<>> /\ Head(Append(s, e)) = Head(s)
           /\ s = <<>> => Len(Append(s, e)) = 1 /\ Append(s, e)[1] = e
OBVIOUS

LEMMA HeadTail ==
    ASSUME NEW S, NEW s \in Seq(S), s # <<>>
    PROVE  /\ Head(s) = s[1] /\ 1 \in DOMAIN s /\ Head(s) \in S
           /\ Tail(s) \in Seq(S) /\ Len(Tail(s)) = Len(s) - 1
           /\ \A k \in DOMAIN Tail(s) : k + 1 \in DOMAIN s /\ Tail(s)[k] = s[k + 1]
OBVIOUS

LEMMA OneHead ==
    ASSUME NEW S, NEW s \in Seq(S), Len(s) = 1
    PROVE  s # <<>> /\ Head(s) = s[1]
OBVIOUS

LEMMA Empty == \A S : \A s \in Seq(S) : Len(s) = 0 <=> s = <<>>
OBVIOUS

\* The elements of a sequence with one more, or with more of them.
LEMMA AppendElems ==
    ASSUME NEW S, NEW s \in Seq(S), NEW e
    PROVE  \A k \in DOMAIN Append(s, e) : \/ k \in DOMAIN s /\ Append(s, e)[k] = s[k]
                                          \/ k = Len(s) + 1 /\ Append(s, e)[k] = e
OBVIOUS

LEMMA ConcatElems ==
    ASSUME NEW S, NEW s \in Seq(S), NEW t \in Seq(S), NEW k \in DOMAIN (s \o t)
    PROVE  \/ k \in DOMAIN s /\ (s \o t)[k] = s[k]
           \/ \E j \in DOMAIN t : (s \o t)[k] = t[j]
OBVIOUS

-----------------------------------------------------------------------------
(* Operations and handlers whose read is over *)

LEMMA OldHandler ==
    ASSUME NEW h \in Handler, NEW o \in Owner
    PROVE  LET a == [h EXCEPT !.owner = o] IN
           a \in Handler /\ a.owner = o /\ a.result = h.result /\ a.bytes = h.bytes
BY DEF Handler

LEMMA NewHandler ==
    ASSUME NEW o \in Owner, NEW r \in {"ok", "aborted", "failed"}, NEW n \in 0 .. BufLen
    PROVE  LET h == [owner |-> o, result |-> r, bytes |-> n] IN
           h \in Handler /\ h.owner = o /\ h.result = r /\ h.bytes = n
BY DEF Handler

LEMMA HandlerFields ==
    ASSUME NEW h \in Handler
    PROVE  h.owner \in Owner /\ h.result \in {"ok", "aborted", "failed"} /\ h.bytes \in 0 .. BufLen
BY DEF Handler

LEMMA AgeFacts == \A o \in Owner : Age(o) \in Owner /\ Age(o) # "current"
BY DEF Age, Owner

LEMMA AbortedFacts ==
    ASSUME NEW os \in Seq(Owner)
    PROVE  /\ Aborted(os) \in Seq(Handler) /\ Len(Aborted(os)) = Len(os)
           /\ \A k \in DOMAIN Aborted(os) : /\ k \in DOMAIN os /\ Aborted(os)[k].owner = os[k]
                                            /\ Aborted(os)[k].result = "aborted"
<1>1. \A k \in DOMAIN os : os[k] \in Owner
  OBVIOUS
<1>2. Aborted(os) \in [DOMAIN os -> Handler]
  BY <1>1, ReadBounds DEF Aborted, Handler
<1>3. Aborted(os) \in Seq(Handler) /\ Len(Aborted(os)) = Len(os)
  BY <1>2, MapSeq
<1>4. \A k \in DOMAIN Aborted(os) : /\ k \in DOMAIN os /\ Aborted(os)[k].owner = os[k]
                                    /\ Aborted(os)[k].result = "aborted"
  BY DEF Aborted
<1> QED BY <1>3, <1>4

\* The steps that make handlers late.
LEMMA BeginFacts ==
    ASSUME ReadType, Begin
    PROVE  /\ pending' \in Seq(Owner) /\ Len(pending') = Len(pending)
           /\ handlers' \in Seq(Handler) /\ Len(handlers') = Len(handlers)
           /\ \A k \in DOMAIN handlers' : handlers'[k].owner # "current"
<1>1. pending \in Seq(Owner) /\ handlers \in Seq(Handler)
  BY DEF ReadType
<1>2. (\A k \in DOMAIN pending : pending[k] \in Owner) /\ (\A k \in DOMAIN handlers : handlers[k] \in Handler)
  BY <1>1
<1>3. pending' \in [DOMAIN pending -> Owner]
  BY <1>2, AgeFacts DEF Begin
<1>4. \A k \in DOMAIN handlers :
         LET o == Age(handlers[k].owner) IN o \in Owner /\ o # "current"
  BY <1>2, AgeFacts, HandlerFields
<1>5. handlers' = [k \in DOMAIN handlers |-> [handlers[k] EXCEPT !.owner = Age(handlers[k].owner)]]
  BY DEF Begin
<1>6. \A k \in DOMAIN handlers :
         handlers'[k] \in Handler /\ handlers'[k].owner # "current"
  BY <1>2, <1>4, <1>5, OldHandler
<1>7. handlers' \in [DOMAIN handlers -> Handler]
  BY <1>5, <1>6
<1> QED BY <1>1, <1>3, <1>6, <1>7, MapSeq

LEMMA RestartFacts ==
    ASSUME ReadType, Restart
    PROVE  /\ handlers' \in Seq(Handler)
           /\ handlers = <<>> /\ pending = <<>> => handlers' = <<>>
           /\ handlers # <<>> => handlers' # <<>>
           /\ handlers' # <<>> => Head(handlers').owner # "current"
<1> DEFINE hs == [k \in DOMAIN handlers |-> [handlers[k] EXCEPT !.owner = "deleted"]]
           os == [k \in DOMAIN pending |-> "deleted"]
<1>1. pending \in Seq(Owner) /\ handlers \in Seq(Handler)
  BY DEF ReadType
<1>2. \A k \in DOMAIN handlers : handlers[k] \in Handler
  BY <1>1
<1>3. \A k \in DOMAIN handlers : hs[k] \in Handler /\ hs[k].owner = "deleted"
  BY <1>2, OldHandler DEF Owner
<1>4. hs \in Seq(Handler) /\ Len(hs) = Len(handlers)
  BY <1>1, <1>3, MapSeq
<1>5. os \in Seq(Owner) /\ Len(os) = Len(pending)
  BY <1>1, MapSeq DEF Owner
<1>6. handlers' = hs \o Aborted(os) /\ \A k \in DOMAIN os : os[k] = "deleted"
  BY DEF Restart
<1> HIDE DEF hs, os
<1>7. /\ Aborted(os) \in Seq(Handler) /\ Len(Aborted(os)) = Len(os)
      /\ \A k \in DOMAIN Aborted(os) : Aborted(os)[k].owner = "deleted"
  BY <1>5, <1>6, AbortedFacts
<1>8. handlers' \in Seq(Handler)
  BY <1>4, <1>6, <1>7, ConcatHead
<1>9. handlers = <<>> /\ pending = <<>> => handlers' = <<>>
  BY <1>1, <1>4, <1>5, <1>6, <1>7, ConcatHead, Empty
<1>10. ASSUME handlers' # <<>> PROVE Head(handlers').owner # "current"
  <2>1. CASE hs # <<>>
    BY <1>1, <1>3, <1>4, <1>6, <1>7, <2>1, ConcatHead, MapHead, Empty
  <2>2. CASE hs = <<>>
    <3>1. handlers' = Aborted(os)
      BY <1>4, <1>6, <1>7, <2>2, ConcatHead
    <3> QED BY <1>7, <1>10, <3>1, HeadTail
  <2> QED BY <2>1, <2>2
<1>11. handlers # <<>> => handlers' # <<>>
  <2>1. handlers # <<>> => hs # <<>>
    BY <1>1, <1>4, MapHead
  <2> QED BY <1>4, <1>6, <1>7, <2>1, ConcatHead
<1> QED BY <1>8, <1>9, <1>10, <1>11

-----------------------------------------------------------------------------
(* Types *)

LEMMA OpFacts ==
    ASSUME ReadType, OpCompletes
    PROVE  /\ pending # <<>> /\ Head(pending) \in Owner /\ pending' = Tail(pending)
           /\ pending' \in Seq(Owner)
           /\ \E n \in 1 .. BufLen :
                 /\ taken' = taken + n
                 /\ handlers' = Append(handlers, [owner |-> Head(pending), result |-> "ok", bytes |-> n])
                 /\ \/ input' = input
                    \/ BufferLives /\ input' = Put(input, n)
                 /\ BufferLives /\ Head(pending) = "current" => input' = Put(input, n)
<1>1. pending \in Seq(Owner) /\ pending # <<>> /\ pending' = Tail(pending)
  BY DEF ReadType, OpCompletes
<1>2. Least(arrived - taken, BufLen) \in 1 .. BufLen
  BY ReadBounds DEF ReadType, OpCompletes, Least
<1>3. PICK n \in 1 .. BufLen : n = Least(arrived - taken, BufLen)
  BY <1>2
<1>4. /\ taken' = taken + n
      /\ handlers' = Append(handlers, [owner |-> Head(pending), result |-> "ok", bytes |-> n])
      /\ input' \in IF ~BufferLives THEN {input}
                    ELSE IF Head(pending) = "current" THEN {Put(input, n)}
                    ELSE {input, Put(input, n)}
  BY <1>3 DEF OpCompletes
<1>5. /\ \/ input' = input
         \/ BufferLives /\ input' = Put(input, n)
      /\ BufferLives /\ Head(pending) = "current" => input' = Put(input, n)
  BY <1>4
<1> QED BY <1>1, <1>4, <1>5, HeadTail

LEMMA NextType == ReadType /\ [Next]_vars => ReadType'
<1> SUFFICES ASSUME ReadType, [Next]_vars PROVE ReadType'
  OBVIOUS
<1> USE ReadBounds DEF ReadPcs
<1>0. /\ rdPc \in ReadPcs /\ readLen \in 0 .. BufLen /\ i \in Nat
      /\ input \in [1 .. BufLen -> Nat] /\ pending \in Seq(Owner) /\ handlers \in Seq(Handler)
      /\ arrived \in Nat /\ taken \in Nat /\ parsed \in Seq(Nat)
  BY DEF ReadType
<1>1. CASE Begin
  BY <1>0, <1>1, BeginFacts DEF ReadType, Begin, portVars
<1>2. CASE Start
  <2>1. pending' \in Seq(Owner)
    BY <1>0, <1>2, AppendHead DEF Start, Owner
  <2>2. input' \in [1 .. BufLen -> Nat]
    BY <1>2 DEF Start, Blank
  <2> QED BY <1>0, <1>2, <2>1, <2>2 DEF ReadType, Start, portVars
<1>3. CASE Check
  BY <1>0, <1>3 DEF ReadType, Check, portVars, asioVars
<1>4. CASE Wake
  <2>1. handlers' \in Seq(Handler)
    BY <1>0, <1>4, AbortedFacts, ConcatHead DEF Wake
  <2> QED BY <1>0, <1>4, <2>1 DEF ReadType, Wake, portVars
<1>5. CASE CancelThrows
  BY <1>0, <1>5 DEF ReadType, CancelThrows, portVars, asioVars
<1>6. CASE ParseByte
  <2>1. i + 1 \in 1 .. BufLen
    BY <1>0, <1>6 DEF ParseByte
  <2>2. input[i + 1] \in Nat
    BY <1>0, <2>1
  <2>3. parsed' \in Seq(Nat)
    <3>1. parsed' = parsed \/ parsed' = Append(parsed, input[i + 1])
      BY <1>6 DEF ParseByte
    <3>2. CASE parsed' = Append(parsed, input[i + 1])
      BY <1>0, <2>2, <3>2, AppendHead
    <3> QED BY <1>0, <3>1, <3>2
  <2> QED BY <1>0, <1>6, <2>3 DEF ReadType, ParseByte, portVars, asioVars
<1>7. CASE Return
  BY <1>0, <1>7 DEF ReadType, Return, portVars, asioVars
<1>8. CASE HandleRead
  <2>1. handlers # <<>> /\ handlers' = Tail(handlers)
    BY <1>8 DEF HandleRead
  <2>2. handlers' \in Seq(Handler) /\ Head(handlers) \in Handler
    BY <1>0, <2>1, HeadTail
  <2>3. Head(handlers).bytes \in 0 .. BufLen
    BY <2>2, HandlerFields
  <2>4. readLen' \in 0 .. BufLen
    BY <1>0, <1>8, <2>3 DEF HandleRead, Complete
  <2> QED BY <1>0, <1>8, <2>2, <2>4 DEF ReadType, HandleRead, portVars
<1>9. CASE Arrive \/ Fail \/ Reset
  <2>1. UNCHANGED <<readVars, asioVars, taken, parsed>> /\ arrived' \in {arrived, arrived + 1}
    BY <1>9 DEF Arrive, Fail, Reset, portVars
  <2> QED BY <1>0, <2>1 DEF ReadType, readVars, asioVars
<1>10. CASE OpCompletes
  <2>1. PICK n \in 1 .. BufLen :
          /\ taken' = taken + n
          /\ handlers' = Append(handlers, [owner |-> Head(pending), result |-> "ok", bytes |-> n])
          /\ input' = input \/ input' = Put(input, n)
    BY <1>10, OpFacts
  <2>2. [owner |-> Head(pending), result |-> "ok", bytes |-> n] \in Handler
    BY <1>10, OpFacts, NewHandler
  <2>3. handlers' \in Seq(Handler)
    BY <1>0, <2>1, <2>2, AppendHead
  <2>4. input' \in [1 .. BufLen -> Nat]
    <3>1. \A k \in 1 .. BufLen : taken + k \in Nat /\ input[k] \in Nat
      BY <1>0
    <3>2. Put(input, n) \in [1 .. BufLen -> Nat]
      BY <3>1 DEF Put
    <3> QED BY <1>0, <2>1, <3>2
  <2>5. taken' \in Nat
    BY <1>0, <2>1
  <2> QED BY <1>0, <1>10, <2>3, <2>4, <2>5, OpFacts DEF ReadType, OpCompletes
<1>11. CASE OpFails
  <2>1. pending # <<>> /\ pending' = Tail(pending)
        /\ handlers' = Append(handlers, [owner |-> Head(pending), result |-> "failed", bytes |-> 0])
    BY <1>11 DEF OpFails
  <2>2. Head(pending) \in Owner /\ pending' \in Seq(Owner)
    BY <1>0, <2>1, HeadTail
  <2>3. handlers' \in Seq(Handler)
    BY <1>0, <2>1, <2>2, NewHandler, AppendHead
  <2> QED BY <1>0, <1>11, <2>2, <2>3 DEF ReadType, OpFails, readVars, portVars
<1>12. CASE Restart
  <2>1. handlers' \in Seq(Handler)
    BY <1>12, RestartFacts
  <2>2. pending' = <<>>
    BY <1>12 DEF Restart
  <2>3. pending' \in Seq(Owner)
    BY <2>2
  <2>4. /\ rdPc' \in ReadPcs /\ readLen' \in 0 .. BufLen
        /\ UNCHANGED <<input, i, arrived, taken, parsed>>
    BY <1>0, <1>12 DEF Restart
  <2> QED BY <1>0, <2>1, <2>3, <2>4 DEF ReadType
<1>13. CASE UNCHANGED vars
  BY <1>0, <1>13 DEF ReadType, vars, readVars, asioVars, portVars
<1> QED BY <1>1, <1>2, <1>3, <1>4, <1>5, <1>6, <1>7, <1>8, <1>9, <1>10, <1>11, <1>12, <1>13
     DEF Next, Reader

-----------------------------------------------------------------------------
(* The wait *)

LEMMA NextWakes ==
    ASSUME ReadType, AbortsAreLate, LoopStart, CompletionWakes, [Next]_vars
    PROVE  AbortsAreLate' /\ LoopStart' /\ CompletionWakes'
<1>0. pending \in Seq(Owner) /\ handlers \in Seq(Handler) /\ rdPc \in ReadPcs
  BY DEF ReadType
<1>1. CASE Begin
  <2>1. rdPc' = "begun" /\ UNCHANGED i
    BY <1>1 DEF Begin
  <2> QED BY <1>1, <2>1, BeginFacts DEF AbortsAreLate, LoopStart, CompletionWakes
<1>2. CASE Start
  BY <1>2 DEF Start, AbortsAreLate, LoopStart, CompletionWakes
<1>3. CASE Check
  BY <1>3 DEF Check, asioVars, AbortsAreLate, LoopStart, CompletionWakes
<1>4. CASE Wake \/ CancelThrows \/ ParseByte \/ Return
  <2>1. rdPc' \in {"idle", "parse"}
    BY <1>4 DEF Wake, CancelThrows, ParseByte, Return
  <2> QED BY <2>1 DEF AbortsAreLate, LoopStart, CompletionWakes
<1>5. CASE HandleRead
  <2>1. handlers # <<>> /\ handlers' = Tail(handlers) /\ UNCHANGED <<rdPc, i>>
    BY <1>5 DEF HandleRead
  <2>2. AbortsAreLate'
    BY <1>0, <2>1, HeadTail DEF AbortsAreLate
  <2>3. ASSUME ~disturbed', rdPc = "wait" PROVE notified'
    <3>1. /\ Head(handlers).owner = "current" /\ Head(handlers) = handlers[1] /\ 1 \in DOMAIN handlers
      BY <1>0, <1>5, <2>1, <2>3, HeadTail DEF HandleRead
    <3>2. Head(handlers).result # "aborted"
      BY <2>3, <3>1 DEF AbortsAreLate
    <3>3. Complete(Head(handlers))
      BY <1>5, <3>1 DEF HandleRead, Reaches
    <3> QED BY <3>2, <3>3 DEF Complete
  <2> QED BY <2>1, <2>2, <2>3 DEF LoopStart, CompletionWakes
<1>6. CASE OpCompletes
  <2>1. PICK n \in 1 .. BufLen :
           handlers' = Append(handlers, [owner |-> Head(pending), result |-> "ok", bytes |-> n])
    BY <1>6, OpFacts
  <2>2. AbortsAreLate'
    BY <1>0, <1>6, <2>1, AppendElems DEF AbortsAreLate, OpCompletes
  <2> QED BY <1>6, <2>2 DEF OpCompletes, LoopStart, CompletionWakes
<1>7. CASE OpFails
  <2>1. handlers' = Append(handlers, [owner |-> Head(pending), result |-> "failed", bytes |-> 0])
    BY <1>7 DEF OpFails
  <2>2. AbortsAreLate'
    BY <1>0, <1>7, <2>1, AppendElems DEF AbortsAreLate, OpFails, readVars
  <2> QED BY <1>7, <2>2 DEF OpFails, readVars, LoopStart, CompletionWakes
<1>8. CASE Restart
  <2>1. rdPc' = "idle"
    BY <1>8 DEF Restart
  <2> QED BY <2>1 DEF AbortsAreLate, LoopStart, CompletionWakes
<1>9. CASE Arrive \/ Fail \/ Reset \/ UNCHANGED vars
  BY <1>9 DEF Arrive, Fail, Reset, vars, readVars, asioVars, AbortsAreLate, LoopStart, CompletionWakes
<1> QED BY <1>1, <1>2, <1>3, <1>4, <1>5, <1>6, <1>7, <1>8, <1>9 DEF Next, Reader

-----------------------------------------------------------------------------
(* Bytes that are parsed *)

\* What happens to the buffer is no matter once the loop is done with it.
LEMMA FreshAhead ==
    ASSUME Fresh, NoByteTwice, UNCHANGED <<input, taken, parsed>>, Ahead' \subseteq Ahead
    PROVE  Fresh' /\ NoByteTwice'
BY DEF Fresh, NoByteTwice

LEMMA NextFresh ==
    ASSUME ReadType, LoopStart, Fresh, NoByteTwice, [Next]_vars
    PROVE  Fresh' /\ NoByteTwice'
<1>0. /\ rdPc \in ReadPcs /\ readLen \in 0 .. BufLen /\ i \in Nat /\ BufLen \in Nat
      /\ input \in [1 .. BufLen -> Nat] /\ taken \in Nat /\ parsed \in Seq(Nat)
  BY ReadBounds DEF ReadType
<1>1. CASE Begin \/ CancelThrows \/ Return
  <2>1. rdPc' \in {"idle", "begun"} /\ UNCHANGED <<input, taken, parsed>>
    BY <1>1 DEF Begin, CancelThrows, Return, portVars
  <2>2. Ahead' = {}
    BY <2>1 DEF Ahead, BufferLives
  <2> QED BY <2>1, <2>2, FreshAhead
<1>2. CASE Start
  <2>1. /\ \A k \in 1 .. BufLen : input'[k] = 0
        /\ Ahead' \subseteq 1 .. BufLen /\ UNCHANGED <<taken, parsed>>
    BY <1>2 DEF Start, Blank, Ahead, portVars
  <2> QED BY <1>0, <2>1 DEF Fresh, NoByteTwice
<1>3. CASE Check
  <2>1. Ahead' \subseteq Ahead /\ UNCHANGED <<input, taken, parsed>>
    BY <1>3 DEF Check, Ahead, BufferLives, portVars
  <2> QED BY <2>1, FreshAhead
<1>4. CASE Wake
  <2>1. Ahead' \subseteq Ahead /\ UNCHANGED <<input, taken, parsed>>
    BY <1>4 DEF Wake, Ahead, BufferLives, portVars
  <2> QED BY <2>1, FreshAhead
<1>5. CASE ParseByte
  <2>1. i + 1 \in 1 .. BufLen /\ i + 1 \in Ahead
    BY <1>0, <1>5 DEF ParseByte, Ahead
  <2>2. UNCHANGED <<input, taken>> /\ Ahead' \subseteq Ahead /\ i + 1 \notin Ahead'
    BY <1>0, <1>5 DEF ParseByte, Ahead, portVars
  <2>3. CASE UNCHANGED parsed
    BY <2>2, <2>3, FreshAhead
  <2>4. CASE input[i + 1] # 0 /\ parsed' = Append(parsed, input[i + 1])
    <3>1. PICK b : b = input[i + 1]
      OBVIOUS
    <3>2. /\ b # 0 /\ b <= taken /\ \A j \in DOMAIN parsed : parsed[j] # b
      BY <2>1, <2>4, <3>1 DEF Fresh
    <3>3. \A k \in DOMAIN parsed' : \/ k \in DOMAIN parsed /\ parsed'[k] = parsed[k]
                                    \/ k = Len(parsed) + 1 /\ parsed'[k] = b
      BY <1>0, <2>4, <3>1, AppendElems
    <3>4. NoByteTwice'
      BY <3>2, <3>3 DEF NoByteTwice
    <3>5. \A k \in Ahead' : k \in Ahead /\ input'[k] # b
      BY <2>1, <2>2, <3>1, <3>2 DEF Fresh
    <3>6. \A k \in Ahead' : input'[k] # 0 => \A j \in DOMAIN parsed' : parsed'[j] # input'[k]
      BY <2>2, <3>3, <3>5 DEF Fresh
    <3>7. \A k \in DOMAIN parsed' : parsed'[k] <= taken'
      BY <2>2, <3>2, <3>3 DEF Fresh
    <3> QED BY <2>2, <3>4, <3>6, <3>7 DEF Fresh
  <2> QED BY <1>5, <2>3, <2>4 DEF ParseByte
<1>6. CASE OpCompletes
  <2>1. PICK n \in 1 .. BufLen :
          /\ taken' = taken + n
          /\ input' = input \/ input' = Put(input, n)
    BY <1>6, OpFacts
  <2>2. UNCHANGED parsed /\ Ahead' = Ahead /\ Ahead \subseteq 1 .. BufLen
    BY <1>6 DEF OpCompletes, Ahead, BufferLives
  <2>3. \A k \in DOMAIN parsed : parsed[k] \in Nat /\ parsed[k] <= taken
    BY <1>0 DEF Fresh
  <2>4. \A k \in 1 .. BufLen : input[k] \in Nat /\ input[k] <= taken
    BY <1>0 DEF Fresh
  <2>5. NoByteTwice'
    BY <2>2 DEF NoByteTwice
  <2>6. \A k \in DOMAIN parsed' : parsed'[k] <= taken'
    BY <1>0, <2>1, <2>2, <2>3
  <2>7. CASE input' = input
    <3>1. \A k \in 1 .. BufLen : input'[k] <= taken'
      BY <1>0, <2>1, <2>4, <2>7
    <3> QED BY <2>2, <2>5, <2>6, <2>7, <3>1 DEF Fresh
  <2>8. CASE input' = Put(input, n)
    <3>1. \A k \in 1 .. BufLen : \/ input'[k] = taken + k /\ k <= n
                                 \/ input'[k] = input[k]
      BY <2>8 DEF Put
    <3>2. \A k \in 1 .. BufLen : input'[k] <= taken'
      BY <1>0, <2>1, <2>4, <3>1
    <3>3. \A k \in Ahead : input'[k] # 0 => \A j \in DOMAIN parsed : parsed[j] # input'[k]
      <4> SUFFICES ASSUME NEW k \in Ahead, input'[k] # 0, NEW j \in DOMAIN parsed
                   PROVE  parsed[j] # input'[k]
        OBVIOUS
      <4>1. CASE input'[k] = input[k]
        BY <4>1 DEF Fresh
      <4>2. CASE input'[k] = taken + k
        <5>1. k \in 1 .. BufLen /\ parsed[j] \in Nat /\ parsed[j] <= taken
          BY <2>2, <2>3
        <5> QED BY <1>0, <4>2, <5>1
      <4> QED BY <2>2, <3>1, <4>1, <4>2
    <3>4. \A j, k \in Ahead : j # k /\ input'[k] # 0 => input'[j] # input'[k]
      <4> SUFFICES ASSUME NEW j \in Ahead, NEW k \in Ahead, j # k, input'[k] # 0
                   PROVE  input'[j] # input'[k]
        OBVIOUS
      <4>1. /\ j \in 1 .. BufLen /\ k \in 1 .. BufLen
            /\ input[j] \in Nat /\ input[j] <= taken /\ input[k] \in Nat /\ input[k] <= taken
        BY <2>2, <2>4
      <4>2. CASE input'[j] = input[j] /\ input'[k] = input[k]
        BY <4>2 DEF Fresh
      <4>3. CASE input'[j] = taken + j /\ input'[k] = taken + k
        BY <1>0, <4>1, <4>3
      <4>4. CASE input'[j] = taken + j /\ input'[k] = input[k]
        BY <1>0, <4>1, <4>4
      <4>5. CASE input'[j] = input[j] /\ input'[k] = taken + k
        BY <1>0, <4>1, <4>5
      <4> QED BY <3>1, <4>1, <4>2, <4>3, <4>4, <4>5
    <3> QED BY <2>2, <2>5, <2>6, <3>2, <3>3, <3>4 DEF Fresh
  <2> QED BY <2>1, <2>7, <2>8
<1>7. CASE HandleRead \/ Arrive \/ Fail \/ OpFails \/ Reset \/ Restart \/ UNCHANGED vars
  <2>1. UNCHANGED <<rdPc, i, input, taken, parsed>>
    BY <1>7 DEF HandleRead, Arrive, Fail, OpFails, Reset, Restart, vars, readVars, portVars
  <2>2. Ahead' = Ahead
    BY <2>1 DEF Ahead, BufferLives
  <2> QED BY <2>1, <2>2, FreshAhead
<1> QED BY <1>1, <1>2, <1>3, <1>4, <1>5, <1>6, <1>7 DEF Next, Reader

-----------------------------------------------------------------------------
LEMMA InitRead == Init => ReadInv
<1> SUFFICES ASSUME Init PROVE ReadInv
  OBVIOUS
<1>1. ReadType
  BY ReadBounds DEF Init, ReadType, ReadPcs, Blank
<1>2. AbortsAreLate /\ LoopStart /\ NoByteTwice /\ CompletionWakes
  BY DEF Init, AbortsAreLate, LoopStart, NoByteTwice, CompletionWakes
<1>3. Fresh
  BY DEF Init, Fresh, Ahead, BufferLives, Blank
<1> QED BY <1>1, <1>2, <1>3 DEF ReadInv

LEMMA NextRead == ReadInv /\ [Next]_vars => ReadInv'
BY NextType, NextWakes, NextFresh DEF ReadInv

\* A read that completes or fails ends the wait for it, however long the operations
\* of earlier reads stay with asio and whatever handlers are queued.
THEOREM CompletionsWake == Spec => []CompletionWakes
<1>1. ReadInv => CompletionWakes
  BY DEF ReadInv
<1> QED BY InitRead, NextRead, <1>1, PTL DEF Spec

\* No byte is parsed twice, with buffers of every length, also where the handler of
\* one read sets the length of another.
THEOREM BytesParsedOnce == Spec => []NoByteTwice
<1>1. ReadInv => NoByteTwice
  BY DEF ReadInv
<1> QED BY InitRead, NextRead, <1>1, PTL DEF Spec

-----------------------------------------------------------------------------
(* Reads that nothing disturbs *)

\* Once a handler is late nothing more is parsed until it runs.
LEMMA LateStep ==
    ASSUME ReadType, Late, BufferLives => readLen = 0, [Next]_vars, ~disturbed'
    PROVE  Late' /\ (BufferLives' => readLen' = 0) /\ UNCHANGED <<junk, parsed>>
<1>0. /\ pending \in Seq(Owner) /\ handlers \in Seq(Handler) /\ rdPc \in ReadPcs /\ i \in Nat
      /\ handlers # <<>> /\ (BufferLives => readLen = 0)
      /\ Head(handlers).owner # "current" \/ (Head(handlers).result = "ok" /\ rdPc = "idle")
  BY DEF ReadType, Late
<1>1. CASE Begin
  <2>1. handlers' \in Seq(Handler) /\ handlers' # <<>> /\ Head(handlers').owner # "current"
    BY <1>0, <1>1, BeginFacts, MapHead, HeadTail
  <2>2. rdPc' = "begun" /\ UNCHANGED <<junk, parsed>>
    BY <1>1 DEF Begin
  <2> QED BY <2>1, <2>2 DEF Late, BufferLives
<1>2. CASE Restart
  <2>1. handlers' # <<>>
    BY <1>0, <1>2, RestartFacts
  <2> QED BY <1>2, <2>1, RestartFacts DEF Late, Restart, BufferLives
<1>3. CASE HandleRead
  BY <1>0, <1>3 DEF HandleRead
<1>4. CASE CancelThrows
  BY <1>4 DEF CancelThrows
<1>5. CASE Start
  BY <1>0, <1>5 DEF Start, Late
<1>6. CASE Check
  BY <1>0, <1>6 DEF Check, Late, BufferLives, asioVars
<1>7. CASE Wake
  <2>1. handlers' # <<>> /\ Head(handlers') = Head(handlers)
    BY <1>0, <1>7, AbortedFacts, ConcatHead DEF Wake
  <2> QED BY <1>0, <1>7, <2>1 DEF Wake, Late, BufferLives
<1>8. CASE ParseByte
  BY <1>0, <1>8 DEF ParseByte, BufferLives
<1>9. CASE Return
  BY <1>0, <1>9 DEF Return, Late, BufferLives, asioVars
<1>10. CASE OpCompletes
  <2>1. PICK n \in 1 .. BufLen :
           handlers' = Append(handlers, [owner |-> Head(pending), result |-> "ok", bytes |-> n])
    BY <1>10, OpFacts
  <2>2. [owner |-> Head(pending), result |-> "ok", bytes |-> n] \in Handler
    BY <1>10, OpFacts, NewHandler
  <2>3. handlers' # <<>> /\ Head(handlers') = Head(handlers)
    BY <1>0, <2>1, <2>2, AppendHead
  <2> QED BY <1>0, <1>10, <2>3 DEF OpCompletes, Late, BufferLives
<1>11. CASE OpFails
  <2>1. pending # <<>>
        /\ handlers' = Append(handlers, [owner |-> Head(pending), result |-> "failed", bytes |-> 0])
    BY <1>11 DEF OpFails
  <2>2. handlers' # <<>> /\ Head(handlers') = Head(handlers)
    BY <1>0, <2>1, HeadTail, NewHandler, AppendHead, ReadBounds
  <2> QED BY <1>0, <1>11, <2>2 DEF OpFails, readVars, Late, BufferLives
<1>12. CASE Arrive \/ Fail \/ Reset \/ UNCHANGED vars
  BY <1>0, <1>12 DEF Arrive, Fail, Reset, vars, readVars, asioVars, Late, BufferLives
<1> QED BY <1>1, <1>2, <1>3, <1>4, <1>5, <1>6, <1>7, <1>8, <1>9, <1>10, <1>11, <1>12
     DEF Next, Reader

\* As long as none is late the reads go from one stage to the next.
LEMMA InTimeStep ==
    ASSUME ReadType, LoopStart, InTime, Exact, [Next]_vars, ~disturbed'
    PROVE  Exact' /\ (InTime' \/ (Late' /\ (BufferLives' => readLen' = 0)))
<1>0. /\ pending \in Seq(Owner) /\ handlers \in Seq(Handler) /\ rdPc \in ReadPcs /\ i \in Nat
      /\ readLen \in 0 .. BufLen /\ BufLen \in Nat /\ taken \in Nat /\ parsed \in Seq(Nat)
      /\ Len(parsed) \in Nat /\ input \in [1 .. BufLen -> Nat]
  BY ReadBounds DEF ReadType
<1>1. CASE Begin
  <2>1. Between
    BY <1>1 DEF InTime, Begin, Outstanding, HandlerDue, Handled, BufferLives
  <2>2. rdPc' = "begun" /\ ~readComplete' /\ UNCHANGED <<junk, parsed, taken>>
    BY <1>1 DEF Begin, portVars
  <2>3. pending' = <<>>
    BY <1>0, <1>1, <2>1, BeginFacts, Empty DEF Between
  <2>4. CASE handlers' = <<>>
    BY <2>1, <2>2, <2>3, <2>4 DEF Between, InTime, Exact
  <2>5. CASE handlers' # <<>>
    <3>1. Head(handlers').owner # "current"
      BY <1>1, <2>5, BeginFacts, HeadTail
    <3> QED BY <2>2, <2>5, <3>1 DEF Late, Exact, BufferLives
  <2> QED BY <2>4, <2>5
<1>2. CASE Start
  <2>1. Between /\ handlers = <<>>
    BY <1>2 DEF InTime, Start, Between, Outstanding, HandlerDue, Handled, BufferLives
  <2>2. Len(pending') = 1 /\ pending'[1] = "current"
    BY <1>0, <1>2, <2>1, AppendHead DEF Start, Between, Owner
  <2>3. Outstanding'
    BY <1>2, <2>1, <2>2 DEF Outstanding, Start, Between, portVars
  <2> QED BY <1>2, <2>3 DEF InTime, Start, Exact
<1>3. CASE Check
  <2>1. /\ rdPc = "started" /\ rdPc' \in {"wait", "parse"} /\ i' = 0
        /\ ~readComplete => rdPc' = "wait"
        /\ UNCHANGED <<readComplete, readLen, input, pending, handlers, taken, parsed, junk>>
    BY <1>3 DEF Check, asioVars, portVars
  <2>2. Done = 0 /\ Done' = 0 /\ BufferLives'
    BY <2>1 DEF Done, BufferLives
  <2>3. \A n : Holds(n) => Holds(n)'
    BY <2>1, <2>2 DEF Holds
  <2>4. CASE Outstanding
    BY <2>1, <2>4 DEF Outstanding, InTime, Exact
  <2>5. CASE HandlerDue
    <3>1. HandlerDue'
      BY <2>1, <2>2, <2>5 DEF HandlerDue, Holds
    <3> QED BY <2>1, <3>1 DEF InTime, Exact
  <2>6. CASE Handled
    <3>1. Handled'
      BY <2>1, <2>2, <2>6 DEF Handled, Holds
    <3> QED BY <2>1, <3>1 DEF InTime, Exact
  <2> QED BY <2>1, <2>4, <2>5, <2>6 DEF InTime, Between
<1>4. CASE Wake
  <2>1. /\ rdPc = "wait" /\ rdPc' = "parse" /\ pending' = <<>> /\ i = 0 /\ i' = 0
        /\ handlers' = handlers \o Aborted(pending)
        /\ UNCHANGED <<readComplete, readLen, input, taken, parsed, junk>>
    BY <1>4 DEF Wake, LoopStart, portVars
  <2>2. Done = 0 /\ Done' = 0 /\ BufferLives'
    BY <2>1 DEF Done, BufferLives
  <2>3. Aborted(pending) \in Seq(Handler) /\ Len(Aborted(pending)) = Len(pending)
    BY <1>0, AbortedFacts
  <2>4. CASE Outstanding
    <3>1. handlers' = Aborted(pending)
      BY <1>0, <2>1, <2>3, <2>4, ConcatHead DEF Outstanding
    <3>2. Len(handlers') = 1 /\ 1 \in DOMAIN Aborted(pending)
      BY <2>3, <2>4, <3>1 DEF Outstanding
    <3>3. handlers'[1].owner = "current" /\ handlers'[1].result = "aborted"
      BY <1>0, <2>4, <3>1, <3>2, AbortedFacts DEF Outstanding
    <3>4. HandlerDue'
      BY <2>1, <2>2, <2>4, <3>2, <3>3 DEF HandlerDue, Outstanding
    <3> QED BY <2>1, <3>4 DEF InTime, Exact
  <2>5. CASE HandlerDue \/ Handled
    <3>1. handlers' = handlers
      <4>1. Aborted(pending) = <<>>
        BY <1>0, <2>3, <2>5, Empty DEF HandlerDue, Handled
      <4> QED BY <1>0, <2>1, <2>3, <4>1, ConcatHead
    <3>2. CASE HandlerDue
      <4>1. HandlerDue'
        BY <2>1, <2>2, <3>1, <3>2 DEF HandlerDue, Holds
      <4> QED BY <2>1, <4>1 DEF InTime, Exact
    <3>3. CASE Handled
      <4>1. Handled'
        BY <2>1, <2>2, <3>1, <3>3 DEF Handled, Holds
      <4> QED BY <2>1, <4>1 DEF InTime, Exact
    <3> QED BY <2>5, <3>2, <3>3
  <2> QED BY <2>1, <2>4, <2>5 DEF InTime, Between
<1>5. CASE CancelThrows
  BY <1>5 DEF CancelThrows
<1>6. CASE ParseByte
  <2>1. /\ rdPc = "parse" /\ i < readLen /\ i' = i + 1
        /\ UNCHANGED <<rdPc, readLen, input, pending, handlers, taken>>
    BY <1>6 DEF ParseByte, asioVars, portVars
  <2>2. Done = i /\ Done' = i + 1 /\ BufferLives /\ BufferLives'
    BY <2>1 DEF Done, BufferLives
  <2>3. Handled
    BY <1>0, <2>1 DEF InTime, Between, Outstanding, HandlerDue
  <2>4. input[i + 1] = Len(parsed) + 1
    BY <1>0, <2>1, <2>2, <2>3 DEF Handled, Holds
  <2>5. parsed' = Append(parsed, Len(parsed) + 1) /\ UNCHANGED junk
    BY <1>0, <1>6, <2>4 DEF ParseByte
  <2>6. Len(parsed') = Len(parsed) + 1
    BY <1>0, <2>5
  <2>7. Exact'
    BY <1>0, <2>5, AppendElems DEF Exact
  <2>8. Handled'
    <3>1. Done' <= readLen' /\ Len(parsed') + (readLen' - Done') = taken'
      <4>1. i <= readLen /\ Len(parsed) + (readLen - i) = taken
        BY <2>2, <2>3 DEF Handled, Holds
      <4>2. /\ i \in Nat /\ readLen \in Nat /\ Len(parsed) \in Nat /\ taken \in Nat /\ i < readLen
            /\ Done' = i + 1 /\ readLen' = readLen /\ taken' = taken /\ Len(parsed') = Len(parsed) + 1
        BY <1>0, <2>1, <2>2, <2>6
      <4> QED BY <4>1, <4>2
    <3>2. ASSUME NEW k \in 1 .. readLen, k > i + 1
          PROVE  input[k] = Len(parsed') + (k - (i + 1))
      <4>1. input[k] = Len(parsed) + (k - i)
        BY <1>0, <2>2, <2>3, <3>2 DEF Handled, Holds
      <4> QED BY <1>0, <2>6, <3>2, <4>1
    <3> QED BY <2>1, <2>2, <2>3, <3>1, <3>2 DEF Handled, Holds
  <2> QED BY <2>7, <2>8 DEF InTime
<1>7. CASE Return
  <2>1. /\ rdPc = "parse" /\ i >= readLen /\ rdPc' = "idle" /\ Done = i
        /\ UNCHANGED <<pending, handlers, taken, parsed, junk>>
    BY <1>7 DEF Return, Done, asioVars, portVars
  <2>2. Exact'
    BY <2>1 DEF Exact
  <2>3. CASE Handled
    <3>1. Len(parsed) = taken
      BY <1>0, <2>1, <2>3 DEF Handled, Holds
    <3> QED BY <2>1, <2>2, <2>3, <3>1 DEF Handled, Between, InTime
  <2>4. CASE HandlerDue
    <3>1. handlers # <<>> /\ Head(handlers) = handlers[1]
      BY <1>0, <2>4, OneHead DEF HandlerDue
    <3>2. CASE handlers[1].result = "ok"
      BY <2>1, <2>2, <3>1, <3>2 DEF Late, BufferLives
    <3>3. CASE handlers[1].result # "ok"
      BY <2>1, <2>2, <2>4, <3>3 DEF HandlerDue, Between, InTime
    <3> QED BY <3>2, <3>3
  <2> QED BY <2>1, <2>3, <2>4 DEF InTime, Between, Outstanding
<1>8. CASE HandleRead
  <2>1. /\ handlers # <<>> /\ handlers' = Tail(handlers)
        /\ UNCHANGED <<rdPc, input, i, pending, taken, parsed, junk>>
    BY <1>8 DEF HandleRead, portVars
  <2>2. Exact'
    BY <2>1 DEF Exact
  <2>3. Between \/ HandlerDue
    BY <2>1 DEF InTime, Outstanding, Handled
  <2>4. Len(handlers) = 1 /\ Head(handlers) = handlers[1] /\ handlers' \in Seq(Handler)
        /\ Len(handlers') = Len(handlers) - 1
    BY <1>0, <2>1, <2>3, HeadTail DEF Between, HandlerDue
  <2>5. handlers' = <<>>
    BY <2>4, Empty
  <2>6. CASE Between
    BY <2>1, <2>2, <2>5, <2>6 DEF Between, InTime
  <2>7. CASE HandlerDue
    <3>1. Complete(handlers[1])
      BY <1>8, <2>4, <2>7 DEF HandleRead, Reaches, HandlerDue
    <3>2. Done' = Done /\ Done = 0 /\ BufferLives'
      BY <2>1, <2>7 DEF Done, HandlerDue, BufferLives
    <3>3. CASE handlers[1].result = "ok"
      <4>1. readLen' = handlers[1].bytes /\ Holds(handlers[1].bytes)
        BY <2>7, <3>1, <3>3 DEF Complete, HandlerDue
      <4>2. Handled'
        BY <2>1, <2>5, <2>7, <3>2, <4>1 DEF Handled, Holds, HandlerDue
      <4> QED BY <2>2, <4>2 DEF InTime
    <3>4. CASE handlers[1].result # "ok"
      <4>1. readLen' = 0 /\ Len(parsed) = taken
        BY <2>7, <3>1, <3>4 DEF Complete, HandlerDue
      <4>2. Handled'
        BY <1>0, <2>1, <2>5, <2>7, <3>2, <4>1 DEF Handled, Holds, HandlerDue
      <4> QED BY <2>2, <4>2 DEF InTime
    <3> QED BY <3>3, <3>4
  <2> QED BY <2>3, <2>6, <2>7
<1>9. CASE OpCompletes
  <2>1. Outstanding
    BY <1>9 DEF OpCompletes, InTime, Between, HandlerDue, Handled
  <2>2. BufferLives /\ Head(pending) = "current" /\ Done = 0
    BY <1>0, <2>1, OneHead DEF Outstanding, BufferLives, Done
  <2>3. PICK n \in 1 .. BufLen :
          /\ taken' = taken + n /\ input' = Put(input, n)
          /\ handlers' = Append(handlers, [owner |-> "current", result |-> "ok", bytes |-> n])
    BY <1>9, <2>2, OpFacts
  <2>4. /\ UNCHANGED <<rdPc, readComplete, readLen, i, parsed, junk>>
        /\ pending' \in Seq(Owner) /\ Len(pending') = 0
    <3>1. pending # <<>> /\ pending' = Tail(pending) /\ Len(pending) = 1
      BY <1>9, <2>1 DEF OpCompletes, Outstanding
    <3> QED BY <1>0, <1>9, <3>1, HeadTail DEF OpCompletes
  <2>5. [owner |-> "current", result |-> "ok", bytes |-> n] \in Handler
    BY <1>0, NewHandler DEF Owner
  <2>6. Len(handlers') = 1 /\ handlers'[1] = [owner |-> "current", result |-> "ok", bytes |-> n]
    BY <1>0, <2>1, <2>3, <2>5, AppendHead DEF Outstanding
  <2>7. \A k \in 1 .. n : input'[k] = Len(parsed) + k
    BY <1>0, <2>1, <2>3 DEF Outstanding, Put
  <2>8. Done' = 0 /\ BufferLives' /\ pending' = <<>>
    BY <2>2, <2>4, Empty DEF Done, BufferLives
  <2>9. Holds(n)'
    <3>1. Done' <= n /\ Len(parsed') + (n - Done') = taken'
      <4>1. Len(parsed') = taken /\ taken \in Nat /\ n \in Nat /\ Done' = 0 /\ taken' = taken + n
        BY <1>0, <2>1, <2>3, <2>4, <2>8 DEF Outstanding
      <4> QED BY <4>1
    <3>2. \A k \in 1 .. n : input'[k] = Len(parsed') + (k - Done')
      BY <1>0, <2>4, <2>7, <2>8
    <3> QED BY <3>1, <3>2 DEF Holds
  <2>10. HandlerDue'
    BY <2>1, <2>4, <2>6, <2>8, <2>9 DEF Outstanding, HandlerDue
  <2> QED BY <2>4, <2>10 DEF InTime, Exact
<1>10. CASE OpFails
  <2>1. Outstanding
    BY <1>10 DEF OpFails, InTime, Between, HandlerDue, Handled
  <2>2. pending # <<>> /\ Head(pending) = "current"
    BY <1>0, <2>1, OneHead DEF Outstanding
  <2>3. /\ handlers' = Append(handlers, [owner |-> "current", result |-> "failed", bytes |-> 0])
        /\ pending' = Tail(pending)
        /\ UNCHANGED <<rdPc, readComplete, readLen, i, taken, parsed, junk>>
    BY <1>10, <2>2 DEF OpFails, readVars, portVars
  <2>4. pending' \in Seq(Owner) /\ Len(pending') = 0
    BY <1>0, <2>1, <2>2, <2>3, HeadTail DEF Outstanding
  <2>5. [owner |-> "current", result |-> "failed", bytes |-> 0] \in Handler
    BY <1>0, NewHandler DEF Owner
  <2>6. Len(handlers') = 1 /\ handlers'[1] = [owner |-> "current", result |-> "failed", bytes |-> 0]
    BY <1>0, <2>1, <2>3, <2>5, AppendHead DEF Outstanding
  <2>7. Done' = 0 /\ BufferLives' /\ pending' = <<>>
    BY <2>1, <2>3, <2>4, Empty DEF Outstanding, Done, BufferLives
  <2>8. HandlerDue'
    BY <2>1, <2>3, <2>6, <2>7 DEF Outstanding, HandlerDue
  <2> QED BY <2>3, <2>8 DEF InTime, Exact
<1>11. CASE Restart
  <2>1. Between
    BY <1>11 DEF InTime, Restart, Outstanding, HandlerDue, Handled, BufferLives
  <2>2. /\ rdPc' = "idle" /\ pending' = <<>> /\ UNCHANGED <<junk, parsed, taken>>
    BY <1>11 DEF Restart
  <2>3. CASE handlers' = <<>>
    BY <2>1, <2>2, <2>3 DEF Between, InTime, Exact
  <2>4. CASE handlers' # <<>>
    BY <1>11, <2>2, <2>4, RestartFacts DEF Late, Exact, BufferLives
  <2> QED BY <2>3, <2>4
<1>12. CASE Arrive \/ Fail \/ Reset \/ UNCHANGED vars
  <2>1. UNCHANGED <<readVars, pending, handlers, taken, parsed, junk>>
    BY <1>12 DEF Arrive, Fail, Reset, vars, asioVars, portVars
  <2>2. InTime'
    BY <2>1 DEF readVars, InTime, Between, Outstanding, HandlerDue, Handled, Holds, Done, BufferLives
  <2> QED BY <2>1, <2>2 DEF Exact
<1> QED BY <1>1, <1>2, <1>3, <1>4, <1>5, <1>6, <1>7, <1>8, <1>9, <1>10, <1>11, <1>12
     DEF Next, Reader

\* Timeouts, cancelled reads, resets and failures alone lose, repeat or invent no
\* byte, with buffers of every length.
THEOREM UndisturbedIsClean == Spec => []CleanRead
<1>1. Init => CleanInv
  BY DEF Init, CleanInv, Exact, InTime, Between
<1>2. ReadInv /\ CleanInv /\ [Next]_vars => CleanInv'
  <2> SUFFICES ASSUME ReadInv, CleanInv, [Next]_vars, ~disturbed'
               PROVE  Exact' /\ (InTime' \/ (Late' /\ (BufferLives' => readLen' = 0)))
    BY DEF CleanInv
  <2>1. ~disturbed
    BY DEF Next, Reader, Begin, Start, Check, Wake, CancelThrows, ParseByte, Return, HandleRead,
           Arrive, Fail, OpCompletes, OpFails, Reset, Restart, vars
  <2>2. CASE InTime
    BY <2>1, <2>2, InTimeStep DEF ReadInv, CleanInv
  <2>3. CASE Late /\ (BufferLives => readLen = 0)
    BY <2>1, <2>3, LateStep DEF ReadInv, CleanInv, Exact
  <2> QED BY <2>1, <2>2, <2>3 DEF CleanInv
<1>3. ReadInv /\ CleanInv => CleanRead
  <2> SUFFICES ASSUME ReadInv, CleanInv, ~disturbed PROVE CleanRead
    BY DEF CleanRead
  <2>1. rdPc = "idle" /\ handlers = <<>> => Len(parsed) = taken
    BY DEF CleanInv, Late, InTime, Between, Outstanding, HandlerDue, Handled, BufferLives
  <2> QED BY <2>1 DEF CleanInv, Exact, CleanRead
<1> QED BY InitRead, NextRead, <1>1, <1>2, <1>3, PTL DEF Spec

=============================================================================
