----------------------------- MODULE SerialRead -----------------------------
(***************************************************************************)
(* The timed read of the serial port: CPicardBoost_Serial::read_async in   *)
(* the Picard thread, its completion handler handleRead in the io thread,  *)
(* and the end of an epoch, which deletes the object while handlers bound  *)
(* to it may still be queued on the global io_service.                     *)
(*                                                                         *)
(* External: the serial port (bytes arrive in order, the device may fail)  *)
(* and asio, which gives the bytes to the oldest outstanding operation,    *)
(* lets cancel() end all of them, and runs completion handlers in order.   *)
(***************************************************************************)
EXTENDS Naturals, Sequences

CONSTANTS
    BufLen,    \* INPUT_BUFFER_LEN
    MaxBytes,  \* bound: bytes the Manager sends
    MaxOps     \* bound: read operations and handlers asio holds when a read starts

ASSUME ReadBounds == BufLen \in Nat \ {0} /\ MaxBytes \in Nat /\ MaxOps \in Nat \ {0}

VARIABLES
    rdPc,         \* where read_async is
    readComplete, \* m_readComplete
    readLen,      \* m_readLen
    notified,     \* m_readSem was notified since the wait began
    input,        \* local input; 0 is a byte the port did not write
    i,            \* the loop over input
    pending,      \* outstanding operations: whose read they belong to
    handlers,     \* completion handlers queued on io_service
    arrived,      \* bytes 1 .. arrived have come in ...
    taken,        \* ... and bytes 1 .. taken were read from the port
    failed,       \* the device is gone
    running,      \* m_isRunning; io_service runs
    parsed,       \* bytes given to addByte
    junk,         \* history: a byte that never came in was given to addByte
    disturbed     \* history: a handler ran when its read was over, or cancel threw

readVars == <<rdPc, readComplete, readLen, notified, input, i>>
asioVars == <<pending, handlers>>
portVars == <<arrived, taken, failed>>
vars == <<readVars, asioVars, portVars, running, parsed, junk, disturbed>>

\* An operation belongs to the latest read of the object, to an earlier one, or
\* to an object that was deleted.
Owner   == {"current", "earlier", "deleted"}
Handler == [owner : Owner, result : {"ok", "aborted", "failed"}, bytes : 0 .. BufLen]

Blank == [k \in 1 .. BufLen |-> 0]

\* What becomes of the operations and handlers of the latest read.
Age(o)  == IF o = "current" THEN "earlier" ELSE o
Aborted(os) == [k \in DOMAIN os |-> [owner |-> os[k], result |-> "aborted", bytes |-> 0]]

BufferLives == rdPc \in {"started", "wait", "parse"}

Init ==
    /\ rdPc = "idle" /\ readComplete = FALSE /\ readLen = 0 /\ notified = FALSE
    /\ input = Blank /\ i = 0
    /\ pending = <<>> /\ handlers = <<>>
    /\ arrived = 0 /\ taken = 0 /\ failed = FALSE
    /\ running = TRUE
    /\ parsed = <<>> /\ junk = FALSE /\ disturbed = FALSE

-----------------------------------------------------------------------------
(* The Picard thread *)

\* threadMain calls read; m_readComplete is cleared without the lock.
Begin ==
    /\ rdPc = "idle" /\ running
    /\ Len(pending) + Len(handlers) < MaxOps
    /\ readComplete' = FALSE
    /\ pending' = [k \in DOMAIN pending |-> Age(pending[k])]
    /\ handlers' = [k \in DOMAIN handlers |->
                        [handlers[k] EXCEPT !.owner = Age(@)]]
    /\ rdPc' = "begun"
    /\ UNCHANGED <<readLen, notified, input, i, portVars, running, parsed, junk, disturbed>>

StartKeepLen ==
    /\ rdPc = "begun"
    /\ input' = Blank
    /\ pending' = Append(pending, "current")
    /\ rdPc' = "started"
    /\ UNCHANGED <<readComplete, readLen, notified, i, handlers, portVars, running,
                   parsed, junk, disturbed>>

StartKeepBuffer ==
    /\ rdPc = "begun"
    /\ pending' = Append(pending, "current")
    /\ rdPc' = "started"
    /\ UNCHANGED <<readComplete, readLen, notified, input, i, handlers, portVars,
                   running, parsed, junk, disturbed>>

\* A new buffer, m_readLen cleared without the lock, and the read is started.
Start ==
    /\ rdPc = "begun"
    /\ input' = Blank
    /\ readLen' = 0
    /\ pending' = Append(pending, "current")
    /\ rdPc' = "started"
    /\ UNCHANGED <<readComplete, notified, i, handlers, portVars, running, parsed,
                   junk, disturbed>>

\* Under m_readLock: wait, or do not if a handler has been here already.  In the
\* second case no cancel follows.
Check ==
    /\ rdPc = "started"
    /\ i' = 0
    /\ IF readComplete
       THEN rdPc' = "parse" /\ UNCHANGED notified
       ELSE rdPc' = "wait" /\ notified' = FALSE
    /\ UNCHANGED <<readComplete, readLen, input, asioVars, portVars, running, parsed,
                   junk, disturbed>>

WakeNotified ==
    /\ rdPc = "wait" /\ notified
    /\ handlers' = handlers \o Aborted(pending)
    /\ pending' = <<>>
    /\ rdPc' = "parse"
    /\ UNCHANGED <<readComplete, readLen, notified, input, i, portVars, running, parsed,
                   junk, disturbed>>

\* timed_wait returns, notified or not, and cancel ends every outstanding read.
Wake ==
    /\ rdPc = "wait"
    /\ handlers' = handlers \o Aborted(pending)
    /\ pending' = <<>>
    /\ rdPc' = "parse"
    /\ UNCHANGED <<readComplete, readLen, notified, input, i, portVars, running, parsed,
                   junk, disturbed>>

\* cancel may throw once the device is gone: resetConnection.
CancelThrows ==
    /\ rdPc = "wait" /\ failed
    /\ rdPc' = "idle"
    /\ running' = FALSE
    /\ disturbed' = TRUE
    /\ UNCHANGED <<readComplete, readLen, notified, input, i, asioVars, portVars, parsed,
                   junk>>

\* One turn of the loop, which reads m_readLen again, without the lock.
ParseByte ==
    /\ rdPc = "parse" /\ i < readLen
    /\ i' = i + 1
    /\ IF input[i + 1] = 0
       THEN junk' = TRUE /\ UNCHANGED parsed
       ELSE parsed' = Append(parsed, input[i + 1]) /\ UNCHANGED junk
    /\ UNCHANGED <<rdPc, readComplete, readLen, notified, input, asioVars, portVars,
                   running, disturbed>>

Return ==
    /\ rdPc = "parse" /\ i >= readLen
    /\ rdPc' = "idle"
    /\ UNCHANGED <<readComplete, readLen, notified, input, i, asioVars, portVars, running,
                   parsed, junk, disturbed>>

-----------------------------------------------------------------------------
(* The io thread *)

\* Whether the body of the handler reaches the object of this epoch: a handler of
\* a deleted object writes to memory that may or may not hold the new object.
Reaches(h) == IF h.owner = "deleted" THEN BOOLEAN ELSE {TRUE}

CompleteQuiet(h) ==
    /\ readComplete' = TRUE
    /\ readLen' = IF h.result = "ok" THEN h.bytes ELSE readLen
    /\ notified' = (notified \/ h.result = "ok")

\* handleRead under m_readLock.  Only a cancelled read does not notify.
Complete(h) ==
    /\ readComplete' = TRUE
    /\ readLen' = IF h.result = "ok" THEN h.bytes ELSE readLen
    /\ notified' = (notified \/ h.result # "aborted")

HandleRead ==
    /\ running /\ handlers # <<>>
    /\ LET h == Head(handlers) IN
       /\ disturbed' = \/ disturbed
                       \/ h.owner # "current"
                       \/ h.result = "ok" /\ rdPc = "idle"
       /\ \E reaches \in Reaches(h) :
              IF reaches THEN Complete(h)
                         ELSE UNCHANGED <<readComplete, readLen, notified>>
    /\ handlers' = Tail(handlers)
    /\ UNCHANGED <<rdPc, input, i, pending, portVars, running, parsed, junk>>

-----------------------------------------------------------------------------
(* The port and asio *)

Arrive ==
    /\ ~failed /\ arrived < MaxBytes
    /\ arrived' = arrived + 1
    /\ UNCHANGED <<readVars, asioVars, taken, failed, running, parsed, junk, disturbed>>

Fail ==
    /\ ~failed
    /\ failed' = TRUE
    /\ UNCHANGED <<readVars, asioVars, arrived, taken, running, parsed, junk, disturbed>>

Least(a, b) == IF a < b THEN a ELSE b
Put(buf, n) == [k \in 1 .. BufLen |-> IF k <= n THEN taken + k ELSE buf[k]]

\* The oldest operation gets what has arrived.  The buffer of a read that is over
\* has been freed, and may be the one the present read allocated.
OpCompletes ==
    /\ ~failed /\ pending # <<>> /\ taken < arrived
    /\ LET n == Least(arrived - taken, BufLen) IN
       /\ taken' = taken + n
       /\ handlers' = Append(handlers, [owner |-> Head(pending), result |-> "ok", bytes |-> n])
       /\ input' \in IF ~BufferLives THEN {input}
                     ELSE IF Head(pending) = "current" THEN {Put(input, n)}
                     ELSE {input, Put(input, n)}
    /\ pending' = Tail(pending)
    /\ UNCHANGED <<rdPc, readComplete, readLen, notified, i, arrived, failed, running,
                   parsed, junk, disturbed>>

OpFails ==
    /\ failed /\ pending # <<>>
    /\ handlers' = Append(handlers, [owner |-> Head(pending), result |-> "failed", bytes |-> 0])
    /\ pending' = Tail(pending)
    /\ UNCHANGED <<readVars, portVars, running, parsed, junk, disturbed>>

-----------------------------------------------------------------------------
(* The end of an epoch *)

\* resetConnection, called by another thread: stop and io_service.stop.
Reset ==
    /\ running
    /\ running' = FALSE
    /\ UNCHANGED <<readVars, asioVars, portVars, parsed, junk, disturbed>>

\* The Picard thread is joined, the object is deleted (its destructor cancels) and
\* a new one opens the port; handlers stay queued on io_service.
Restart ==
    /\ ~running /\ rdPc = "idle"
    /\ handlers' = [k \in DOMAIN handlers |-> [handlers[k] EXCEPT !.owner = "deleted"]]
                   \o Aborted([k \in DOMAIN pending |-> "deleted"])
    /\ pending' = <<>>
    /\ readComplete' = FALSE /\ readLen' \in 0 .. BufLen \* m_readLen is not initialised
    /\ notified' = FALSE
    /\ failed' = FALSE
    /\ running' = TRUE
    /\ UNCHANGED <<rdPc, input, i, arrived, taken, parsed, junk, disturbed>>

Reader == Begin \/ Start \/ Check \/ Wake \/ CancelThrows \/ ParseByte \/ Return

Next == Reader \/ HandleRead \/ Arrive \/ Fail \/ OpCompletes \/ OpFails \/ Reset \/ Restart

Spec == Init /\ [][Next]_vars

\* The Picard thread is scheduled and a timed wait ends; nothing is assumed of the
\* port, of asio or of the io thread.
FairSpec == Spec /\ WF_vars(Reader)

-----------------------------------------------------------------------------
(* Properties *)

\* As long as every handler runs before its read is over and no cancel throws, the
\* HDLC parser gets exactly the bytes that came in, in order, and between two reads
\* none is missing: timeouts and cancelled reads alone lose nothing.
CleanRead ==
    ~disturbed =>
        /\ ~junk
        /\ \A k \in DOMAIN parsed : parsed[k] = k
        /\ rdPc = "idle" /\ handlers = <<>> => Len(parsed) = taken

\* Whatever handlers run late, a byte of the Manager is parsed at most once: the
\* buffer of one read and the length of another never add up to a repeat.
NoByteTwice ==
    \A j, k \in DOMAIN parsed : j # k => parsed[j] # parsed[k]

\* A read that completes or fails while the Picard thread waits ends the wait at
\* once: no notification falls between the check of m_readComplete and the wait.
CompletionWakes ==
    ~disturbed /\ rdPc = "wait" /\ readComplete => notified

\* Every read returns, whatever the port and the io thread do, so that the Picard
\* thread sees m_isRunning again and can be joined.
ReadReturns == (rdPc # "idle") ~> (rdPc = "idle")

-----------------------------------------------------------------------------
(* Statements of the repository that the code does not keep *)

\* "the timeout should cancel the async read so we don't have multiple outstanding
\* reads" (PicardBoost.cpp:158).
OneOutstanding == Len(pending) <= 1

\* "when the port is closed, we reset and hope it re-opens soon"
\* (PicardBoost.cpp:184).
GonePortResets == failed ~> ~running
=============================================================================
