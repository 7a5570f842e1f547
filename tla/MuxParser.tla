------------------------------ MODULE MuxParser ------------------------------
(***************************************************************************)
(* The stream protocol between clients and the mux: CMuxMessage::serialize *)
(* and CMuxOutput::serialize on one side, CMuxParser on the other.  TCP    *)
(* delivers the bytes in order but cuts them into reads as it pleases.     *)
(***************************************************************************)
EXTENDS Naturals, Sequences, SequencesExt

CONSTANTS
    Messages,     \* messages a client sends: [id, type, data]
    Junk,         \* byte sequences that may come before and between messages
    MaxItems,     \* bound: messages and junk in a stream
    MaxChunk,     \* bound: bytes in one read (m_input: 256)
    COMMAND_SIZE  \* zero bytes the parser starts with (128)

Bytes == 0 .. 255     \* uint8_t
Words == 0 .. 65535   \* uint16_t

ASSUME StreamAssumption ==
    /\ \A m \in Messages : /\ m \in [id : Words, type : Bytes, data : Seq(Bytes)]
                           /\ Len(m.data) + 3 \in Words
    /\ Junk \subseteq Seq(Bytes)

ASSUME BoundAssumption ==
    /\ MaxItems \in Nat /\ COMMAND_SIZE \in Nat
    /\ MaxChunk \in Nat \ {0}

MAGIC_TOKEN == <<167, 64, 160, 245>>   \* a7 40 a0 f5

High(n) == (n \div 256) % 256
Low(n)  == n % 256

\* serialize: token, length, id, type, payload
serialize(m) ==
    LET body == <<High(m.id), Low(m.id), m.type>> \o m.data
    IN MAGIC_TOKEN \o <<High(Len(body)), Low(Len(body))>> \o body

\* CMuxMessage(data): fewer than three bytes make a message of type 0.
ToMessage(data) ==
    IF Len(data) >= 3
    THEN [id |-> data[1] * 256 + data[2], type |-> data[3],
          data |-> SubSeq(data, 4, Len(data))]
    ELSE [id |-> 0, type |-> 0, data |-> <<>>]

-----------------------------------------------------------------------------
(* CMuxParser *)

Occurs(t, s, i) == /\ i + Len(t) - 1 <= Len(s)
                   /\ SubSeq(s, i, i + Len(t) - 1) = t

\* std::search: the first occurrence of the token, 0 if there is none.
Search(s) ==
    LET at == {i \in 1 .. Len(s) : Occurs(MAGIC_TOKEN, s, i)}
    IN IF at = {} THEN 0 ELSE CHOOSE i \in at : \A j \in at : i <= j

DiscardMore(s) == IF Len(s) > 2 THEN SubSeq(s, Len(s) - 1, Len(s)) ELSE s

\* Without a token all but the last three bytes go: a token may have begun.
Discard(s) == IF Len(s) > 3 THEN SubSeq(s, Len(s) - 2, Len(s)) ELSE s

BodyFrom(s) == Search(s) + Len(MAGIC_TOKEN) + 2
HasLength(s) == Search(s) # 0 /\ BodyFrom(s) - 1 <= Len(s)
BodyTo(s) == BodyFrom(s) - 1 + s[BodyFrom(s) - 2] * 256 + s[BodyFrom(s) - 1]

WholeTooLate(s) == HasLength(s) /\ BodyTo(s) < Len(s)

\* The whole command is there.
Whole(s) == HasLength(s) /\ BodyTo(s) <= Len(s)

\* One parse(): the command found, if any, and the input that is left.
parse(s) ==
    CASE Whole(s)      -> [found |-> TRUE, data |-> SubSeq(s, BodyFrom(s), BodyTo(s)),
                           rest |-> SubSeq(s, BodyTo(s) + 1, Len(s))]
      [] Search(s) = 0 -> [found |-> FALSE, data |-> <<>>, rest |-> Discard(s)]
      [] OTHER         -> [found |-> FALSE, data |-> <<>>, rest |-> s]

\* read(): parse until no more commands are found.
ParseAll[s \in Seq(Bytes)] ==
    LET p == parse(s)
    IN IF p.found
       THEN [messages |-> <<ToMessage(p.data)>> \o ParseAll[p.rest].messages,
             rest     |-> ParseAll[p.rest].rest]
       ELSE [messages |-> <<>>, rest |-> p.rest]

-----------------------------------------------------------------------------
VARIABLES
    stream,        \* what the client sends: messages and junk
    pos,           \* bytes read so far
    partialInput,  \* m_partialInput
    got            \* messages handed to handleCommand

vars == <<stream, pos, partialInput, got>>

ItemBytes(it) == IF it.junk THEN it.bytes ELSE serialize(it.message)
StreamBytes == FlattenSeq([i \in DOMAIN stream |-> ItemBytes(stream[i])])

Items == [junk : {TRUE}, bytes : Junk] \cup [junk : {FALSE}, message : Messages]

Init ==
    /\ stream \in UNION {[1 .. n -> Items] : n \in 1 .. MaxItems}
    /\ pos = 0 /\ got = <<>>
    /\ partialInput = [i \in 1 .. COMMAND_SIZE |-> 0]

\* CMuxParser::read of the next n bytes.
Read(n) ==
    /\ pos + n <= Len(StreamBytes)
    /\ pos' = pos + n
    /\ LET r == ParseAll[partialInput \o SubSeq(StreamBytes, pos + 1, pos + n)] IN
       /\ partialInput' = r.rest
       /\ got' = got \o r.messages
    /\ UNCHANGED stream

Done == pos = Len(StreamBytes) /\ UNCHANGED vars

Next == (\E n \in 1 .. MaxChunk : Read(n)) \/ Done

Spec == Init /\ [][Next]_vars

-----------------------------------------------------------------------------
(* Properties *)

\* Reference: the messages of a byte sequence that is all there, found from left to
\* right, nothing ever discarded.
Decode[s \in Seq(Bytes)] ==
    LET at == {i \in 1 .. Len(s) : Occurs(MAGIC_TOKEN, s, i)} IN
    IF at = {} THEN <<>>
    ELSE LET i == CHOOSE i \in at : \A j \in at : i <= j
             n == s[i + 4] * 256 + s[i + 5]
         IN IF i + 5 > Len(s) THEN <<>>
            ELSE IF i + 5 + n > Len(s) THEN <<>>
            ELSE <<ToMessage(SubSeq(s, i + 6, i + 5 + n))>>
                   \o Decode[SubSeq(s, i + 6 + n, Len(s))]

\* How the stream is cut into reads makes no difference, junk with tokens and wrong
\* lengths included: what was handed on is what the bytes so far contain.
ChunkFree == got = Decode[SubSeq(StreamBytes, 1, pos)]

\* The junk of the stream, each message replaced by a byte.
JunkBytes == FlattenSeq([i \in DOMAIN stream |->
                 IF stream[i].junk THEN stream[i].bytes ELSE <<0>>])
SentMessages == FlattenSeq([i \in DOMAIN stream |->
                    IF stream[i].junk THEN <<>> ELSE <<stream[i].message>>])

\* Junk that holds no token costs no message, whatever part of a token it ends with,
\* and the parser gives back what serialize was given, tokens in payloads included.
RoundTrip ==
    Search(JunkBytes) = 0 =>
        /\ IsPrefix(got, SentMessages)
        /\ pos = Len(StreamBytes) => got = SentMessages
=============================================================================
