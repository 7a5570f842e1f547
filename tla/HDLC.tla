--------------------------------- MODULE HDLC ---------------------------------
(***************************************************************************)
(* HDLC framing of the serial line: encodeHDLC on the sending side, the    *)
(* byte-by-byte parser CHDLC on the receiving side, and a line between them *)
(* that may damage a byte.                                                 *)
(***************************************************************************)
EXTENDS Naturals, Sequences, SequencesExt, Bitwise

CONSTANTS
    Payloads,    \* frames to send, sequences of bytes
    Noise,       \* bytes a fault puts on the line
    MaxFrames,   \* bound: frames sent
    MaxFaults    \* bound: damaged bytes

Bytes == 0 .. 255

ASSUME PayloadAssumption ==
    /\ Noise \subseteq Bytes
    /\ \A p \in Payloads : p # <<>> /\ ToSet(p) \subseteq Bytes

ASSUME BoundAssumption == MaxFrames \in Nat /\ MaxFaults \in Nat

HDLC_PADDING == 126   \* 0x7E
HDLC_ESCCHAR == 125   \* 0x7D
HDLC_XORBYTE == 32    \* 0x20

-----------------------------------------------------------------------------
(* The frame check sequence *)

\* One bit of the reflected polynomial 0x8408.
FcsShift(v) == IF v % 2 = 1 THEN (v \div 2) ^^ 33800 ELSE v \div 2

\* _fcstab: the table of 256 constants is this function.
fcstab == [b \in Bytes |->
    FcsShift(FcsShift(FcsShift(FcsShift(FcsShift(FcsShift(FcsShift(FcsShift(b))))))))]

initFcs16 == 65535

addOneByteToFcs16(fcs, b) == (fcs \div 256) ^^ fcstab[(fcs ^^ b) % 256]

closeFcs16(fcs) == fcs ^^ 65535

computeFCS16(data) == closeFcs16(FoldLeft(addOneByteToFcs16, initFcs16, data))

-----------------------------------------------------------------------------
(* encodeHDLC *)

EscapePaddingOnly(b) == IF b = HDLC_PADDING THEN <<HDLC_ESCCHAR, b ^^ HDLC_XORBYTE>> ELSE <<b>>

\* appendHDLC, one byte
Escape(b) == IF b \in {HDLC_PADDING, HDLC_ESCCHAR}
             THEN <<HDLC_ESCCHAR, b ^^ HDLC_XORBYTE>> ELSE <<b>>

encodeHDLC(src) ==
    LET fcs  == computeFCS16(src)
        body == src \o <<fcs % 256, fcs \div 256>>
    IN <<HDLC_PADDING>> \o FlattenSeq([i \in DOMAIN body |-> Escape(body[i])])
         \o <<HDLC_PADDING>>

-----------------------------------------------------------------------------
VARIABLES
    state,       \* m_state
    buffer,      \* m_buffer
    runningFCS,  \* m_runningFCS
    wire,        \* bytes of the current frame not yet received
    sent,        \* frames sent
    got,         \* frames handed to frameComplete
    faults,      \* damaged bytes so far
    hit,         \* the frames they were in (0: between frames)
    mild         \* history: each changed one byte within a frame, and one per frame

parser == <<state, buffer, runningFCS>>
vars == <<parser, wire, sent, got, faults, hit, mild>>

AcceptAny(fcs) == TRUE

\* validateChecksum: the FCS over data and checksum has a fixed residue.
ValidateChecksum(fcs) == closeFcs16(fcs) = 3911   \* 0xf47

KeepBuffer == state' = "PACKET_COMPLETE" /\ UNCHANGED <<buffer, runningFCS>>

\* reset()
Reset == state' = "PACKET_COMPLETE" /\ buffer' = <<>> /\ runningFCS' = initFcs16

\* append(byte)
AppendByte(b) == /\ buffer' = Append(buffer, b)
                 /\ runningFCS' = addOneByteToFcs16(runningFCS, b)

\* addByte
AddByte(b) ==
    \/ /\ state = "HDLC_ESCAPE"
       /\ AppendByte(b ^^ HDLC_XORBYTE)
       /\ state' = "HDLC_DATA"
       /\ UNCHANGED got
    \/ /\ state # "HDLC_ESCAPE" /\ b = HDLC_ESCCHAR
       /\ state' = "HDLC_ESCAPE"
       /\ UNCHANGED <<buffer, runningFCS, got>>
    \/ /\ state # "HDLC_ESCAPE" /\ b = HDLC_PADDING
       /\ got' = IF Len(buffer) > 2 /\ ValidateChecksum(runningFCS)
                 THEN Append(got, SubSeq(buffer, 1, Len(buffer) - 2)) ELSE got
       /\ Reset
    \/ /\ state # "HDLC_ESCAPE" /\ b \notin {HDLC_ESCCHAR, HDLC_PADDING}
       /\ AppendByte(b)
       /\ UNCHANGED <<state, got>>

\* sendRaw of the other end: the next frame goes onto the line.
SendFrame(p) ==
    /\ wire = <<>> /\ Len(sent) < MaxFrames
    /\ sent' = Append(sent, p)
    /\ wire' = encodeHDLC(p)
    /\ UNCHANGED <<parser, got, faults, hit, mild>>

Receive ==
    /\ wire # <<>>
    /\ AddByte(Head(wire))
    /\ wire' = Tail(wire)
    /\ UNCHANGED <<sent, faults, hit, mild>>

Fault ==
    /\ faults < MaxFaults
    /\ faults' = faults + 1
    /\ hit' = hit \cup {Len(sent)}
    /\ UNCHANGED sent

\* One byte of a frame becomes another, and neither is a flag or an escape.
IsMild(b) == Len(sent) \notin hit /\ {b, Head(wire)} \cap {HDLC_PADDING, HDLC_ESCCHAR} = {}

\* External: a byte arrives wrong, does not arrive, or arrives out of nowhere.
Corrupt(b) == /\ Fault /\ wire # <<>> /\ AddByte(b) /\ wire' = Tail(wire)
              /\ mild' = (mild /\ IsMild(b))
Drop       == /\ Fault /\ wire # <<>> /\ wire' = Tail(wire) /\ UNCHANGED <<parser, got>>
              /\ mild' = FALSE
Insert(b)  == Fault /\ AddByte(b) /\ UNCHANGED wire /\ mild' = FALSE

Init ==
    /\ state = "PACKET_COMPLETE" /\ buffer = <<>> /\ runningFCS = initFcs16
    /\ wire = <<>> /\ sent = <<>> /\ got = <<>> /\ faults = 0 /\ hit = {}
    /\ mild = TRUE

Done == wire = <<>> /\ Len(sent) = MaxFrames /\ UNCHANGED vars

Next == \/ \E p \in Payloads : SendFrame(p)
        \/ Receive \/ Drop
        \/ \E b \in Noise : Corrupt(b) \/ Insert(b)
        \/ Done

Spec == Init /\ [][Next]_vars

-----------------------------------------------------------------------------
(* Properties *)

\* On a clean line the parser returns what encodeHDLC was given, frame by frame and
\* nothing else, whichever bytes of payload and checksum have to be escaped.
CleanDelivery ==
    faults = 0 => got = IF wire = <<>> THEN sent ELSE Front(sent)

\* A byte that arrives as another one costs its frame and nothing else: what is
\* delivered is what was sent with some frames missing, nothing that was not sent and
\* nothing twice or out of order, also where the byte was half of an escape.  Of
\* other damage a checksum of 16 bits promises no such thing: bytes lost, inserted or
\* changed into flags can leave what happens to be a frame.
NoBogusFrame ==
    mild => \E I \in SUBSET DOMAIN sent :
        got = [k \in 1 .. Cardinality(I) |-> sent[SetToSortSeq(I, <)[k]]]

\* Damage costs the frame it hits and at most the next one: the parser is in step
\* again after that, also when an escape swallowed the flag that ends a frame.
Resync ==
    wire = <<>> =>
        LET spared == {k \in DOMAIN sent : k \notin hit /\ k - 1 \notin hit}
        IN \A k \in spared :
              Cardinality({i \in DOMAIN got : got[i] = sent[k]})
                >= Cardinality({j \in spared : sent[j] = sent[k]})

\* "PACKET_COMPLETE (any) -> HDLC_DATA, append" (HDLC.cpp:128): the parser leaves
\* PACKET_COMPLETE with the first byte of a packet.
DataState == buffer # <<>> => state # "PACKET_COMPLETE"
=============================================================================
