-------------------------- MODULE FramedTransport --------------------------
(***************************************************************************)
(* send_message and receive_message of tcp.rs on the two ends of one       *)
(* stream: a message is serialized and sent as a frame, the length of the  *)
(* payload in LenWidth units and then the payload; the receiver takes a    *)
(* frame off the stream and deserializes its payload.                      *)
(*                                                                         *)
(* The stream is the sequence of units written and not yet read.  A        *)
(* transmission can fail with any part of the frame written.  The sender   *)
(* that gives up the stream then (SenderRetries = FALSE) is the one of     *)
(* whom the transport keeps its promise.                                   *)
(***************************************************************************)
EXTENDS NitroRootEnclaveMessage

CONSTANTS
    Msg,            \* the values a sender may call send_message with
    Foreign,        \* a value of a type the receiver does not expect
    SenderRetries,  \* TRUE: the sender goes on after a failed transmission
    MaxSends,       \* bound: the messages sent
    MaxWire,        \* bound: the units in the stream
    LenWidth,       \* bound: the units of a length, where the wire has 8 bytes
    NoError

VARIABLES
    wire,       \* the stream: units written and not yet read
    eof,        \* the sender's end is closed
    last,       \* what the last call returned: the operation and its error
    sent,       \* history: the values send_message returned Ok for
    received    \* history: the messages receive_message returned

vars == <<wire, eof, last, sent, received>>

\* serialize(): a value of the receiver's type as the codec encodes it, a
\* value of another type as bytes that are no message, no bytes for a value
\* that cannot be serialized.
Serialize(m) ==
    CASE m \in Messages -> Encode(m)
      [] m = Foreign    -> <<Len(Variants)>>
      [] OTHER          -> Malformed

\* An unsigned number as LenWidth bytes, the lowest first, and back.
LittleEndian(n) == [i \in 1..LenWidth |-> (n \div 256^(i - 1)) % 256]
RECURSIVE FromLittleEndian(_)
FromLittleEndian(units) ==
    IF units = <<>> THEN 0 ELSE Head(units) + 256 * FromLittleEndian(Tail(units))

\* send_buffer: "length-prefixed (unsigned 64-bit, little-endian) followed
\* by the payload".
Frame(payload) == LittleEndian(Len(payload)) \o payload

\* receive_buffer: the length the stream declares for its first frame;
\* whether the stream holds the whole of that frame; its payload; the
\* stream behind it.
Declared(s) == FromLittleEndian(SubSeq(s, 1, LenWidth))
CompleteAndMore(s) == Len(s) >= LenWidth /\ Len(s) > LenWidth + Declared(s)
Complete(s) == Len(s) >= LenWidth /\ Len(s) >= LenWidth + Declared(s)
Payload(s) == SubSeq(s, LenWidth + 1, LenWidth + Declared(s))
Rest(s) == SubSeq(s, LenWidth + Declared(s) + 1, Len(s))

\* The payloads of the whole frames of a stream.
RECURSIVE Buffers(_)
Buffers(s) == IF Complete(s) THEN <<Payload(s)>> \o Buffers(Rest(s)) ELSE <<>>

Result(op, error) == [op |-> op, err |-> error]

Init ==
    /\ wire = <<>> /\ eof = FALSE
    /\ last = Result("none", NoError)
    /\ sent = <<>> /\ received = <<>>

\* A send_message that takes a transmission that failed for one that
\* succeeded.
SendErrorIgnored(m, written) ==
    IF Serialize(m) = Malformed THEN "SerializeError" ELSE NoError

\* What send_message returns when written units of the frame went out.
SendError(m, written) ==
    CASE Serialize(m) = Malformed               -> "SerializeError"
      [] written < Len(Frame(Serialize(m)))     -> "IOError"
      [] OTHER                                  -> NoError

\* send_message: "Fails if the message cannot be serialized, or if the
\* serialized message cannot be transmitted."  A transmission fails with
\* any part of the frame in the stream.
SendMessage(m) ==
    LET frame == IF Serialize(m) = Malformed THEN <<>> ELSE Frame(Serialize(m)) IN
    /\ ~eof
    /\ Len(sent) < MaxSends
    /\ Len(wire) + Len(frame) <= MaxWire
    /\ \E written \in 0..Len(frame) :
        /\ wire' = wire \o SubSeq(frame, 1, written)
        /\ last' = Result("send", SendError(m, written))
        /\ sent' = IF SendError(m, written) = NoError THEN Append(sent, m) ELSE sent
        /\ eof' = (SendError(m, written) = "IOError" /\ ~SenderRetries)
    /\ UNCHANGED received

\* The sender closes its end.
Hangup ==
    /\ ~eof
    /\ eof' = TRUE
    /\ UNCHANGED <<wire, last, sent, received>>

\* A receive_message that returns whatever deserialize() made of the payload.
ReceiveErrorUnchecked(s) == IF Complete(s) THEN NoError ELSE "IOError"

\* What receive_message returns on stream s.
ReceiveError(s) ==
    CASE ~Complete(s)                   -> "IOError"
      [] Decode(Payload(s)) = Malformed -> "DeserializeError"
      [] OTHER                          -> NoError

\* receive_message: "Fails if no message can be received, or if the received
\* message cannot be deserialized."  receive_buffer waits for the whole
\* frame, and fails when the stream ends before: "EOF mid-message is a fatal
\* transport error".
ReceiveMessage ==
    /\ Complete(wire) \/ eof
    /\ wire' = IF Complete(wire) THEN Rest(wire) ELSE <<>>
    /\ last' = Result("receive", ReceiveError(wire))
    /\ received' = IF ReceiveError(wire) = NoError
                   THEN Append(received, Decode(Payload(wire)))
                   ELSE received
    /\ UNCHANGED <<eof, sent>>

Next ==
    \/ \E m \in Msg : SendMessage(m)
    \/ Hangup
    \/ ReceiveMessage

Spec == Init /\ [][Next]_vars

\* The receiving end is a loop that calls receive_message again and again
\* ("single-threaded event loop over the framed transport").
FairSpec == Spec /\ WF_vars(ReceiveMessage)

-----------------------------------------------------------------------------
(* Properties *)

TypeOK ==
    /\ wire \in Seq(Nat) /\ Len(wire) <= MaxWire
    /\ eof \in BOOLEAN
    /\ last \in [op : {"none", "send", "receive"},
                 err : {NoError, "SerializeError", "IOError", "DeserializeError"}]
    /\ sent \in Seq(Msg)
    /\ received \in Seq(Messages)

\* The messages of a sequence of values or of decoded payloads.
IsMessage(m) == m \in Messages
DecodedAll(buffers) == [i \in DOMAIN buffers |-> Decode(buffers[i])]

\* Nothing is lost, made up or reordered between the two ends: the messages
\* receive_message has returned, followed by those whose frames are in the
\* stream, are the messages send_message returned Ok for, in the order of
\* the calls.  An Ok of send_message means the whole frame is in the stream;
\* a frame cut short and a payload that is no message take nothing with
\* them.
NothingLostInFlight ==
    received \o SelectSeq(DecodedAll(Buffers(wire)), IsMessage)
        = SelectSeq(sent, IsMessage)

\* The framed transport is a channel of whole buffers: every step of
\* send_message and receive_message is a step of BufferChannel, on the
\* payloads of the whole frames in the stream.  send_message gives one
\* buffer or, failing, closes; receive_message takes exactly one, whatever
\* the bytes in the payloads.
Channel ==
    INSTANCE BufferChannel
        WITH Buf <- {Serialize(m) : m \in Msg} \ {Malformed},
             queue <- Buffers(wire),
             open <- ~eof
ImplementsChannel == Channel!Spec

\* Every message send_message returned Ok for is returned by
\* receive_message, if the receiver goes on receiving: receive_buffer waits
\* for no more than the frame, so a frame that is whole in the stream is
\* taken whatever follows it, and a payload that is no message does not stop
\* the frames behind it.
SentIsReceived == []<>(received = SelectSeq(sent, IsMessage))

\* "Receives and deserializes a message via a socket": what receive_message
\* returns is what send_message was given, in the same order.  A sender that
\* sends again on a stream with part of a frame in it ("caller may retry at
\* its discretion") has receive_message take the next frame for the rest of
\* the payload.
ReceivedWereSent == IsPrefix(received, SelectSeq(sent, IsMessage))
=============================================================================
