---------------------------- MODULE SamDatagram -----------------------------
(***************************************************************************)
(* Datagrams over the TCP connection to the SAM bridge                     *)
(* (SamDatagramTcp::recv, src/src/i2p/sam/datagram_tcp.rs).  The bridge    *)
(* sends frames: a header line and a payload of the size it names, or a    *)
(* control line.  A frame arrives in pieces.  recv keeps what it read of a *)
(* frame in locals, and its callers drop it: the select! of the KAD        *)
(* service whenever another branch is ready, the bootstrap exchange when   *)
(* its time is over.  The bridge is well-behaved here.                     *)
(*                                                                         *)
(* A definition marked "Slip" is a mistaken form of the one after it.      *)
(***************************************************************************)
EXTENDS Integers, Sequences

CONSTANTS
    Sizes,    \* of payloads, in pieces
    MaxSize,  \* MAX_DGRAM_TCP_SIZE, in pieces
    MaxWire,  \* bound: pieces on the way
    MaxSent   \* bound: datagrams sent over one connection

\* What the constants may be; KadServices assumes it.
DatagramAssumption == Sizes \subseteq Nat /\ {MaxSize, MaxWire, MaxSent} \subseteq Nat

VARIABLES
    wire,         \* the pieces that arrived and were not read
    reader,       \* what recv is at, and what it has read for it
    returned,     \* the datagram recv returned last
    sent_no,      \* history: the number of the last datagram sent for recv to return
    returned_no,  \* history: how many recv returned before it was dropped in a frame
    junk,         \* history: a line was read that the bridge did not send
    misread,      \* history: such a line read as the header of a datagram
    cut           \* history: recv was dropped within a frame

flags == <<junk, misread, cut>>
samVars == <<wire, reader, returned, sent_no, returned_no, flags>>

\* A frame has a number, the datagrams sent so far, itself included, and the
\* size of its payload.  Oversized ones and control lines are not counted.
NoFrame == <<0, 0>>

Piece(frame, part, i) == [frame |-> frame, part |-> part, i |-> i]

Header(frame) == <<Piece(frame, "head", 1), Piece(frame, "head", 2)>>
Payload(frame) == [i \in 1 .. frame[2] |-> Piece(frame, "payload", i)]
Control(n) == <<Piece(<<n, 0>>, "control", 1), Piece(<<n, 0>>, "control", 2)>>

\* The reader between two lines, in a line, in a payload, or in an oversized
\* payload it discards.
Fresh == [at |-> "line", frame |-> NoFrame, got |-> <<>>]
InLine(got) == [at |-> "line", frame |-> NoFrame, got |-> got]
InPayload(frame, got) == [at |-> "payload", frame |-> frame, got |-> got]
Discarding(frame, got) == [at |-> "discard", frame |-> frame, got |-> got]

Nothing == [frame |-> NoFrame, got |-> <<>>]

Init ==
    /\ wire = <<>> /\ reader = Fresh /\ returned = Nothing
    /\ sent_no = 0 /\ returned_no = 0
    /\ junk = FALSE /\ misread = FALSE /\ cut = FALSE

BridgeSends(pieces) ==
    /\ Len(wire) + Len(pieces) <= MaxWire
    /\ wire' = wire \o pieces
    /\ UNCHANGED <<reader, returned, returned_no, flags>>

SendDatagram(size) ==
    LET n == IF size <= MaxSize THEN sent_no + 1 ELSE sent_no
    IN  /\ n <= MaxSent
        /\ sent_no' = n
        /\ BridgeSends(Header(<<n, size>>) \o Payload(<<n, size>>))

SendControl == BridgeSends(Control(sent_no)) /\ UNCHANGED sent_no

\* The socket is lost, or recv fails, and the service makes a new one.
Reconnect ==
    /\ wire' = <<>> /\ reader' = Fresh /\ returned' = Nothing
    /\ sent_no' = 0 /\ returned_no' = 0
    /\ junk' = FALSE /\ misread' = FALSE /\ cut' = FALSE

-----------------------------------------------------------------------------
(* Reading a line. *)

\* Slip: an oversized payload is left for the next line.
AfterHeaderSkipping(frame) ==
    IF frame[2] > MaxSize THEN Fresh ELSE InPayload(frame, <<>>)

\* What follows the line of a header.
AfterHeader(frame) ==
    IF frame[2] > MaxSize THEN Discarding(frame, <<>>) ELSE InPayload(frame, <<>>)

IsControl(line) == line = Control(line[1].frame[1])
IsHeader(line) == line = Header(line[1].frame)

\* A line of a frame is whole: a header is followed by its payload, a control
\* line is answered or ignored.
WholeLine(line) ==
    /\ reader' = IF IsHeader(line) THEN AfterHeader(line[1].frame) ELSE Fresh
    /\ UNCHANGED flags

\* A line of anything else fails to parse and is skipped, names something recv
\* ignores, or shows that the framing is lost, so that recv fails; a rest
\* begins the next line.
JunkLine(rest) ==
    /\ junk' = TRUE
    /\ reader' = InLine(rest)
    /\ UNCHANGED <<misread, cut>>

\* Bytes of a payload may be anything, also DATAGRAM RECEIVED with a
\* DESTINATION and a SIZE: the line is taken for a header.  How a payload is
\* cut into pieces is free, so that the line ends with one.
MisreadLine ==
    /\ junk' = TRUE /\ misread' = TRUE
    /\ \E size \in Sizes : reader' = AfterHeader(<<0, size>>)
    /\ UNCHANGED cut

HasPayload(line) == \E i \in DOMAIN line : line[i].part = "payload"

\* The pieces of a line end with its newline; those of a payload may have one
\* anywhere or nowhere.
ReadLine ==
    /\ reader.at = "line" /\ wire # <<>>
    /\ wire' = Tail(wire)
    /\ UNCHANGED <<returned, sent_no, returned_no>>
    /\ LET line  == Append(reader.got, Head(wire))
           whole == IsControl(line) \/ IsHeader(line)
           bytes == Head(wire).part = "payload"
       IN  \/ whole /\ WholeLine(line)
           \/ ~ whole /\ ~ bytes /\ Head(wire).i = 2 /\ JunkLine(<<>>)
           \/ bytes /\ \E rest \in {<<>>, <<Head(wire)>>} : JunkLine(rest)
           \/ ~ whole /\ (bytes \/ Head(wire).i = 2) /\ HasPayload(line) /\ MisreadLine
           \/ /\ bytes \/ Head(wire).i = 1
              /\ Len(line) <= MaxWire
              /\ reader' = InLine(line)
              /\ UNCHANGED flags

-----------------------------------------------------------------------------
(* Reading a payload. *)

\* read_exact of the payload, which may be empty.
ReadPayload ==
    /\ reader.at \in {"payload", "discard"}
    /\ Len(reader.got) < reader.frame[2]
    /\ wire # <<>>
    /\ wire' = Tail(wire)
    /\ reader' = [reader EXCEPT !.got = Append(@, Head(wire))]
    /\ UNCHANGED <<returned, sent_no, returned_no, flags>>

\* recv returns the datagram.
Return ==
    /\ reader.at = "payload" /\ Len(reader.got) = reader.frame[2]
    /\ returned' = [frame |-> reader.frame, got |-> reader.got]
    /\ returned_no' = IF cut THEN returned_no ELSE returned_no + 1
    /\ reader' = Fresh
    /\ UNCHANGED <<wire, sent_no, flags>>

\* recv goes on with the next line after an oversized payload.
Discarded ==
    /\ reader.at = "discard" /\ Len(reader.got) = reader.frame[2]
    /\ reader' = Fresh
    /\ UNCHANGED <<wire, returned, sent_no, returned_no, flags>>

\* What is left of recv when it is dropped.
Cancelled == Fresh

\* Another branch of the select! is ready, or the timeout is.
Cancel ==
    /\ reader' = Cancelled
    /\ cut' = (cut \/ reader # Fresh)
    /\ UNCHANGED <<wire, returned, sent_no, returned_no, junk, misread>>

Next ==
    \/ \E size \in Sizes : SendDatagram(size)
    \/ SendControl
    \/ ReadLine
    \/ ReadPayload
    \/ Return
    \/ Discarded
    \/ Cancel
    \/ Reconnect

Spec == Init /\ [][Next]_samVars

-----------------------------------------------------------------------------
(* Properties. *)

\* Until recv is dropped within a frame, whatever the sizes, it never takes
\* payload for a line, the n-th datagram it returns is the n-th that was sent,
\* and none is missing once the connection is read empty.  After that, recv
\* takes up the stream within a frame, and a datagram it returned is still
\* whole and its own until bytes of a payload happened to read as a header:
\* from there to the end of the connection nothing is promised.
DatagramsAreWhole ==
    /\ ~ misread => returned.got = Payload(returned.frame)
    /\ ~ cut =>
          /\ ~ junk
          /\ returned.frame[1] = returned_no
          /\ wire = <<>> /\ reader = Fresh => returned_no = sent_no

\* The callers' timeouts around recv do no harm (its comment sends them there
\* so that "no traffic yet" is not a hard error).
NoDesync == ~ junk
=============================================================================
