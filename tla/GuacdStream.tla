---------------------------- MODULE GuacdStream ----------------------------
(***************************************************************************)
(* The connection to guacd: Stream of pkg/stream.go with its buffer and    *)
(* its handshake, and guacdToWs of pkg/ws_server.go, which relays to the   *)
(* websocket what ReadSome returns.                                        *)
(*                                                                         *)
(* guacd sends one of Streams, a sequence of encoded instructions; its     *)
(* bytes arrive in pieces of any size and the connection may fail at any   *)
(* read or write.  array is the memory make allocated; Stream.buffer is    *)
(* the slice of len bytes after the first off of them, and its capacity is *)
(* what is left of array.  An instruction ReadSome returns is a slice too. *)
(* The parse loop is one step per element.                                 *)
(***************************************************************************)
EXTENDS Instruction

CONSTANTS
    MaxGuacMessage,
    Streams,   \* what guacd may send: sequences of instructions, encoded
    Garbage,   \* pieces of a stream that are not an instruction
    Args, Ready, ServerInfo   \* the letters for three opcodes

ASSUME StreamAssumption ==
    /\ MaxGuacMessage \in Nat \ {0}
    /\ Streams \subseteq Seq(Seq(Byte))
    /\ \A s \in Streams, g \in Garbage : \A k \in DOMAIN s : s[k] = g => k = Len(s)

VARIABLES
    stream,       \* what guacd sends on this connection
    arrived,      \* how many of its bytes were read
    array, off, len, parseStart,
    phase,        \* how far the connection is
    step,         \* where ReadSome and its caller are
    ins,          \* the instruction ReadSome returned: a slice of array
    connect,      \* the names of the parameters sent with connect
    connectionID,
    buf,          \* guacdToWs: what is to be written
    relayed,      \* what was written to the websocket
    taken         \* how many instructions ReadSome returned

buffer == <<array, off, len, parseStart>>
handshake == <<connect, connectionID>>
relay == <<buf, relayed>>
vars == <<stream, arrived, buffer, phase, step, ins, handshake, relay, taken>>

Slot == 1 .. 3 * MaxGuacMessage
Capacity == 3 * MaxGuacMessage - off

(* The bytes of a whole stream (a function, so that TLC computes it once). *)
Wire == [s \in Streams |-> FlattenSeq(s)]

Returned == [k \in 1 .. ins.len |-> array[ins.off + k]]

TypeOK ==
    /\ stream \in Streams
    /\ arrived \in 0 .. Len(Wire[stream])
    /\ array \in [Slot -> Byte]
    /\ off \in 0 .. 3 * MaxGuacMessage
    /\ len \in 0 .. Capacity
    /\ parseStart \in 0 .. len
    /\ phase \in {"select", "args", "ready", "relay", "ended"}
    /\ step \in {"parse", "read", "take", "broken"}
    /\ ins \in [off : 0 .. 3 * MaxGuacMessage, len : 0 .. 3 * MaxGuacMessage]
    /\ taken \in 0 .. Len(stream)

(* NewStream. *)
Init ==
    /\ stream \in Streams
    /\ arrived = 0
    /\ array = [k \in Slot |-> 0]
    /\ off = 0
    /\ len = 0
    /\ parseStart = 0
    /\ phase = "select"
    /\ step = "parse"
    /\ ins = [off |-> 0, len |-> 0]
    /\ connect = <<>>
    /\ connectionID = <<>>
    /\ buf = <<>>
    /\ relayed = <<>>
    /\ taken = 0

-----------------------------------------------------------------------------
(* The next element in the buffer, as the parse loop of ReadSome sees it:   *)
(* it is not all there ("more"), is followed by another or is the last, or  *)
(* the loop ends with an error or, one place behind the last byte, with an  *)
(* index out of range.  `i + elementLength' adds a number of characters to  *)
(* one of bytes.                                                            *)
Element ==
    LET p == off + parseStart + 1
        hi == off + len
        dot == CHOOSE k \in p .. hi :
                  array[k] \notin Digit /\ \A j \in p .. k - 1 : array[j] \in Digit
        elementLength == Number(array, p, dot)
        end == RunesEnd(array, dot + 1, hi, elementLength)
        Outcome(o, k) == [outcome |-> o, i |-> k - off]
    IN  IF \A k \in p .. hi : array[k] \in Digit THEN Outcome("more", p)
        ELSE IF array[dot] # Dot THEN Outcome("error", p)
        ELSE IF dot + elementLength >= hi THEN Outcome("more", p)
        ELSE IF end > hi THEN Outcome("error", p)
        ELSE IF array[end] = Semicolon THEN Outcome("last", end)
        ELSE IF array[end] = Comma THEN Outcome("another", end)
        ELSE Outcome("error", p)

Parsing(outcome) ==
    /\ phase \in {"args", "ready", "relay"}
    /\ step = "parse"
    /\ Element.outcome = outcome

(* The two kinds of instructions guacdToWs keeps for itself: the internal   *)
(* one, whose opcode is empty, and server_info.                             *)
Kept(i) ==
    \/ IsPrefix(<<0, Dot>>, i)
    \/ IsPrefix(<<1, Dot, ServerInfo>>, i)

(* Mutant: the condition as the comment before it puts it. *)
Due_WhenMore(b) == len > 0 \/ Len(b) >= MaxGuacMessage

(* The instructions are sent together when no more is buffered (Available)  *)
(* or they are long enough.                                                 *)
Due(b) == len = 0 \/ Len(b) >= MaxGuacMessage

-----------------------------------------------------------------------------
(* Mutants: what a slip in the code would make of a definition below.       *)

ReturnInstruction_KeepsStart ==
    /\ Parsing("last")
    /\ LET i == Element.i IN
       /\ ins' = [off |-> off, len |-> i]
       /\ off' = off + i
       /\ len' = len - i
       /\ parseStart' = i
    /\ taken' = taken + 1
    /\ step' = "take"
    /\ UNCHANGED <<stream, arrived, array, phase, handshake, relay>>

FlushAt_Never == FALSE

Room_OfWholeArray == 3 * MaxGuacMessage - len

HasOpcode_Any(elements, opcode) == elements # <<>>

Forward_NoReset ==
    LET b == buf \o Returned IN
    /\ phase = "relay"
    /\ step = "take"
    /\ ~Kept(Returned)
    /\ relayed' = IF Due(b) THEN relayed \o b ELSE relayed
    /\ buf' = b
    /\ step' = "parse"
    /\ UNCHANGED <<stream, arrived, buffer, phase, ins, handshake, taken>>

Flush_NoCopy == off' = 0 /\ UNCHANGED array

-----------------------------------------------------------------------------
(* Stream.Flush: the slice is moved to the start of the array. *)
Flush ==
    /\ array' = [k \in Slot |-> IF k <= len THEN array[off + k] ELSE array[k]]
    /\ off' = 0

(* Handshake up to the select instruction. *)
Select ==
    /\ phase = "select"
    /\ phase' = "args"
    /\ UNCHANGED <<stream, arrived, buffer, step, ins, handshake, relay, taken>>

NextElement ==
    /\ Parsing("another")
    /\ parseStart' = Element.i
    /\ UNCHANGED <<stream, arrived, array, off, len, phase, step, ins, handshake, relay, taken>>

(* ReadSome returns. *)
ReturnInstruction ==
    /\ Parsing("last")
    /\ LET i == Element.i IN
       /\ ins' = [off |-> off, len |-> i]
       /\ off' = off + i
       /\ len' = len - i
    /\ parseStart' = 0
    /\ taken' = taken + 1
    /\ step' = "take"
    /\ UNCHANGED <<stream, arrived, array, phase, handshake, relay>>

(* An error or a panic: the handshake or guacdToWs ends. *)
ParseFails ==
    /\ Parsing("error")
    /\ phase' = "ended"
    /\ step' = "broken"
    /\ UNCHANGED <<stream, arrived, buffer, ins, handshake, relay, taken>>

(* Before it reads, ReadSome moves the buffer when little is left behind it. *)
FlushAt == Capacity < MaxGuacMessage

WaitForMore ==
    /\ Parsing("more")
    /\ IF FlushAt THEN Flush ELSE UNCHANGED <<array, off>>
    /\ step' = "read"
    /\ UNCHANGED <<stream, arrived, len, parseStart, phase, ins, handshake, relay, taken>>

(* conn.Read fills at most the room behind the buffer. *)
Room == Capacity - len

Read(n) ==
    /\ arrived' = arrived + n
    /\ len' = len + n
    /\ array' = [k \in Slot |->
                    IF k \in off + len + 1 .. off + len + n
                    THEN Wire[stream][arrived + k - off - len] ELSE array[k]]
    /\ step' = "parse"
    /\ UNCHANGED <<stream, off, parseStart, phase, ins, handshake, relay, taken>>

Receive ==
    /\ phase \in {"args", "ready", "relay"}
    /\ step = "read"
    /\ \E n \in 1 .. Room : arrived + n <= Len(Wire[stream]) /\ Read(n)

(* The connection fails or the deadline set by ReadSome passes: ReadSome    *)
(* returns the error, at its start or when it reads.                        *)
ReadFails ==
    /\ phase \in {"args", "ready", "relay"}
    /\ step = "read" \/ (step = "parse" /\ parseStart = 0)
    /\ phase' = "ended"
    /\ UNCHANGED <<stream, arrived, buffer, step, ins, handshake, relay, taken>>

-----------------------------------------------------------------------------
(* AssertOpcode, after ReadOne. *)
HasOpcode(elements, opcode) == elements # <<>> /\ elements[1] = <<opcode>>

(* Handshake between args and ready: size, audio, video and image are sent, *)
(* then connect with the value of each parameter args names, in its order.  *)
AnswerArgs ==
    /\ phase = "args"
    /\ step = "take"
    /\ IF HasOpcode(Parse(Returned), Args)
       THEN /\ connect' = Tail(Parse(Returned))
            /\ phase' = "ready"
            /\ step' = "parse"
       ELSE phase' = "ended" /\ UNCHANGED <<connect, step>>
    /\ UNCHANGED <<stream, arrived, buffer, ins, connectionID, relay, taken>>

(* Handshake from ready on; the relay starts with what is left in the buffer. *)
TakeReady ==
    /\ phase = "ready"
    /\ step = "take"
    /\ IF HasOpcode(Parse(Returned), Ready) /\ Len(Parse(Returned)) > 1
       THEN /\ connectionID' = Parse(Returned)[2]
            /\ Flush
            /\ phase' = "relay"
            /\ step' = "parse"
       ELSE phase' = "ended" /\ UNCHANGED <<connectionID, array, off, step>>
    /\ UNCHANGED <<stream, arrived, len, parseStart, ins, connect, relay, taken>>

-----------------------------------------------------------------------------
(* It goes on without looking whether anything waits to be sent. *)
KeepInstruction ==
    /\ phase = "relay"
    /\ step = "take"
    /\ Kept(Returned)
    /\ step' = "parse"
    /\ UNCHANGED <<stream, arrived, buffer, phase, ins, handshake, relay, taken>>

(* guacdToWs, an instruction for the websocket; buf is reset when it is sent. *)
Forward ==
    LET b == buf \o Returned IN
    /\ phase = "relay"
    /\ step = "take"
    /\ ~Kept(Returned)
    /\ IF Due(b)
       THEN relayed' = relayed \o b /\ buf' = <<>>
       ELSE buf' = b /\ UNCHANGED relayed
    /\ step' = "parse"
    /\ UNCHANGED <<stream, arrived, buffer, phase, ins, handshake, taken>>

(* A write to guacd or to the websocket fails: the handshake or guacdToWs   *)
(* returns.                                                                 *)
WriteFails ==
    /\ \/ phase = "select"
       \/ phase = "args" /\ step = "take" /\ HasOpcode(Parse(Returned), Args)
       \/ phase = "relay" /\ step = "take" /\ ~Kept(Returned) /\ Due(buf \o Returned)
    /\ phase' = "ended"
    /\ UNCHANGED <<stream, arrived, buffer, step, ins, handshake, relay, taken>>

(* The caller returned. *)
Ended == phase = "ended" /\ UNCHANGED vars

ReadSome == NextElement \/ ReturnInstruction \/ ParseFails \/ WaitForMore

Caller == Select \/ AnswerArgs \/ TakeReady \/ KeepInstruction \/ Forward

Progress == ReadSome \/ Caller \/ Receive

Next == Progress \/ ReadFails \/ WriteFails \/ Ended

(* The handler is a goroutine that keeps running, and what guacd has sent   *)
(* arrives.  No two of these steps are possible at once.                    *)
Fairness == WF_vars(Progress)

Spec == Init /\ [][Next]_vars
FairSpec == Spec /\ Fairness

-----------------------------------------------------------------------------
(* What guacd is expected to send.  b[p] to b[q - 1] is an element: digits, *)
(* a dot, and as many bytes as the digits say.                              *)
ElementAt(b, p, q) ==
    \E d \in p .. q - 1 :
       /\ \A k \in p .. d - 1 : b[k] \in Digit
       /\ b[d] = Dot
       /\ Number(b, p, d) = q - d - 1

(* S has the first place of i and, with a place, the one behind the comma   *)
(* of the element that starts there.                                        *)
Opens(i, S) ==
    /\ 1 \in S
    /\ \A p \in S : \A q \in p .. Len(i) : ElementAt(i, p, q) /\ i[q] = Comma => q + 1 \in S

(* Elements up to a semicolon, which is the last byte; and what is not the  *)
(* start of such a sequence, so far as it goes.                             *)
IsInstruction(i) ==
    \E S \in SUBSET (1 .. Len(i)) :
       /\ Opens(i, S)
       /\ \A p \in S : \E q \in p .. Len(i) :
             ElementAt(i, p, q) /\ i[q] = IF q = Len(i) THEN Semicolon ELSE Comma

NoInstruction(i) ==
    \E S \in SUBSET (1 .. Len(i) + 1) :
       /\ Opens(i, S)
       /\ \A p \in S : \A q \in p .. Len(i) : ElementAt(i, p, q) => i[q] # Semicolon

(* One-byte characters only, and nothing longer than MaxGuacMessage. *)
Plain(s) ==
    \A k \in DOMAIN s :
       /\ \A j \in DOMAIN s[k] : s[k][j] # Lead
       /\ IF s[k] \in Garbage
          THEN NoInstruction(s[k]) /\ Len(s[k]) < MaxGuacMessage
          ELSE IsInstruction(s[k]) /\ Len(s[k]) <= MaxGuacMessage

(* Elements of one-byte characters Instruction.String can write, and their  *)
(* encoding; ready has one argument.                                        *)
Writable(e) ==
    /\ e \in Seq(Seq(Byte \ {Lead}))
    /\ Len(e) > 0
    /\ \A k \in 1 .. Len(e) : Len(e[k]) < 100

Encodes(i, e) ==
    /\ Writable(e)
    /\ i = String(e)
    /\ e[1] = <<Ready>> => Len(e) <= 2

-----------------------------------------------------------------------------
First(n) == SubSeq(stream, 1, n)

(* How many instructions the caller of ReadSome is done with, and what of   *)
(* one is for the websocket.                                                *)
Handled == IF step = "take" THEN taken - 1 ELSE taken
Passed(i) == IF Kept(i) THEN <<>> ELSE i

(* The buffer is what has arrived and was not returned yet, in its order,   *)
(* wherever Flush and the reads put it in the array.                        *)
WindowMatches ==
    \A k \in 1 .. len : array[off + k] = Wire[stream][arrived - len + k]

(* stream.go 17: "reading a single instruction at a time (since returning   *)
(* partial instructions would be an error)".  However the bytes arrive,     *)
(* what ReadSome has returned is so many whole instructions, and it fails   *)
(* only on what is none.                                                    *)
WholeInstructions ==
    /\ arrived - len = Len(FlattenSeq(First(taken)))
    /\ step = "broken" => stream[taken + 1] \in Garbage

(* When ReadSome reads there is room: conn.Read with an empty slice returns *)
(* at once and without an error, and the loop would turn for ever.  guacd   *)
(* sends no instruction longer than MaxGuacMessage.                         *)
RoomToRead == step = "read" => Room > 0

(* The handshake ends with the answers to its own requests: writing what it *)
(* took from args and ready as instructions again gives what guacd sent.    *)
HandshakeExact ==
    phase = "relay" =>
       /\ String(<<<<Args>>>> \o connect) = stream[1]
       /\ String(<<<<Ready>>, connectionID>>) = stream[2]

(* What was written to the websocket and what waits to be are, in order and *)
(* once each, the instructions taken from guacd after the handshake, less   *)
(* those guacdToWs keeps.                                                   *)
RelayedInOrder ==
    phase = "relay" =>
       relayed \o buf = FlattenSeq([k \in 1 .. Handled - 2 |-> Passed(stream[k + 2])])

(* Liveness: unless the connection fails everything is relayed in the end,  *)
(* but for what waits behind an instruction that is kept.                   *)
AllRelayed ==
    <>(\/ phase = "ended"
       \/ /\ taken = Len(stream)
          /\ step = "read"
          /\ buf = <<>> \/ Kept(stream[taken]))
=============================================================================
