------------------------------ MODULE Framing ------------------------------
(***************************************************************************)
(* The bytes of one direction of a connection: a source of LSP messages    *)
(* that is read in chunks of any size, ToLSTransform, the middleware,      *)
(* FromLSTransform (LSTransform.ts) and the WebSocketWritableStream that   *)
(* sends the result in pieces (WSStream.ts:104-262).                       *)
(*                                                                         *)
(* A stream of bytes is given by the sizes of its messages, a piece of it  *)
(* by where it begins and ends: <<from, to>> are the bytes from + 1 .. to. *)
(***************************************************************************)
EXTENDS Naturals, Sequences, FiniteSets

CONSTANTS
    Bodies,     \* the sizes of the source's messages, in bytes
    Rewritten,  \* their sizes after the middleware
    Dropped,    \* the messages for which the middleware returns null
    ChunkSize   \* of WebSocketWritableStream

N == Len(Bodies)

ASSUME SizeAssumption ==
    /\ Bodies \in Seq(Nat \ {0}) /\ Rewritten \in Seq(Nat \ {0}) /\ Len(Rewritten) = N
    /\ Dropped \subseteq 1 .. N
    /\ ChunkSize \in Nat \ {0}

\* "Content-Length: ", the digits, and two line breaks. A Buffer of Node.js has
\* less than 10^10 bytes.
Digits(size) == 1 + Cardinality({k \in 1 .. 9 : size >= 10^k})
HeaderSize(size) == 16 + Digits(size) + 4
PrefixMinLength == 16 + 1 + 4

\* Where message k begins in a stream of messages of these sizes.
Begin(sizes) ==
    LET f[k \in 1 .. Len(sizes) + 1] ==
            IF k = 1 THEN 0 ELSE f[k - 1] + HeaderSize(sizes[k - 1]) + sizes[k - 1]
    IN f
Source == Begin(Bodies)
BodyOf(k) == <<Source[k + 1] - Bodies[k], Source[k + 1]>>

VARIABLES
    received,  \* bytes of the source that ToLSTransform was given
    parser,    \* its _state, _curContentLength, where _curChunk begins, pushes
    passed,    \* messages the middleware has seen
    socket,    \* readyState of the WebSocket
    written,   \* bytes FromLSTransform has written to the socket's stream
    buffer,    \* the bytes of them in the stream's #buffer
    frames,    \* the pieces sent over the socket
    ended      \* the source has ended; "final" when the socket's stream has

vars == <<received, parser, passed, socket, written, buffer, frames, ended>>

Interval == Nat \X Nat
Parser == [state : {"content-length", "jsonrpc", "failed"}, length : Nat,
           begin : Nat, pushed : Seq(Interval)]

TypeOK ==
    /\ received \in 0 .. Source[N + 1]
    /\ parser \in Parser
    /\ passed \in 0 .. Len(parser.pushed)
    /\ socket \in {"connecting", "open", "closed"}
    /\ written \in Nat
    /\ buffer \in Interval
    /\ frames \in Seq(Interval)
    /\ ended \in {"no", "yes", "final", "failed"}

Init ==
    /\ received = 0
    /\ parser = [state |-> "content-length", length |-> 0, begin |-> 0, pushed |-> << >>]
    /\ passed = 0
    /\ socket \in {"connecting", "open"}
    /\ written = 0 /\ buffer = <<0, 0>> /\ frames = << >>
    /\ ended = "no"

-----------------------------------------------------------------------------
(* ToLSTransform._transform *)

\* The body that the header at offset begin announces.
Announced(begin) == Bodies[CHOOSE k \in 1 .. N : Source[k] = begin]

\* r bytes have been received. Less than the shortest header: wait for more.
\* Otherwise the header must be complete.
Complete(p, r) == r >= p.begin + HeaderSize(Announced(p.begin))
ParseHeader(p, r) ==
    IF Complete(p, r)
    THEN [p EXCEPT !.state = "jsonrpc", !.length = Announced(p.begin),
                   !.begin = @ + HeaderSize(Announced(p.begin))]
    ELSE [p EXCEPT !.state = "failed"]

Push(p) ==
    [p EXCEPT !.state = "content-length", !.begin = @ + p.length,
              !.pushed = Append(@, <<p.begin, p.begin + p.length>>)]

\* A header or a body, if there are enough bytes.
MinLengthShort == PrefixMinLength - 1
MinLengthLong == PrefixMinLength + 3
MinLength == PrefixMinLength
Round(p, r) ==
    CASE p.state = "content-length" /\ r >= p.begin + MinLength -> ParseHeader(p, r)
      [] p.state = "jsonrpc" /\ r >= p.begin + p.length -> Push(p)
      [] OTHER -> p

\* The loop: a message takes two rounds, so that more would do nothing.
Parse(p, r) ==
    LET after[n \in 0 .. 2 * N] == IF n = 0 THEN p ELSE Round(after[n - 1], r)
    IN after[2 * N]

\* The next chunk, of any size.
Transform ==
    /\ ended = "no"
    /\ parser.state # "failed"
    /\ received' \in received + 1 .. Source[N + 1]
    /\ parser' = Parse(parser, received')
    /\ UNCHANGED <<passed, socket, written, buffer, frames, ended>>

-----------------------------------------------------------------------------
(* FromLSTransform and WebSocketWritableStream *)

\* chunkByteArray
PiecesWithoutRest(b) ==
    [i \in 1 .. (b[2] - b[1]) \div ChunkSize |->
        <<b[1] + (i - 1) * ChunkSize, b[1] + i * ChunkSize>>]
Pieces(b) ==
    LET Least(m, n) == IF m < n THEN m ELSE n
    IN [i \in 1 .. (b[2] - b[1] + ChunkSize - 1) \div ChunkSize |->
           <<b[1] + (i - 1) * ChunkSize, Least(b[2], b[1] + i * ChunkSize)>>]

KeepBuffer(b) == b
ClearBuffer(b) == <<b[2], b[2]>>

\* _write: all that is buffered and this, or nothing while the socket is not open.
Write(size) ==
    /\ written' = written + size
    /\ IF socket = "open"
       THEN /\ frames' = frames \o Pieces(<<buffer[1], written'>>)
            /\ buffer' = ClearBuffer(<<buffer[1], written'>>)
       ELSE /\ buffer' = <<buffer[1], written'>>
            /\ UNCHANGED frames

Unpassed == passed < Len(parser.pushed)

\* The middleware's result gets a header of its own and is written at once.
Middleware ==
    /\ Unpassed
    /\ passed' = passed + 1
    /\ IF passed' \in Dropped THEN UNCHANGED <<written, buffer, frames>>
       ELSE Write(HeaderSize(Rewritten[passed']) + Rewritten[passed'])
    /\ UNCHANGED <<received, parser, socket, ended>>

\* The source ends, maybe inside a message: there is no _flush.
End ==
    /\ ended = "no"
    /\ parser.state # "failed"
    /\ ended' = "yes"
    /\ UNCHANGED <<received, parser, passed, socket, written, buffer, frames>>

\* _final sends what is buffered; send() throws while the socket is connecting
\* and does nothing once it is closed.
Final ==
    /\ ended = "yes"
    /\ ~Unpassed
    /\ IF buffer[1] = buffer[2] THEN ended' = "final" /\ UNCHANGED <<buffer, frames>>
       ELSE CASE socket = "open" -> /\ frames' = frames \o Pieces(buffer)
                                    /\ buffer' = ClearBuffer(buffer)
                                    /\ ended' = "final"
              [] socket = "closed" -> /\ buffer' = ClearBuffer(buffer)
                                      /\ ended' = "final"
                                      /\ UNCHANGED frames
              [] OTHER -> ended' = "failed" /\ UNCHANGED <<buffer, frames>>
    /\ UNCHANGED <<received, parser, passed, socket, written>>

Open ==
    /\ socket = "connecting"
    /\ socket' = "open"
    /\ UNCHANGED <<received, parser, passed, written, buffer, frames, ended>>

Close ==
    /\ socket # "closed"
    /\ socket' = "closed"
    /\ UNCHANGED <<received, parser, passed, written, buffer, frames, ended>>

-----------------------------------------------------------------------------
Next == Transform \/ Middleware \/ End \/ Final \/ Open \/ Close

Spec == Init /\ [][Next]_vars

-----------------------------------------------------------------------------
(* Properties *)

\* However the source is cut into chunks, what ToLSTransform pushes is the
\* bodies of its messages, whole and in order (LSTransform.ts:46-142); and no
\* message is left in _curChunk once all of its bytes have come, unless the
\* stream has failed (125-136).
PushedInOrder ==
    /\ \A k \in DOMAIN parser.pushed : parser.pushed[k] = BodyOf(k)
    /\ parser.state # "failed" =>
         \A k \in 1 .. N : Source[k + 1] <= received => k <= Len(parser.pushed)

\* The stream fails only if a header of more than the least length was cut near
\* its end: after 21 bytes of it, and before all of it had come
\* (LSTransform.ts:74, 102-117).
FailsOnCutHeader ==
    parser.state = "failed" =>
        \E k \in 1 .. N : /\ received - Source[k] \in 21 .. HeaderSize(Bodies[k]) - 1
                          /\ received >= Source[k]

\* What is sent are the bytes that were written, each once and in order, in
\* pieces of at most ChunkSize (WSStream.ts:144-170, 221-230), whenever the
\* socket opens and closes; the rest is in the buffer.
FramesInOrder ==
    /\ \A i \in DOMAIN frames :
         /\ frames[i][2] - frames[i][1] \in 1 .. ChunkSize
         /\ frames[i][2] > frames[i][1]
         /\ frames[i][1] = IF i = 1 THEN 0 ELSE frames[i - 1][2]
    /\ socket # "closed" =>
         buffer = <<IF frames = << >> THEN 0 ELSE frames[Len(frames)][2], written>>

-----------------------------------------------------------------------------
(* What the streams promise together *)

\* Where message k ends in what FromLSTransform writes.
Size(k) == IF k \in Dropped THEN 0 ELSE HeaderSize(Rewritten[k]) + Rewritten[k]
Target ==
    LET f[k \in 0 .. N] == IF k = 0 THEN 0 ELSE f[k - 1] + Size(k)
    IN f

\* The messages pushed whole, and those that frames bring to the other side: as
\* long as each goes on where the one before it ended.
Extracted == {k \in DOMAIN parser.pushed : parser.pushed[k] = BodyOf(k)}
Follow(fs, i) == \A j \in 1 .. i : fs[j][1] = IF j = 1 THEN 0 ELSE fs[j - 1][2]
Arrived(fs) == {k \in (1 .. N) \ Dropped :
                  \E i \in DOMAIN fs : Follow(fs, i) /\ Target[k] <= fs[i][2]}

\* From the language server's output to the WebSocket, and from there to its
\* input: however chunks cut the messages and whenever the socket opens, they
\* come out whole, in order and once, each as soon as it is written to a socket
\* that is open (LSTransform.ts:46-153, 185-275, WSStream.ts:131-231).
Messages ==
    INSTANCE Relay WITH Count <- N, taken <- Extracted, broken <- (parser.state = "failed"),
                        sent <- Arrived(frames), link <- socket
Relayed == Messages!Spec
=============================================================================
