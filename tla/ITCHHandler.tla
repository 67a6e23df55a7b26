---------------------------- MODULE ITCHHandler ----------------------------
(***************************************************************************)
(* ITCHHandler::Process on a stream of frames, a two-byte size and a message *)
(* each, that arrives in buffers cut at any byte.  What a buffer ends inside *)
(* of is kept between calls, in the cache and in _size.                      *)
(* The bytes of all buffers together are the wire; index, which the code     *)
(* counts from the start of the buffer, is counted from the start of the     *)
(* wire here.  A step is an iteration of the loop of Process, or the half of *)
(* it that reads a size or fills the cache.                                  *)
(***************************************************************************)
EXTENDS ITCHMessages

CONSTANTS
    Wire,          \* the bytes that are sent
    Offsets,       \* where its frames begin, and where the last one ends
    BufferSizes,   \* how much a caller reads at a time
    Refused        \* the types of the messages that onMessage may refuse

Byte == 0 .. 255

BigEndian(bytes) == 256 * bytes[1] + bytes[2]

Frames == 1 .. (Len(Offsets) - 1)

FrameSize(i) == BigEndian(<<Wire[Offsets[i] + 1], Wire[Offsets[i] + 2]>>)

ASSUME WireAssumption == Wire \in Seq(Byte)

ASSUME OffsetsAssumption ==
    /\ Offsets \in Seq(Nat)
    /\ Len(Offsets) > 0
    /\ Offsets[1] = 0
    /\ Offsets[Len(Offsets)] = Len(Wire)
    /\ \A i \in Frames :
          /\ Offsets[i] + 2 <= Len(Wire)
          /\ Offsets[i + 1] = Offsets[i] + 2 + FrameSize(i)
          /\ \A j \in Frames : i < j => Offsets[i + 1] <= Offsets[j]

ASSUME BufferAssumption == BufferSizes \subseteq Nat \ {0}

\* The message in a frame.
Body(i) == SubSeq(Wire, Offsets[i] + 3, Offsets[i + 1])

Messages == [i \in Frames |-> ProcessMessage(Body(i))]

Empty == {i \in Frames : FrameSize(i) = 0}

VARIABLES
    size,       \* _size: the size of the message being read, 0 if it is not known
    cache,      \* _cache: the bytes kept of a size or of a message
    index,      \* how far the handler has read
    received,   \* where the current buffer ends
    calling,    \* whether Process runs
    position,   \* history: the frames gone through in step
    message,    \* history: the last message that onMessage accepted in step
    inStep      \* history: no message was refused

handler == <<size, cache>>
history == <<position, message, inStep>>
vars == <<handler, index, received, calling, history>>

remaining == received - index

Lesser(m, n) == IF m < n THEN m ELSE n

-----------------------------------------------------------------------------
(* The caller. *)

\* A call of Process with the next bytes of the wire.
Process(n) ==
    /\ ~calling
    /\ received + n <= Len(Wire)
    /\ calling' = TRUE
    /\ index' = received
    /\ received' = received + n
    /\ UNCHANGED <<handler, history>>

\* After a call that failed a caller may start afresh with the next buffer.
Reset ==
    /\ ~calling /\ ~inStep
    /\ size' = 0
    /\ cache' = << >>
    /\ UNCHANGED <<index, received, calling, history>>

-----------------------------------------------------------------------------
(* The loop of Process. *)

\* A buffer with less than a size and one more byte is taken byte by byte.
CollectsSize == (cache = << >> /\ remaining < 3) \/ Len(cache) = 1

CollectSize ==
    /\ calling /\ index < received
    /\ size = 0 /\ CollectsSize
    /\ cache' = Append(cache, Wire[index + 1])
    /\ index' = index + 1
    /\ UNCHANGED <<size, received, calling, history>>

\* A size of zero leaves _size as it was: the next iteration reads the next size.
PassOver(read) ==
    position' = IF inStep /\ read = 0 /\ position + 1 \in Empty THEN position + 1 ELSE position

\* Mutant: the cache is cleared with a message only, which an empty one is not.
ReadSizeAgain ==
    /\ calling /\ index < received
    /\ size = 0 /\ ~CollectsSize
    /\ IF cache = << >>
       THEN /\ size' = BigEndian(<<Wire[index + 1], Wire[index + 2]>>)
            /\ index' = index + 2
       ELSE size' = BigEndian(cache) /\ UNCHANGED index
    /\ cache' = IF size' = 0 THEN cache ELSE << >>
    /\ PassOver(size')
    /\ UNCHANGED <<received, calling, message, inStep>>

\* Mutant: the bytes of the size are taken for the first ones of the message.
ReadSizeAndKeep ==
    /\ calling /\ index < received
    /\ size = 0 /\ ~CollectsSize
    /\ IF cache = << >>
       THEN /\ size' = BigEndian(<<Wire[index + 1], Wire[index + 2]>>)
            /\ index' = index + 2
       ELSE size' = BigEndian(cache) /\ UNCHANGED index
    /\ UNCHANGED cache
    /\ PassOver(size')
    /\ UNCHANGED <<received, calling, message, inStep>>

ReadSize ==
    /\ calling /\ index < received
    /\ size = 0 /\ ~CollectsSize
    /\ IF cache = << >>
       THEN /\ size' = BigEndian(<<Wire[index + 1], Wire[index + 2]>>)
            /\ index' = index + 2
       ELSE size' = BigEndian(cache) /\ UNCHANGED index
    /\ cache' = << >>
    /\ PassOver(size')
    /\ UNCHANGED <<received, calling, message, inStep>>

\* Mutant: the size is not limited to what the buffer holds.
GatherAll ==
    LET tail == size - Len(cache)
    IN  /\ calling /\ index < received
        /\ size > Len(cache)
        /\ cache # << >> \/ size > remaining
        /\ cache' = cache \o SubSeq(Wire, index + 1, index + Lesser(tail, remaining))
        /\ index' = index + tail
        /\ UNCHANGED <<size, received, calling, history>>

\* The bytes of the message that the buffer has go to the cache, unless it has all.
Gather ==
    LET tail == Lesser(size - Len(cache), remaining)
    IN  /\ calling /\ index < received
        /\ size > Len(cache)
        /\ cache # << >> \/ size > remaining
        /\ cache' = cache \o SubSeq(Wire, index + 1, index + tail)
        /\ index' = index + tail
        /\ UNCHANGED <<size, received, calling, history>>

\* Process returns, with what the buffer still holds given up: callers go on with
\* their next buffer.
Refuse ==
    /\ calling' = FALSE
    /\ index' = received
    /\ inStep' = FALSE
    /\ UNCHANGED <<handler, received, position, message>>

\* ProcessMessage refuses a wrong size, onMessage what the application does not accept.
Deliver(bytes, end) ==
    \/ /\ ProcessMessage(bytes) # NoMessage
       /\ size' = 0
       /\ cache' = << >>
       /\ index' = end
       /\ IF inStep THEN position' = position + 1 /\ message' = ProcessMessage(bytes)
                    ELSE UNCHANGED <<position, message>>
       /\ UNCHANGED <<received, calling, inStep>>
    \/ /\ ProcessMessage(bytes) = NoMessage \/ Head(bytes) \in Refused
       /\ Refuse

DeliverFromBuffer ==
    /\ calling /\ index < received
    /\ cache = << >>
    /\ 0 < size /\ size <= remaining
    /\ Deliver(SubSeq(Wire, index + 1, index + size), index + size)

\* Mutant: the loop ends with the buffer before it looks at the cache.
CacheIsCompleteInside == size > 0 /\ Len(cache) = size /\ index < received

CacheIsComplete == size > 0 /\ Len(cache) = size

DeliverFromCache == calling /\ CacheIsComplete /\ Deliver(cache, index)

Return ==
    /\ calling /\ index = received
    /\ ~CacheIsComplete
    /\ calling' = FALSE
    /\ UNCHANGED <<handler, index, received, history>>

Loop ==
    CollectSize \/ ReadSize \/ Gather \/ DeliverFromBuffer \/ DeliverFromCache \/ Return

-----------------------------------------------------------------------------

Init ==
    /\ size = 0 /\ cache = << >>
    /\ index = 0 /\ received = 0 /\ calling = FALSE
    /\ position = 0 /\ message = NoMessage /\ inStep = TRUE

Next == (\E n \in BufferSizes : Process(n)) \/ Reset \/ Loop

\* The loop waits for nothing: a call that has begun goes on.
Spec == Init /\ [][Next]_vars /\ WF_vars(Loop)

-----------------------------------------------------------------------------
(* Properties. *)

\* Types; the handler reads no byte that is not in the buffer, and the cache never
\* holds more than the message whose size it has (itch_handler.cpp:16-100).
TypeOK ==
    /\ size \in Nat
    /\ cache \in Seq(Byte)
    /\ Len(cache) <= (IF size = 0 THEN 2 ELSE size)
    /\ received \in 0 .. Len(Wire)
    /\ index \in 0 .. received
    /\ calling \in BOOLEAN
    /\ inStep \in BOOLEAN
    /\ position \in 0 .. Len(Offsets) - 1

\* Wherever the buffers were cut, when Process has returned every message that has
\* arrived completely was handed on, and none before (itch_handler.cpp:54-71: the rest
\* of a buffer is kept only while its message is incomplete).
NothingIsHeldBack ==
    inStep /\ ~calling =>
        \A i \in Frames : FrameSize(i) > 0 => (i <= position <=> Offsets[i + 1] <= received)

\* A message reaches onMessage with every member read from its own place in the
\* message as it was sent; of the timestamp these are its first three bytes
\* (itch_handler.cpp:165-622, the order of reads against the declarations).
FieldsAreAtTheirPlace ==
    inStep /\ position \in Frames \ Empty =>
        LET struct == message.struct
        IN  \A j \in DOMAIN struct :
               message.fields[struct[j][1]] =
                   Read(struct[j], Offset(struct, j), Body(position))

\* Cuts and caching are invisible: the messages are handled in order, each once, until
\* one is refused (itch_handler.cpp:73-95).
Stream == INSTANCE MessageStream
HandlesTheStream == Stream!Spec

\* Process returns, whatever the bytes: every iteration takes bytes from the buffer or
\* leaves less to be done with those it has (itch_handler.cpp:21).
CallsReturn == calling ~> ~calling
=============================================================================
