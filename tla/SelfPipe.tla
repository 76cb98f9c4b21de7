------------------------------ MODULE SelfPipe ------------------------------
(***************************************************************************)
(* Callbacks scheduled on the run loop from other threads and signal       *)
(* handlers (PAL/POSIX/HAPPlatformRunLoop.c). Each is written to a pipe as *)
(* one message: the callback, the size of its context in one byte, and the *)
(* context. The run loop reads the pipe into a buffer of the size of the   *)
(* largest message, without regard to where messages begin and end, and    *)
(* calls what is complete.                                                 *)
(*                                                                         *)
(* The bytes of the pipe and of the buffer are one stream, kept as the     *)
(* sequence of the sizes of the contexts under way: what matters is how    *)
(* many of its bytes have been moved to the buffer.                        *)
(***************************************************************************)
EXTENDS Integers, Sequences, SequencesExt

CONSTANTS
  Header,       \* size of the callback and of the size byte
  UINT8_MAX,    \* the largest context
  CharMax,      \* the largest char: UINT8_MAX if char is unsigned, half if not
  SizeModulus,  \* size_t wraps here
  PipeSize,     \* capacity of the pipe
  Sizes         \* sizes of the contexts that are scheduled

SelfPipeAssumption ==
  /\ Header \in Nat \ {0}
  /\ UINT8_MAX \in Nat /\ CharMax \in 0..UINT8_MAX
  /\ SizeModulus \in Nat /\ SizeModulus > 2 * (Header + UINT8_MAX)
  /\ PipeSize \in Nat
  /\ Sizes \subseteq 0..UINT8_MAX

VARIABLES
  stream,            \* sizes of the contexts in the buffer and in the pipe
  numSelfPipeBytes,  \* bytes in the buffer
  handling,          \* HandleSelfPipeFileHandleCallback is running
  context            \* size of the context of the callback that is running, or -1

vars == <<stream, numSelfPipeBytes, handling, context>>

\* Capacity of the buffer.
BufferSize == Header + UINT8_MAX

\* Bytes of the messages in seq.
Bytes(seq) == FoldSeq(LAMBDA size, sum : sum + Header + size, 0, seq)

\* Bytes that are still in the pipe. The context of the callback that is running
\* is in the buffer, its header is not any more.
InPipe == Bytes(stream) + (IF context < 0 THEN 0 ELSE context) - numSelfPipeBytes

Init ==
  /\ stream = <<>> /\ numSelfPipeBytes = 0
  /\ handling = FALSE
  /\ context = -1

\* HAPPlatformRunLoopScheduleCallback, at any time: one atomic write, of everything
\* or, if the pipe is full, of nothing.
ScheduleCallback(size) ==
  /\ InPipe + Header + size <= PipeSize
  /\ stream' = Append(stream, size)
  /\ UNCHANGED <<numSelfPipeBytes, handling, context>>

\* The run loop finds the pipe readable: as much is read as there is room for.
\* Without room the assertion fails.
HandleSelfPipe ==
  /\ ~handling /\ InPipe > 0
  /\ numSelfPipeBytes < BufferSize
  /\ numSelfPipeBytes' =
       numSelfPipeBytes + (IF InPipe <= BufferSize - numSelfPipeBytes
                           THEN InPipe ELSE BufferSize - numSelfPipeBytes)
  /\ handling' = TRUE
  /\ UNCHANGED <<stream, context>>

\* The size byte as the handler reads it: a char, converted to size_t.
SizeRead(size) ==
  IF size <= CharMax THEN size ELSE (size - (UINT8_MAX + 1)) % SizeModulus

\* Mutant: one byte more than the message has must be there.
Complete_OneMore ==
  /\ numSelfPipeBytes >= Header
  /\ numSelfPipeBytes > (Header + SizeRead(stream[1])) % SizeModulus

\* The buffer begins with a complete message.
Complete ==
  /\ numSelfPipeBytes >= Header
  /\ numSelfPipeBytes >= (Header + SizeRead(stream[1])) % SizeModulus

\* One turn of the loop up to the call: the header is cut off.
Invoke ==
  /\ handling /\ context < 0 /\ Complete
  /\ context' = SizeRead(stream[1])
  /\ stream' = Tail(stream)
  /\ numSelfPipeBytes' = numSelfPipeBytes - Header
  /\ UNCHANGED handling

\* Mutant: one callback for each time the pipe is found readable.
Returned_Once ==
  /\ context >= 0
  /\ numSelfPipeBytes' = numSelfPipeBytes - context
  /\ context' = -1
  /\ handling' = FALSE
  /\ UNCHANGED stream

\* The callback returns, its context is cut off.
Returned ==
  /\ context >= 0
  /\ numSelfPipeBytes' = numSelfPipeBytes - context
  /\ context' = -1
  /\ UNCHANGED <<stream, handling>>

\* What is left waits for the rest of its message.
Handled ==
  /\ handling /\ context < 0 /\ ~Complete
  /\ handling' = FALSE
  /\ UNCHANGED <<stream, numSelfPipeBytes, context>>

Handler == HandleSelfPipe \/ Invoke \/ Returned \/ Handled

Next == Handler \/ \E size \in Sizes : ScheduleCallback(size)

Spec == Init /\ [][Next]_vars

\* The run loop serves the pipe when it is readable, and callbacks return.
FairSpec == Spec /\ WF_vars(Handler)

-----------------------------------------------------------------------------
(* Properties. *)

\* The buffer holds no more than it has room for, nor more than was written, and the
\* pipe stays within its capacity.
TypeOK ==
  /\ stream \in Seq(Sizes)
  /\ handling \in BOOLEAN
  /\ context \in Sizes \cup {-1}
  /\ context >= 0 => handling
  /\ numSelfPipeBytes \in 0..BufferSize
  /\ InPipe \in 0..PipeSize

\* Every callback scheduled is called: the stream is worked off while it is not
\* empty, as often as one likes, and no part of a message is stranded in the buffer.
ScheduledIsInvoked == []<>(stream = <<>> \/ context >= 0)

=============================================================================
