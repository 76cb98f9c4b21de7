-------------------------- MODULE TCPStreamManager --------------------------
(***************************************************************************)
(* The TCP streams of the POSIX platform (HAPPlatformTCPStreamManager.c)   *)
(* on top of the run loop: a listener and a fixed number of streams, each  *)
(* with a file handle. Streams are accepted, changed and closed by the     *)
(* callbacks of any of them, and by timers, in the midst of a pass over    *)
(* the handles; descriptors and handles are reused at once.                *)
(***************************************************************************)
EXTENDS RunLoop

CONSTANTS
  Slots  \* positions of tcpStreams; there is one (TCPStreamManagerCreate)

TCPStreamManagerAssumption ==
  /\ Slots \in SUBSET Nat /\ IsFiniteSet(Slots) /\ Slots # {}
  /\ None \notin Handles /\ Fds \in SUBSET Nat /\ Cardinality(Fds) > Cardinality(Slots)

VARIABLES
  listener,       \* its file handle; None while it is closed
  streams,        \* file handle and interests of each stream
  numTCPStreams

managerVars == <<listener, streams, numTCPStreams>>
allVars == <<vars, managerVars>>

maxTCPStreams == Cardinality(Slots)

\* InitializeTCPStream
InitializeTCPStream == [handle |-> None, interests |-> {}]

ManagerInit ==
  /\ Init
  /\ listener = None
  /\ streams = [s \in Slots |-> InitializeTCPStream]
  /\ numTCPStreams = 0

Open == {s \in Slots : streams[s].handle # None}

-----------------------------------------------------------------------------

\* socket and accept return the smallest descriptor that is free.
FreshFd ==
  LET free == Fds \ {handle[h].fd : h \in Elements(handles)}
  IN  CHOOSE f \in free : \A g \in free : f <= g

\* The server opens it only when it has no sessions left (EngineStates of IPAccessoryServer).
OpenListener ==
  /\ listener = None /\ numTCPStreams = 0
  /\ \E h \in Handles : FileHandleRegister(h, FreshFd, {"read"}) /\ listener' = h
  /\ UNCHANGED <<streams, numTCPStreams>>

\* The streams remain.
CloseListener ==
  /\ listener # None
  /\ FileHandleDeregister(listener)
  /\ listener' = None
  /\ UNCHANGED <<streams, numTCPStreams>>

\* Mutant: the listener stays on duty.
AfterAccept_Listening(num) == {"read"}

\* Interests of the listener after a stream has been accepted
AfterAccept(num) == IF num = maxTCPStreams THEN {} ELSE handle[listener].interests

\* HAPPlatformTCPStreamManagerAcceptTCPStream, from the callback of the listener. With no
\* stream left it fails, and without a connection to accept it does: nothing changes then.
Accept ==
  /\ running = listener /\ listener # None
  /\ numTCPStreams < maxTCPStreams
  /\ LET s == CHOOSE t \in Slots \ Open : \A u \in Slots \ Open : t <= u
     IN  \E h \in Handles \ Elements(handles) :
           /\ handles' = Append(handles, h)
           /\ handle' = [handle EXCEPT
                ![h] = [fd |-> FreshFd, interests |-> {}, awaiting |-> FALSE],
                ![listener].interests = AfterAccept(numTCPStreams + 1)]
           /\ streams' = [streams EXCEPT ![s] = [handle |-> h, interests |-> {}]]
  /\ numTCPStreams' = numTCPStreams + 1
  /\ UNCHANGED <<listener, loopVars, cursor, polled, timerVars, now, running>>

\* HAPPlatformTCPStreamUpdateInterests; the server asks for one event at a time.
UpdateInterests(s, interests) ==
  /\ s \in Open
  /\ FileHandleUpdateInterests(streams[s].handle, interests)
  /\ streams' = [streams EXCEPT ![s].interests = interests]
  /\ UNCHANGED <<listener, numTCPStreams>>

\* Mutant: the listener goes back on duty when the last stream is closed.
AfterClose_Empty(num) == IF num = 0 THEN {"read"} ELSE handle[listener].interests

\* Interests of the listener after a stream has been closed
AfterClose(num) == IF maxTCPStreams - num = 1 THEN {"read"} ELSE handle[listener].interests

\* HAPPlatformTCPStreamClose. The handle is deregistered while any callback may be running,
\* its own too.
Close(s) ==
  LET h == streams[s].handle
  IN  /\ MayCall /\ s \in Open
      /\ cursor' = CursorPast(h)
      /\ handles' = Without(handles, Position(handles, h))
      /\ handle' = [g \in Handles |->
                      IF g = h THEN Freed
                      ELSE IF g = listener
                      THEN [handle[g] EXCEPT !.interests = AfterClose(numTCPStreams - 1)]
                      ELSE handle[g]]
      /\ polled' = polled \ {h}
      /\ streams' = [streams EXCEPT ![s] = InitializeTCPStream]
      /\ numTCPStreams' = numTCPStreams - 1
      /\ UNCHANGED <<listener, loopVars, timerVars, now, running>>

Manager ==
  \/ OpenListener \/ CloseListener \/ Accept
  \/ \E s \in Slots, event \in Events : UpdateInterests(s, {event})
  \/ \E s \in Slots : Close(s)

ManagerNext == Manager \/ ((Run \/ Loop) /\ UNCHANGED managerVars)

ManagerSpec == ManagerInit /\ [][ManagerNext]_allVars

-----------------------------------------------------------------------------
(* Properties. *)

\* No client is kept waiting, and no wake-up is wasted: the listener is on duty exactly while
\* there is a stream left, however streams come and go inside the callbacks; the count is
\* right, and each handle of the run loop belongs to one stream, or the listener, which has the
\* interests its owner asked for (the assertions of HandleTCPStreamFileHandleCallback).
StreamsServed ==
  /\ numTCPStreams = Cardinality(Open)
  /\ listener # None =>
       handle[listener].interests = (IF numTCPStreams < maxTCPStreams THEN {"read"} ELSE {})
  /\ \A s \in Open : handle[streams[s].handle].interests = streams[s].interests
  /\ \A s, t \in Open : streams[s].handle = streams[t].handle => s = t
  /\ Elements(handles) =
       {streams[s].handle : s \in Open} \cup (IF listener = None THEN {} ELSE {listener})
  /\ listener \notin {streams[s].handle : s \in Open}

=============================================================================
