------------------------------- MODULE RunLoop -------------------------------
(***************************************************************************)
(* The run loop of the POSIX platform, PAL/POSIX/HAPPlatformRunLoop.c: one *)
(* list of file handles, one list of timers sorted by deadline, and a loop *)
(* that waits in select, fires the timers that have expired, and calls the *)
(* file handles that were found ready.                                     *)
(*                                                                         *)
(* Both lists are walked while the callbacks change them: between the call *)
(* of a callback and its Return, it may register and deregister any handle *)
(* and any timer. Handles and timers are heap addresses, which the next    *)
(* registration may get again.                                             *)
(***************************************************************************)
EXTENDS Integers, Sequences, FiniteSets

CONSTANTS
  Handles,    \* addresses of file handles
  Fds,        \* file descriptors
  Events,     \* "read", "write", "error"
  Timers,     \* addresses of timers
  Deadlines,  \* deadlines that timers are registered with
  MaxTime,    \* bound on the clock
  None        \* no callback, no descriptor; also the end of the list of handles

ASSUME RunLoopAssumption ==
  /\ Deadlines \subseteq Nat
  /\ MaxTime \in Nat
  /\ None \notin Handles \cup Timers \cup Fds
  /\ Handles \cap Timers = {}

VARIABLES
  state,     \* runLoop.state
  phase,     \* where HAPPlatformRunLoopRun is
  handles,   \* the list of file handles
  handle,    \* their descriptor, interests and isAwaitingEvents
  cursor,    \* runLoop.fileHandleCursor, None for the sentinel
  selected,  \* the descriptor sets filled in by select
  timers,    \* the list of timers; asked is history: the deadline in the call of TimerRegister
  now,       \* the clock
  passNow,   \* the time ProcessExpiredTimers started at
  running,   \* the handle or timer whose callback runs
  polled,    \* history: handles registered since before select
  earlier    \* history: pairs of timers in the order of registration

loopVars   == <<state, phase, selected, passNow>>
handleVars == <<handles, handle, cursor, polled>>
timerVars  == <<timers, earlier>>
vars == <<loopVars, handleVars, timerVars, now, running>>

-----------------------------------------------------------------------------
(* The lists. *)

Elements(seq) == {seq[i] : i \in DOMAIN seq}

Without(seq, k) ==
  [i \in 1..(Len(seq) - 1) |-> IF i < k THEN seq[i] ELSE seq[i + 1]]

InsertedAt(seq, k, e) ==
  [i \in 1..(Len(seq) + 1) |->
     IF i < k THEN seq[i] ELSE IF i = k THEN e ELSE seq[i - 1]]

Position(seq, e) == CHOOSE i \in DOMAIN seq : seq[i] = e

\* Successor of handle h; the list is circular through its sentinel.
NextOf(h) ==
  LET k == Position(handles, h)
  IN  IF k = Len(handles) THEN None ELSE handles[k + 1]

FirstHandle == IF handles = <<>> THEN None ELSE handles[1]

Registered == {timers[i].timer : i \in DOMAIN timers}

Freed == [fd |-> None, interests |-> {}, awaiting |-> FALSE]

Init ==
  /\ state = "Idle" /\ phase = "out"
  /\ handles = <<>> /\ cursor = None
  /\ handle = [h \in Handles |-> Freed]
  /\ selected = [f \in Fds |-> {}]
  /\ timers = <<>> /\ earlier = {}
  /\ now = 0 /\ passNow = 0
  /\ running = None
  /\ polled = {}

-----------------------------------------------------------------------------
(* What a callback, or the application before and after the loop, calls. *)

MayCall == running # None \/ state = "Idle"

\* Mutant: the new handle counts as selected.
FileHandleRegister_Awaiting(h, f, interests) ==
  /\ MayCall
  /\ h \notin Elements(handles)
  /\ \A g \in Elements(handles) : handle[g].fd # f
  /\ handles' = Append(handles, h)
  /\ handle' = [handle EXCEPT ![h] = [fd |-> f, interests |-> interests, awaiting |-> TRUE]]
  /\ UNCHANGED <<loopVars, cursor, polled, timerVars, now, running>>

\* A descriptor is registered at most once (HAPPlatformFileHandle.h). The handle
\* goes to the end of the list.
FileHandleRegister(h, f, interests) ==
  /\ MayCall
  /\ h \notin Elements(handles)
  /\ \A g \in Elements(handles) : handle[g].fd # f
  /\ handles' = Append(handles, h)
  /\ handle' = [handle EXCEPT ![h] = [fd |-> f, interests |-> interests, awaiting |-> FALSE]]
  /\ UNCHANGED <<loopVars, cursor, polled, timerVars, now, running>>

FileHandleUpdateInterests(h, interests) ==
  /\ MayCall
  /\ h \in Elements(handles)
  /\ handle' = [handle EXCEPT ![h].interests = interests]
  /\ UNCHANGED <<loopVars, handles, cursor, polled, timerVars, now, running>>

\* Mutant: the cursor keeps pointing to the handle that is freed.
CursorPast_Dangling(h) == cursor

\* Mutant: the cursor moves on whatever handle goes.
CursorPast_Always(h) == IF cursor = None THEN None ELSE NextOf(cursor)

CursorPast(h) == IF h = cursor THEN NextOf(h) ELSE cursor

\* Mutant: the freed handle stays in the list.
FileHandleDeregister_Linked(h) ==
  /\ MayCall
  /\ h \in Elements(handles)
  /\ cursor' = CursorPast(h)
  /\ handle' = [handle EXCEPT ![h] = Freed]
  /\ polled' = polled \ {h}
  /\ UNCHANGED <<loopVars, handles, timerVars, now, running>>

FileHandleDeregister(h) ==
  /\ MayCall
  /\ h \in Elements(handles)
  /\ cursor' = CursorPast(h)
  /\ handles' = Without(handles, Position(handles, h))
  /\ handle' = [handle EXCEPT ![h] = Freed]
  /\ polled' = polled \ {h}
  /\ UNCHANGED <<loopVars, timerVars, now, running>>

\* Mutant: a timer with the same deadline is overtaken.
IsSlot_First(k, d) ==
  /\ \A i \in 1..(k - 1) : timers[i].deadline < d
  /\ k <= Len(timers) => timers[k].deadline >= d

\* A timer with deadline d is inserted at k: before the first later one.
IsSlot(k, d) ==
  /\ \A i \in 1..(k - 1) : timers[i].deadline <= d
  /\ k <= Len(timers) => timers[k].deadline > d

\* Deadline 0 is stored as 1, but it is the 0 that is compared. The timer whose
\* callback is running is freed only afterwards.
TimerRegister(t, d) ==
  /\ MayCall
  /\ t \notin Registered \cup {running}
  /\ \E k \in 1..(Len(timers) + 1) :
       /\ IsSlot(k, d)
       /\ timers' = InsertedAt(timers, k, [timer |-> t, deadline |-> IF d = 0 THEN 1 ELSE d, asked |-> d])
  /\ earlier' = earlier \cup {<<u, t>> : u \in Registered}
  /\ UNCHANGED <<loopVars, handleVars, now, running>>

\* Drops timer t from the order of registration.
Forget(t) == {p \in earlier : p[1] # t /\ p[2] # t}

\* A timer that is not in the list would be fatal.
TimerDeregister(t) ==
  /\ MayCall
  /\ \E k \in DOMAIN timers : timers[k].timer = t /\ timers' = Without(timers, k)
  /\ earlier' = Forget(t)
  /\ UNCHANGED <<loopVars, handleVars, now, running>>

RunLoopStop ==
  /\ running # None /\ state = "Running"
  /\ state' = "Stopping"
  /\ UNCHANGED <<phase, selected, passNow, handleVars, timerVars, now, running>>

-----------------------------------------------------------------------------
(* HAPPlatformRunLoopRun *)

Run ==
  /\ state = "Idle"
  /\ state' = "Running" /\ phase' = "select"
  /\ UNCHANGED <<selected, passNow, handleVars, timerVars, now, running>>

\* Interests that select is called with for descriptor f.
Watched(f) == UNION {handle[h].interests : h \in {g \in Elements(handles) : handle[g].fd = f}}

\* The first timer has expired.
Expired(time) == timers # <<>> /\ timers[1].deadline <= time

\* Mutant: timers wait for a round in which no handle is ready.
AfterSelect_Handles(ready) == IF \E f \in Fds : ready[f] # {} THEN "handles" ELSE "timers"

AfterSelect(ready) == "timers"

\* One call of select. An interrupted one (EINTR) is repeated.
Select ==
  /\ phase = "select"
  /\ \E ready \in [Fds -> SUBSET Events] :
       /\ \A f \in Fds : ready[f] \subseteq Watched(f)
       /\ Expired(now) \/ \E f \in Fds : ready[f] # {}
       /\ selected' = ready
       /\ phase' = AfterSelect(ready)
  /\ handle' = [h \in Handles |->
                  IF h \in Elements(handles)
                  THEN [handle[h] EXCEPT !.awaiting = (handle[h].interests # {})]
                  ELSE handle[h]]
  /\ polled' = Elements(handles)
  /\ passNow' = now
  /\ UNCHANGED <<state, handles, cursor, timerVars, now, running>>

\* One turn of ProcessExpiredTimers.
FireTimer ==
  /\ phase = "timers" /\ running = None
  /\ Expired(passNow)
  /\ running' = timers[1].timer
  /\ timers' = Without(timers, 1)
  /\ earlier' = Forget(timers[1].timer)
  /\ UNCHANGED <<loopVars, handleVars, now>>

TimersDone ==
  /\ phase = "timers" /\ running = None
  /\ ~Expired(passNow)
  /\ phase' = "handles"
  /\ cursor' = FirstHandle
  /\ UNCHANGED <<state, selected, passNow, handles, handle, polled, timerVars, now, running>>

\* Mutant: the descriptor sets decide, whether or not the handle was there.
Called_Selected(h) == handle[h].interests \cap selected[handle[h].fd] # {}

\* The callback of h is due: h was handed to select, and one of the events it is
\* still interested in occurred.
Called(h) == handle[h].awaiting /\ handle[h].interests \cap selected[handle[h].fd] # {}

\* One turn of ProcessSelectedFileHandles.
VisitHandle ==
  /\ phase = "handles" /\ running = None
  /\ cursor # None
  /\ cursor' = NextOf(cursor)
  /\ handle' = [handle EXCEPT ![cursor].awaiting = FALSE]
  /\ running' = IF Called(cursor) THEN cursor ELSE None
  /\ UNCHANGED <<loopVars, handles, polled, timerVars, now>>

PassDone ==
  /\ phase = "handles" /\ running = None
  /\ cursor = None
  /\ IF state = "Running"
     THEN phase' = "select" /\ UNCHANGED state
     ELSE phase' = "out" /\ state' = "Idle"
  /\ UNCHANGED <<selected, passNow, handleVars, timerVars, now, running>>

\* The callback that is running returns; a timer is freed.
Return ==
  /\ running # None
  /\ running' = None
  /\ UNCHANGED <<loopVars, handleVars, timerVars, now>>

Tick ==
  /\ now < MaxTime
  /\ now' = now + 1
  /\ UNCHANGED <<loopVars, handleVars, timerVars, running>>

Calls ==
  \/ \E h \in Handles, f \in Fds, i \in SUBSET Events : FileHandleRegister(h, f, i)
  \/ \E h \in Handles, i \in SUBSET Events : FileHandleUpdateInterests(h, i)
  \/ \E h \in Handles : FileHandleDeregister(h)
  \/ \E t \in Timers, d \in Deadlines : TimerRegister(t, d)
  \/ \E t \in Timers : TimerDeregister(t)
  \/ RunLoopStop

Loop == Select \/ FireTimer \/ TimersDone \/ VisitHandle \/ PassDone \/ Return

Next == Calls \/ Run \/ Loop \/ Tick

Spec == Init /\ [][Next]_vars

\* The loop goes on, callbacks return, time passes. What callbacks do and which
\* descriptors become ready is up to the environment.
Fairness == WF_vars(Loop) /\ WF_vars(Tick)

FairSpec == Spec /\ Fairness

-----------------------------------------------------------------------------
(* Properties. *)

\* Every variable has its type; no address and no descriptor is twice in a list, and
\* only the handles of the list have a descriptor.
TypeOK ==
  /\ state \in {"Idle", "Running", "Stopping"}
  /\ phase \in {"out", "select", "timers", "handles"}
  /\ (state = "Idle") = (phase = "out")
  /\ handles \in Seq(Handles)
  /\ \A i, j \in DOMAIN handles : handles[i] = handles[j] => i = j
  /\ handle \in [Handles -> [fd : Fds \cup {None}, interests : SUBSET Events, awaiting : BOOLEAN]]
  /\ \A h \in Handles : (h \in Elements(handles)) = (handle[h].fd # None)
  /\ \A g, h \in Elements(handles) : handle[g].fd = handle[h].fd => g = h
  /\ cursor \in Handles \cup {None}
  /\ selected \in [Fds -> SUBSET Events]
  /\ timers \in Seq([timer : Timers, deadline : Nat, asked : Nat])
  /\ \A i, j \in DOMAIN timers : timers[i].timer = timers[j].timer => i = j
  /\ earlier \subseteq Timers \X Timers
  /\ now \in 0..MaxTime /\ passNow \in 0..now
  /\ running \in Handles \cup Timers \cup {None}
  /\ polled \subseteq Handles

\* The cursor never points to a handle that was freed, although any callback may
\* free the handle it points to; it stands on the sentinel between the passes
\* (HAPPlatformFileHandleDeregister, ProcessSelectedFileHandles).
CursorIsLive ==
  cursor # None => phase = "handles" /\ cursor \in Elements(handles)

\* No handle is passed over: whatever the callbacks add and remove, when the pass
\* is at its end no handle still waits for the events it was selected for, and
\* during the pass only those from the cursor on do.
NoneSkipped ==
  phase = "handles" =>
    \A i \in DOMAIN handles :
      handle[handles[i]].awaiting =>
        cursor # None /\ Position(handles, cursor) <= i

\* The walk over the file handles survives whatever the callbacks add and remove.
PassIsSound == CursorIsLive /\ NoneSkipped

\* A handle is called only for events it was handed to select with: not if it was
\* registered after that, although its descriptor, or its address, may be the one
\* of a handle that was found ready (isAwaitingEvents).
CalledWasPolled ==
  [][\A h \in Handles : running' = h /\ running # h => h \in polled]_vars

\* Which of two registered timers fires first: the one with the earlier deadline; of two
\* with the same deadline the one that was registered first, but with deadline 0 the one
\* that was registered last, as the 0 is less than the 1 that is stored for the others.
FiresBefore(r, q) ==
  \/ r.asked < q.asked
  \/ r.asked = q.asked /\ r.asked > 0 /\ <<r.timer, q.timer>> \in earlier
  \/ r.asked = q.asked /\ r.asked = 0 /\ <<q.timer, r.timer>> \in earlier

\* Timers never fire early, and they fire in ascending order of the deadlines they were
\* registered with. Timers registered with the same deadline fire in the order of
\* registration if that deadline is not 0. Those registered with deadline 0 fire before
\* all others, the last registered first (HAPPlatformTimerRegister, ProcessExpiredTimers).
TimersFireInOrder ==
  [][\A k \in DOMAIN timers :
       running' = timers[k].timer =>
         /\ timers[k].deadline <= now
         /\ \A j \in DOMAIN timers \ {k} : FiresBefore(timers[k], timers[j])]_vars

\* What HAPPlatformTimer.h promises: "Timers fire in ascending order of their deadlines.
\* Timers registered with the same deadline fire in order of registration", whatever the
\* deadline. The comment on the search condition in HAPPlatformTimerRegister repeats it.
TimersFireAsPromised ==
  [][\A k \in DOMAIN timers :
       running' = timers[k].timer =>
         \A j \in DOMAIN timers \ {k} :
           \/ timers[k].asked < timers[j].asked
           \/ timers[k].asked = timers[j].asked /\ <<timers[k].timer, timers[j].timer>> \in earlier]_vars

\* A timer fires or is deregistered, however many handles are ready, as long as the
\* callbacks do not go on registering timers that have expired already: those are
\* served before the loop comes back to select (ProcessExpiredTimers).
TimerFires ==
  []<>(phase = "select") => \A t \in Timers : (t \in Registered) ~> (t \notin Registered)

=============================================================================
