----------------------- MODULE CharacteristicRequests -----------------------
(* Reading, writing and subscribing to characteristics over secured IP         *)
(* sessions: /prepare, PUT and GET /characteristics of                         *)
(* HAP/HAPIPAccessoryServer.c, on top of the request parsers and the handlers  *)
(* of characteristics.  A request is handled in one turn of the run loop; its  *)
(* contexts are one step each, because the application answers each of them.   *)
EXTENDS IPAccessoryProtocol

CONSTANTS
  Sessions,       \* secured IP sessions
  Db,             \* the characteristics, by <<aid, iid>>
  Values,         \* the values the application may answer for each
  Answers,        \* the errors its handlers may return, and "None"
  Preparations,   \* bodies of PUT /prepare
  Writes,         \* bodies of PUT /characteristics
  Reads,          \* queries of GET /characteristics
  Number,         \* the number a decimal text stands for
  MaxTime,        \* the clock ends here (UINT64_MAX)
  MaxSubscriptions, MaxContexts, MaxText, DataBytes

ASSUME DbAssumption ==
  /\ \A id \in DOMAIN Db : CharacteristicIsValid(Db[id])
  /\ Answers \subseteq WriteErrors \cup {"None"}
  /\ MaxTime \in Nat /\ MaxSubscriptions \in Nat /\ DataBytes \in Nat

\* What the validated database, the application and the parsers give: limits are numbers, texts
\* have a length, a time to live is a number, and the contexts of a request are a sequence.
\* (What a parser returns is a fold over the body: this follows from its definition for bodies
\* whose values are of the JSON type they name.)
IsSequence(q) == Len(q) \in Nat /\ q = [k \in 1 .. Len(q) |-> q[k]]
Numeric(c) == c.format \in {"UInt8", "UInt16", "UInt32", "UInt64", "Int", "Float"}
IsJSONValue(v) == /\ v.type \in {"UInt", "Int", "Float"} => v.n \in Int
                  /\ v.type = "String" => Len(v.s) \in Nat

ASSUME TypesAssumption ==
  /\ \A id \in DOMAIN Db :
       /\ Db[id].format \in Formats
       /\ Numeric(Db[id]) => Db[id].min \in Int /\ Db[id].max \in Int /\ Db[id].step \in Nat
       /\ Db[id].format \in Texts => \A v \in Values[id] : Len(v) \in Nat
  /\ \A body \in Preparations :
       LET p == WritePreparation(body) IN p.err = "none" => Number[p.ttl] \in Nat
  /\ \A body \in Writes :
       LET r == WriteRequests(body, MaxContexts)
       IN  r.err = "none" => /\ IsSequence(r.writes)
                             /\ \A i \in DOMAIN r.writes : /\ DOMAIN r.writes[i] = DOMAIN EmptyWrite
                                                           /\ IsJSONValue(r.writes[i].value)
  /\ \A query \in Reads :
       LET r == ReadRequests(query, MaxContexts) IN r.err = "none" => IsSequence(r.ids)

VARIABLES
  now,        \* the clock
  admin,      \* whether the controller of a session is an admin
  timed,      \* the timed write a session has prepared: when it expires, or 0, and its PID
  subs,       \* what a session is subscribed to
  request,    \* the request being handled
  position,   \* the part of the data buffer in use
  owner,      \* which context wrote a byte of the data buffer last
  granted     \* history: the last timed write a session was granted

vars == <<now, admin, timed, subs, request, position, owner, granted>>

Success == "0"
InsufficientPrivileges == "-70401"
UnableToPerformOperation == "-70402"
ResourceIsBusy == "-70403"
WriteToReadOnlyCharacteristic == "-70404"
ReadFromWriteOnlyCharacteristic == "-70405"
NotificationNotSupported == "-70406"
StatusOutOfResources == "-70407"
ResourceDoesNotExist == "-70409"
InvalidValueInWrite == "-70410"
InsufficientAuthorization == "-70411"

\* ConvertCharacteristicWriteErrorToStatusCode and its counterpart for reads
ToStatusCode(err) ==
  CASE err = "None" -> Success
    [] err \in {"Unknown", "InvalidState"} -> UnableToPerformOperation
    [] err = "InvalidData" -> InvalidValueInWrite
    [] err = "OutOfResources" -> StatusOutOfResources
    [] err = "NotAuthorized" -> InsufficientAuthorization
    [] err = "Busy" -> ResourceIsBusy

\* f, with the fields of g that it does not have
Upon(f, g) == [x \in DOMAIN f \cup DOMAIN g |-> IF x \in DOMAIN f THEN f[x] ELSE g[x]]

Idle == [kind |-> "none"]
NotPrepared == [expires |-> 0, pid |-> "none"]
NotGranted == [pid |-> "none", until |-> 0, executed |-> 0]

Init ==
  /\ now = 1
  /\ admin \in [Sessions -> BOOLEAN]
  /\ timed = [s \in Sessions |-> NotPrepared]
  /\ subs = [s \in Sessions |-> {}]
  /\ request = Idle
  /\ position = 0
  /\ owner = [b \in 1 .. DataBytes |-> 0]
  /\ granted = [s \in Sessions |-> NotGranted]

Handling(kind, s, contexts) ==
  [kind |-> kind, session |-> s, contexts |-> contexts, next |-> 1, calls |-> <<>>,
   at |-> now, pid |-> "none"]
ClearBuffer == position' = 0 /\ owner' = [b \in 1 .. DataBytes |-> 0]

------------------------------------------------------------------------------
\* put_prepare.  A later preparation replaces an earlier one.
PutPrepare(s) ==
  \E body \in Preparations :
    LET p == WritePreparation(body)
    IN  /\ request.kind = "none"
        /\ IF p.err # "none"
           THEN UNCHANGED <<timed, granted>>
           ELSE LET until == now + Number[p.ttl]
                IN  /\ timed' = [timed EXCEPT ![s] =
                          [expires |-> IF until > MaxTime THEN MaxTime ELSE until, pid |-> p.pid]]
                    /\ granted' = [granted EXCEPT ![s] = [pid |-> p.pid, until |-> until, executed |-> 0]]
        /\ UNCHANGED <<now, admin, subs, request, position, owner>>

\* Mutant: a prepared transaction survives its execution.
ResetTimedWrite_Never(s, pid) == UNCHANGED timed

\* The transaction is over once a request has named a PID, whatever became of it.
ResetTimedWrite(s, pid) ==
  timed' = IF timed[s].expires # 0 /\ pid # "none" THEN [timed EXCEPT ![s] = NotPrepared] ELSE timed

MayExecute(s, pid) ==
  timed[s].expires # 0 /\ timed[s].expires >= now /\ timed[s].pid = pid

\* put_characteristics, up to the handling of the contexts
PutCharacteristics(s) ==
  \E body \in Writes :
    LET r == WriteRequests(body, MaxContexts)
    IN  /\ request.kind = "none"
        /\ \/ /\ r.err # "none"
              /\ UNCHANGED <<timed, request, position, owner>>
           \/ /\ r.err = "none" /\ ((r.pid # "none" /\ ~MayExecute(s, r.pid)) \/ r.writes = <<>>)
              /\ ResetTimedWrite(s, r.pid)
              /\ UNCHANGED <<request, position, owner>>
           \/ /\ r.err = "none" /\ (r.pid # "none" => MayExecute(s, r.pid)) /\ r.writes # <<>>
              /\ request' = [Handling("write", s, [i \in DOMAIN r.writes |-> Upon([asked |-> r.writes[i].value], r.writes[i])])
                            EXCEPT !.pid = r.pid]
              /\ ClearBuffer
              /\ UNCHANGED timed
        /\ UNCHANGED <<now, admin, subs, granted>>

\* get_characteristics, likewise
GetCharacteristics(s) ==
  \E query \in Reads :
    LET r == ReadRequests(query, MaxContexts)
        contexts == [i \in DOMAIN r.ids |-> [aid |-> r.ids[i][1], iid |-> r.ids[i][2]]]
    IN  /\ request.kind = "none"
        /\ \/ /\ r.err # "none" \/ r.ids = <<>>
              /\ UNCHANGED <<request, position, owner>>
           \/ /\ r.err = "none" /\ r.ids # <<>>
              /\ request' = Handling("read", s, contexts)
              /\ ClearBuffer
        /\ UNCHANGED <<now, admin, timed, subs, granted>>

------------------------------------------------------------------------------
\* handle_characteristic_read_request.  The value of a text is put into the data buffer
\* behind what is in use, encoded as base64 unless it is a string.
Encoded(n) == 4 * ((n + 2) \div 3)
Room(p) == DataBytes - p

ReadOutcome(c, v, err, p) ==
  LET r == HandleRead(c, v, Room(p), err)
      length == IF c.format = "String" THEN Len(r.value) ELSE Encoded(Len(r.value))
  IN  IF r.err # "None" THEN [status |-> ToStatusCode(r.err), position |-> p]
      ELSE IF c.format \notin Texts THEN [status |-> Success, value |-> r.value, read |-> TRUE, position |-> p]
      ELSE IF length >= Room(p) THEN [status |-> StatusOutOfResources, position |-> p]
      ELSE [status |-> Success, value |-> r.value, read |-> TRUE, position |-> p + length + 1]

\* The application may use all the room it is given.
Scribbled(p, n) == [b \in DOMAIN owner |-> IF b \in p + 1 .. p + n THEN request.next ELSE owner[b]]

\* handle_characteristic_read_requests, for one context
Readable(s, id) ==
  IF id \notin DOMAIN Db THEN ResourceDoesNotExist
  ELSE IF ReadRequiresAdmin(Db[id]) /\ ~admin[s] THEN InsufficientPrivileges
  ELSE IF "pr" \notin Db[id].props THEN ReadFromWriteOnlyCharacteristic
  ELSE Success

Settled(i, outcome) ==
  request' = [request EXCEPT !.next = i + 1, !.contexts[i] = Upon(outcome, @)]

ReadNext ==
  LET s == request.session
      i == request.next
      id == <<request.contexts[i].aid, request.contexts[i].iid>>
      ev == [ev |-> id \in subs[s]]
  IN  /\ request.kind = "read" /\ i <= Len(request.contexts)
      /\ \/ /\ Readable(s, id) # Success
            /\ Settled(i, Upon([status |-> Readable(s, id)], ev))
            /\ UNCHANGED <<position, owner>>
         \/ /\ Readable(s, id) = Success /\ IsSwitchEvent(Db[id])
            /\ Settled(i, Upon([status |-> Success, value |-> 0], ev))
            /\ UNCHANGED <<position, owner>>
         \/ /\ Readable(s, id) = Success /\ ~IsSwitchEvent(Db[id])
            /\ \E err \in Answers \ {"InvalidData", "NotAuthorized"}, v \in Values[id] :
                 LET o == ReadOutcome(Db[id], v, err, position)
                 IN  /\ Settled(i, Upon(o, [ev |-> id \in subs[s], start |-> position]))
                     /\ position' = o.position
                     /\ owner' = IF Db[id].format \in Texts THEN Scribbled(position, Room(position)) ELSE owner
      /\ UNCHANGED <<now, admin, timed, subs, granted>>

------------------------------------------------------------------------------
\* What the JSON value of a request is to the handler of a characteristic.
Passed(v) == [status |-> Success, value |-> v]
NotPassed(status) == [status |-> status]

UIntArgument(v, max) ==
  IF v.type = "UInt" /\ v.n <= max THEN Passed(v.n) ELSE NotPassed(InvalidValueInWrite)
BoolArgument(v) ==
  IF v.type = "UInt" /\ v.n <= 1 THEN Passed(v.n = 1) ELSE NotPassed(InvalidValueInWrite)
IntArgument(v) ==
  IF v.type = "Int" \/ (v.type = "UInt" /\ v.n <= MaxOf["Int"])
  THEN Passed(v.n) ELSE NotPassed(InvalidValueInWrite)
FloatArgument(v) == CASE v.type = "Float" -> Passed(v.n)
                      [] v.type \in {"Int", "UInt"} -> Passed(v.n * Grid)
                      [] OTHER -> NotPassed(InvalidValueInWrite)
StringArgument(v, room) ==
  IF v.type # "String" \/ Len(v.s) > MaxText THEN NotPassed(InvalidValueInWrite)
  ELSE IF Len(v.s) >= room THEN NotPassed(StatusOutOfResources) ELSE Passed(v.s)
\* Mutant: the else branch of the TLV8 case is missing here, too.
DataArgument_NoElse(v) ==
  IF v.type # "String" THEN NotPassed(Success)
  ELSE IF v.base64 THEN Passed(v.s) ELSE NotPassed(InvalidValueInWrite)

DataArgument(v) ==
  IF v.type = "String" /\ v.base64 THEN Passed(v.s) ELSE NotPassed(InvalidValueInWrite)
\* Nothing happens to a TLV8 whose value is not a string.
TLV8Argument(v) == IF v.type # "String" THEN NotPassed(Success) ELSE DataArgument(v)

Argument(c, v, room) ==
  CASE c.format = "Bool" -> BoolArgument(v)
    [] c.format \in {"UInt8", "UInt16", "UInt32", "UInt64"} -> UIntArgument(v, MaxOf[c.format])
    [] c.format = "Int" -> IntArgument(v)
    [] c.format = "Float" -> FloatArgument(v)
    [] c.format = "String" -> StringArgument(v, room)
    [] c.format = "Data" -> DataArgument(v)
    [] c.format = "TLV8" -> TLV8Argument(v)

\* Mutant: no limit on subscriptions.
EventStatus_NoLimit(s, id, w) ==
  IF ReadRequiresAdmin(Db[id]) /\ ~admin[s] THEN InsufficientPrivileges
  ELSE IF "ev" \notin Db[id].props THEN NotificationNotSupported ELSE Success

\* handle_characteristic_write_request: first the subscription ...
EventStatus(s, id, w) ==
  IF ReadRequiresAdmin(Db[id]) /\ ~admin[s] THEN InsufficientPrivileges
  ELSE IF "ev" \notin Db[id].props THEN NotificationNotSupported
  ELSE IF w.ev = "enabled" /\ id \notin subs[s] /\ Cardinality(subs[s]) = MaxSubscriptions
       THEN StatusOutOfResources
  ELSE Success

Subscribe(s, id, w) ==
  subs' = IF w.ev = "undefined" \/ EventStatus(s, id, w) # Success THEN subs
          ELSE [subs EXCEPT ![s] = IF w.ev = "enabled" THEN @ \cup {id} ELSE @ \ {id}]

\* Mutant: only the permission to read is looked at.
Writable_ReadOnly(s, c, w) ==
  IF ~admin[s] /\ ReadRequiresAdmin(c) /\ ("wr" \in c.props \/ w.response) THEN InsufficientPrivileges
  ELSE IF "pw" \notin c.props THEN WriteToReadOnlyCharacteristic
  ELSE IF w.auth = "garbled" THEN InvalidValueInWrite ELSE Success

\* ... then the value, whose status replaces that of the subscription.
Writable(s, c, w) ==
  IF /\ ~admin[s]
     /\ \/ WriteRequiresAdmin(c)
        \/ ("wr" \in c.props \/ w.response) /\ ReadRequiresAdmin(c)
  THEN InsufficientPrivileges
  ELSE IF "pw" \notin c.props THEN WriteToReadOnlyCharacteristic
  ELSE IF w.auth = "garbled" THEN InvalidValueInWrite
  ELSE Success

\* Mutant: the data buffer is always restored after the read.
FollowUp_Restores(c, w, v, err, p) ==
  IF "wr" \in c.props THEN [ReadOutcome(c, v, err, p) EXCEPT !.position = p]
  ELSE [status |-> IF w.response THEN ReadFromWriteOnlyCharacteristic ELSE Success, position |-> p]

\* A characteristic with write response is read once it has been written.
FollowUp(c, w, v, err, p) ==
  IF "wr" \in c.props
  THEN LET o == ReadOutcome(c, v, err, p)
       IN  IF o.status = Success /\ ~w.response THEN [status |-> Success, position |-> p] ELSE o
  ELSE [status |-> IF w.response THEN ReadFromWriteOnlyCharacteristic ELSE Success, position |-> p]

WriteValue(s, i, id, w) ==
  LET c == Db[id]
      a == Argument(c, w.value, Room(position))
      copied == IF c.format = "String" /\ "value" \in DOMAIN a THEN Len(a.value) + 1 ELSE 0
  IN  \E err \in Answers, readErr \in Answers \ {"InvalidData", "NotAuthorized"}, v \in Values[id] :
        LET h == HandleWrite(c, a.value, err)
            called == "value" \in DOMAIN a /\ h.called
            status == IF "value" \in DOMAIN a THEN ToStatusCode(h.err) ELSE a.status
            o == FollowUp(c, w, v, readErr, position)
        IN  /\ request' = [request EXCEPT !.next = i + 1,
                 !.contexts[i] = Upon(IF status = Success THEN Upon(o, [start |-> position])
                                       ELSE [status |-> status], @),
                 !.calls = IF called THEN Append(@, [of |-> i, id |-> id,
                                                     err |-> h.err, value |-> h.value]) ELSE @]
            /\ position' = IF status = Success THEN o.position ELSE position
            /\ owner' = IF status = Success /\ "wr" \in c.props /\ c.format \in Texts
                        THEN Scribbled(position, Room(position)) ELSE Scribbled(position, copied)
            /\ granted' = IF ~called \/ "tw" \notin c.props
                              \/ \E k \in DOMAIN request.calls : "tw" \in Db[request.calls[k].id].props
                          THEN granted ELSE [granted EXCEPT ![s].executed = @ + 1]

\* handle_characteristic_write_requests, for one context
TimedWriteMissing(id, w) == "tw" \in Db[id].props /\ w.value # NoValue /\ request.pid = "none"

WriteNext ==
  LET s == request.session
      i == request.next
      w == request.contexts[i]
      id == <<w.aid, w.iid>>
  IN  /\ request.kind = "write" /\ i <= Len(request.contexts)
      /\ \/ /\ id \notin DOMAIN Db
            /\ Settled(i, [status |-> ResourceDoesNotExist])
            /\ UNCHANGED <<subs, position, owner, granted>>
         \/ /\ id \in DOMAIN Db /\ TimedWriteMissing(id, w)
            /\ Settled(i, [status |-> InvalidValueInWrite])
            /\ UNCHANGED <<subs, position, owner, granted>>
         \/ /\ id \in DOMAIN Db /\ ~TimedWriteMissing(id, w) /\ w.value = NoValue
            /\ Subscribe(s, id, w)
            /\ Settled(i, [status |-> IF w.ev = "undefined" THEN InvalidValueInWrite
                                      ELSE EventStatus(s, id, w)])
            /\ UNCHANGED <<position, owner, granted>>
         \/ /\ id \in DOMAIN Db /\ ~TimedWriteMissing(id, w) /\ w.value # NoValue
            /\ Subscribe(s, id, w)
            /\ IF Writable(s, Db[id], w) # Success
               THEN Settled(i, [status |-> Writable(s, Db[id], w)])
                    /\ UNCHANGED <<position, owner, granted>>
               ELSE WriteValue(s, i, id, w)
      /\ UNCHANGED <<now, admin, timed>>

------------------------------------------------------------------------------
\* The response: what its contexts say, if the outbound buffer has room for it (see
\* Composed in IPAccessoryProtocol).
Respond ==
  LET s == request.session
  IN  /\ request.kind # "none" /\ request.next > Len(request.contexts)
      /\ IF request.kind = "write" THEN ResetTimedWrite(s, request.pid) ELSE UNCHANGED timed
      /\ request' = Idle
      /\ ClearBuffer
      /\ UNCHANGED <<now, admin, subs, granted>>

\* Between requests time passes, the permissions of a controller are changed by another
\* one, and a connection is replaced by a new one.
Tick == /\ request.kind = "none" /\ now < MaxTime
        /\ now' = now + 1
        /\ UNCHANGED <<admin, timed, subs, request, position, owner, granted>>

Permit(s) == /\ request.kind = "none"
             /\ admin' = [admin EXCEPT ![s] = ~@]
             /\ UNCHANGED <<now, timed, subs, request, position, owner, granted>>

Reconnect(s) == /\ request.kind = "none"
                /\ timed' = [timed EXCEPT ![s] = NotPrepared]
                /\ subs' = [subs EXCEPT ![s] = {}]
                /\ granted' = [granted EXCEPT ![s] = NotGranted]
                /\ UNCHANGED <<now, admin, request, position, owner>>

Next == \/ \E s \in Sessions : PutPrepare(s) \/ PutCharacteristics(s) \/ GetCharacteristics(s)
        \/ ReadNext \/ WriteNext \/ Respond
        \/ Tick
        \/ \E s \in Sessions : Permit(s) \/ Reconnect(s)

Spec == Init /\ [][Next]_vars

------------------------------------------------------------------------------
\* The calls of write handlers for context i, and whether one of them took its value.
WritesOf(i) == {k \in DOMAIN request.calls : request.calls[k].of = i}
Taken(i) == \E k \in WritesOf(i) : request.calls[k].err = "None"
Handled == IF request.kind = "none" THEN {} ELSE 1 .. request.next - 1
IDOf(i) == <<request.contexts[i].aid, request.contexts[i].iid>>

TypeOK ==
  /\ now \in 1 .. MaxTime
  /\ admin \in [Sessions -> BOOLEAN]
  /\ \A s \in Sessions : timed[s].expires \in 0 .. MaxTime /\ subs[s] \subseteq DOMAIN Db
  /\ \A s \in Sessions : Cardinality(subs[s]) <= MaxSubscriptions
  /\ request.kind \in {"none", "read", "write"}
  /\ position \in 0 .. DataBytes

\* A characteristic that requires timed writes is written only by a session whose own last
\* preparation named the PID of the request, before that preparation expired, and by one
\* request at most: whatever happened to other preparations and requests in between.
TimedWriteGranted ==
  \A i \in Handled : \A k \in WritesOf(i) :
    LET g == granted[request.session]
    IN  "tw" \in Db[request.calls[k].id].props =>
          g.pid = request.pid /\ request.at <= g.until /\ g.executed = 1

\* What the response says of a write is what happened to it: success means the application
\* took the value, and a refusal means it did not.  (A TLV8 written with something other
\* than a string is the exception: the code answers success without calling a handler, against
\* "0 If all writes could be handled successfully" at HAPIPAccessoryServer.c:1293.)
StatusTruthful ==
  request.kind = "write" =>
    \A i \in Handled :
      LET x == request.contexts[i]
      IN  /\ x.status = Success /\ x.asked # NoValue /\ ~(Db[IDOf(i)].format = "TLV8" /\ x.asked.type # "String")
             => Taken(i)
          /\ x.status \in {InsufficientPrivileges, WriteToReadOnlyCharacteristic, ResourceDoesNotExist,
                            InvalidValueInWrite, InsufficientAuthorization} => ~Taken(i)

\* The texts a response refers to are still in the data buffer when it is written: no later
\* context has been given the bytes of an earlier one.
ResponsesIntact ==
  \A i \in Handled :
    LET x == request.contexts[i]
        length == IF Db[IDOf(i)].format = "String" THEN Len(x.value) ELSE Encoded(Len(x.value))
    IN  x.status = Success /\ "start" \in DOMAIN x /\ "read" \in DOMAIN x /\ Db[IDOf(i)].format \in Texts
          => /\ x.start + length < DataBytes
             /\ \A b \in x.start + 1 .. x.start + length : owner[b] = i

\* The application is given only what it may be given: nothing but an admin asks to have
\* written, and numbers within the limits and on the steps of the characteristic.  (The
\* steps of an Int are counted right only if its limits are no further apart than its type
\* is wide, and rounding needs a Float whose maximum is on a step.)
Regular(c) == /\ c.format = "Int" => c.max - c.min <= MaxOf["Int"]
              /\ c.format = "Float" /\ c.step # 0 => (c.max - c.min) % c.step = 0
HandlersGuarded ==
  \A i \in Handled :
    LET c == Db[IDOf(i)]
    IN  /\ \A k \in WritesOf(i) :
             /\ WriteRequiresAdmin(c) => admin[request.session]
             /\ Numeric(c) /\ Regular(c) => InRange(request.calls[k].value, c)
        /\ "read" \in DOMAIN request.contexts[i] /\ ReadRequiresAdmin(c) => admin[request.session]
==============================================================================
