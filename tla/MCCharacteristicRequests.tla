---------------------- MODULE MCCharacteristicRequests ----------------------
(* Two sessions; a timed-write switch, an admin's number, a text and a TLV8    *)
(* with write response, and a sensor.                                          *)
EXTENDS CharacteristicRequests

MCMaxOf == [f \in {"UInt8", "UInt16", "UInt32", "UInt64", "Int"} |->
              CASE f = "UInt8" -> 3 [] f = "UInt16" -> 7 [] f = "Int" -> 7 [] OTHER -> 15]

Base == [type |-> "other", props |-> {"pr", "pw"}, min |-> 0, max |-> 0, step |-> 0, maxLen |-> 0,
         values |-> {}, ranges |-> {}]
Lock == [Base EXCEPT !.props = {"pr", "pw", "tw"}] @@ [format |-> "Bool"]
Level == [Base EXCEPT !.props = {"pr", "pw", "ar", "aw", "ev"}, !.max = 7, !.step = 3] @@ [format |-> "Int"]
Dial == [Base EXCEPT !.max = 20, !.step = 10] @@ [format |-> "Float"]
Name == [Base EXCEPT !.props = {"pw", "wr"}, !.maxLen = 2] @@ [format |-> "String"]
Blob == [Base EXCEPT !.props = {"pr", "pw", "wr"}, !.maxLen = 3] @@ [format |-> "Data"]
Config == [Base EXCEPT !.props = {"pr", "pw", "ev"}] @@ [format |-> "TLV8"]
Button == [Base EXCEPT !.props = {"pr", "ev"}, !.type = "ProgrammableSwitchEvent"] @@ [format |-> "UInt8"]
Fan == [Base EXCEPT !.max = 3, !.values = {1}, !.ranges = {<<2, 2>>}] @@ [format |-> "UInt8"]

MCDb == (<<"1", "lock">> :> Lock) @@ (<<"1", "level">> :> Level) @@ (<<"1", "dial">> :> Dial)
        @@ (<<"1", "name">> :> Name) @@ (<<"1", "blob">> :> Blob) @@ (<<"1", "config">> :> Config)
        @@ (<<"1", "button">> :> Button) @@ (<<"1", "fan">> :> Fan)
MCValues == [id \in DOMAIN MCDb |->
               CASE MCDb[id].format = "Bool" -> {TRUE}
                 [] MCDb[id].format = "TLV8" -> {<<"a">>}
                 [] MCDb[id].format \in Texts -> {<<>>, <<"a", "b">>}
                 [] OTHER -> {1}]

M(name, value) == [name |-> name, value |-> value]
U(n) == [type |-> "UInt", n |-> n]
F(n) == [type |-> "Float", n |-> n]
S(s) == [type |-> "String", s |-> s, base64 |-> TRUE]
Put(iid, members) == <<M("aid", "1"), M("iid", iid)>> \o members
V(v) == <<M("value", v)>>
R == <<M("r", "1")>>
Ev(x) == <<M("ev", x)>>
Body(objects) == <<M("characteristics", objects)>>
Pid(p) == <<M("pid", p)>>

MCPreparations == {<<M("ttl", "0"), M("pid", "p")>>, <<M("ttl", "1"), M("pid", "q")>>, <<M("ttl", Bad), M("pid", "p")>>}
MCNumber == ("0" :> 0) @@ ("1" :> 1)

MCWrites ==
  {Body(<<Put("lock", V(U(1))), Put("lock", V(U(0)))>>) \o Pid("p"),
   Pid("q") \o Body(<<Put("lock", V(U(1)))>>),
   Body(<<Put("lock", V(U(1))), Put("none", V(U(1)))>>),
   Body(<<Put("name", V(S(<<"b", "c">>)) \o R), Put("blob", V(S(<<"d">>)) \o R)>>),
   Body(<<Put("blob", V(S(<<"b", "c", "d">>)) \o R), Put("blob", V(U(1))), Put("name", V(S(<<"e">>)))>>),
   Body(<<Put("level", V(U(3))), Put("level", V(U(5)) \o Ev("1")), Put("level", Ev("0"))>>),
   Body(<<Put("dial", V(U(1)) \o R), Put("dial", V(F(11))), Put("fan", V(U(2)))>>),
   Body(<<Put("config", V(U(1))), Put("config", V(S(<<"b">>))), Put("button", Ev("1")), Put("config", Ev("1"))>>),
   Body(<<Put("fan", <<>>), Put("fan", V(U(3))), Put("button", V(U(1))), Put("fan", V(U(1)) \o <<M("authData", "garbled")>>)>>),
   Body(<<>>), Pid("p"), Body(<<<<M("aid", "1")>>>>),
   Body(<<Put("fan", V(U(1))), Put("fan", V(U(1))), Put("fan", V(U(1))), Put("fan", V(U(1))), Put("fan", V(U(1)))>>)}

MCReads ==
  {<<M("id", <<<<"1", "name">>, <<"1", "blob">>, <<"1", "config">>, <<"1", "button">>>>), M("ev", "1")>>,
   <<M("id", <<<<"1", "level">>, <<"1", "none">>, <<"1", "dial">>>>)>>,
   <<M("meta", "2")>>, <<M("#", "")>>,
   <<M("id", [i \in 1 .. 5 |-> <<"1", "fan">>])>>}

Symmetry == Permutations(Sessions)

\* One controller that asks for a value, for a subscription and for a response.
PlainWrites == {Body(<<Put("config", V(U(1)))>>), Body(<<Put("lock", V(U(1)))>>) \o Pid("p"),
                Body(<<Put("name", V(S(<<"b">>)) \o Ev("1"))>>), Body(<<Put("fan", V(U(2)))>>)}
=============================================================================
