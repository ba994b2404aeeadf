----------------------------- MODULE MCHelpers -----------------------------
EXTENDS Helpers, KacCommands

(* Bytes of 2 bits (Byte is 4) and numbers of 3 of them: -32..31.  With a  *)
(* Precision of 1000 a decimal above 10 loses digits below the scale.      *)
Numbers ==
  [decimal : -4000..4000]
    \cup [buffer : UNION {[1..n -> 0..(Byte - 1)] : n \in 0..(Bytes + 1)}]
    \cup [stored : [type : DateTypes, val : -17..17]]
    \cup [date : [type : DateTypes, ms : -16..16]]
    \cup [time : 0..36]

Maybe(names, values) == UNION {[ns -> values] : ns \in SUBSET names}

Points == [point : [store : {"influx", "datadog"},
                    staticMeta : Maybe({"status", "service"}, {"static"}),
                    tags : {RequestTags(s, r, c) : s \in {"", "api", "undefined"},
                                                   r \in {"", "get"}, c \in {"undefined", "0", "200"}}
                           \cup {ResponseTags(r, c) : r \in {"get", "undefined"}, c \in {"undefined", "200"}}
                           \cup {ReceivedTags(e) : e \in {"", "event"}}
                           \cup {ProcessedTags("event", p) : p \in {"error", "success"}}]]

Metadata1 == Maybe({"email"}, {"a", "b"}) \cup [user : {"u"}] \cup [email : {"c"}, user : {"v"}]
SanitizerLists == {<<>>, <<"dropEmail">>, <<"emailAsUser">>, <<"dropEmail", "emailAsUser">>}
Deriving == [meta : Metadata1] \cup [sanitizers : SanitizerLists \ {<<>>}]
Lines == [line : [staticMeta : Metadata1, sanitizers : SanitizerLists, meta : Metadata1,
                  chain : {<<>>} \cup {<<s>> : s \in Deriving} \cup {<<s, t>> : s, t \in Deriving}]]

MCPlaces == {1, 10, 100}
MCItems == {"#1", "#2"}
ItemName == <<"#1", "#2">>
Array(s) ==
  [at \in {<<>>} \cup UNION {{<<ItemName[i]>> \o rest : rest \in DOMAIN s[i]} : i \in DOMAIN s} |->
     IF at = <<>> THEN "array" ELSE s[CHOOSE i \in DOMAIN s : ItemName[i] = Head(at)][Tail(at)]]

Scalars == {Leaf("text"), Leaf("zero"), Leaf("null")}
Entries == Scalars \cup {Object([id |-> s]) : s \in Scalars}
Bodies == Scalars \cup {Object([id |-> s]) : s \in Scalars}
            \cup {Object([cards |-> Array(<<i>>)]) : i \in Entries}
            \cup {Object([cards |-> Array(<<i, j>>)]) : i \in Entries, j \in {Object([id |-> Leaf("text")])}}
Paths == {<<"uri">>, <<"requestBody">>, <<"requestBody", "id">>, <<"requestBody", "cards">>,
          <<"requestBody", "cards", "*">>, <<"requestBody", "cards", "*", "id">>,
          <<"responseBody", "*", "id">>}
ExchangesMade ==
  [exchange : [end : {"response", "errorResponse", "noResponse"},
               data : Bodies \cup {Leaf("undefined"), Leaf("form")},
               responseBody : {Leaf("text"), Array(<<Object([id |-> Leaf("text")]), Leaf("null")>>)},
               redact : {<<>>} \cup {<<p>> : p \in Paths} \cup {<<p, q>> : p, q \in Paths}]]

SettingValues == {[text |-> <<"lit">>], [text |-> <<"A", "lit", "B">>], [nested |-> <<"A">>]}
Loads ==
  [load : [found : {{}} \cup {{f} : f \in Maybe({"host", "port"}, SettingValues)},
           env : Maybe({"A", "B"}, {<<"x">>, <<"B">>}),
           defaults : Maybe({"port"}, {[text |-> <<"A">>]}),
           required : SUBSET {"host", "port"}]]

MCCalls == Numbers \cup Points \cup Lines \cup ExchangesMade \cup Loads

MCNames == {"A", "B"}
MCTexts == {"lit", "x", "undefined"}
MCListed == << <<"a">>, <<"a", "b">>, <<"c", "a", "b">>, <<"d">> >>
MCSearches == {<<>>, <<"z">>, <<"c">>} \cup ToSet(MCListed)
MCVersionIds == <<1, 2, 3>>

(* The calls and the commands have nothing in common: a behaviour is of    *)
(* one or of the other.                                                    *)
Init == (CallInit /\ NoCommand) \/ (KacInit /\ NoCall)
Next == (CallNext /\ UNCHANGED kacVars) \/ (KacNext /\ UNCHANGED <<call, answer>>)
Spec == Init /\ [][Next]_<<call, answer, kacVars>> /\ KacFairness
=============================================================================
