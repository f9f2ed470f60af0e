-------------------------------- MODULE MCIysr --------------------------------
(* A TLC instance of Iysr, and documents for its configuration. *)
EXTENDS Iysr, TLC

CONSTANTS main, reaper, http, notify, nobody, nothing

IysrSpawns == {<<main, nobody, reaper>>, <<reaper, reaper, http>>, <<reaper, reaper, notify>>}

Str(s) == [string |-> s]
Num(i) == [integer |-> i]
Arr(s) == [array |-> s]
Obj(f) == [object |-> f]
True == [boolean |-> TRUE]
Null == [null |-> nothing]

Glob == Obj([type |-> Str("glob"), pattern |-> Str("*")])
Matchers ==
  {Str("a"), Num(1), Glob,
   Obj([type |-> Str("glob"), pattern |-> Str("[")]),
   Obj([type |-> Str("literal"), pattern |-> Str("["), attr |-> Str("unit")]),
   Obj([type |-> Str("other"), pattern |-> Str("a")]),
   Obj([type |-> Str("regex")]),
   Obj([pattern |-> Str("a")]),
   Obj([type |-> Num(1), pattern |-> Str("a")]),
   Obj([type |-> Str("regex"), pattern |-> Str("a"), attr |-> Null]),
   Obj([type |-> Str("regex"), pattern |-> Str("a"), other |-> Str("a")])}

Lists == {Arr(<<Str("a"), x>>) : x \in Matchers} \cup {Arr(<<>>), Null, Glob}

\* The attributes of a filter
FilterParts ==
  {<<>>} \cup {[include |-> x] : x \in Lists} \cup {[exclude |-> x] : x \in Lists}
  \cup {[level |-> x] : x \in {Str("Info"), Str("info"), Num(6)}}
  \cup {[attr_extend |-> x] : x \in {Obj([a |-> Num(1)]), Str("a")}}
  \cup {[include |-> Arr(<<Str("a")>>), exclude |-> Arr(<<Num(1)>>), level |-> Str("Error")],
        [other |-> Null]}

Filters ==
  FilterParts
  \cup {[filters |-> Arr(<<Obj(f), Obj([exclude |-> Arr(<<Str("b"), Glob>>)])>>)] : f \in FilterParts}
  \cup {[filters |-> Null], [filters |-> Arr(<<True>>)], [filters |-> Arr(<<>>), level |-> Str("Info")]}

Owns == {<<>>, [user |-> True], [backlog |-> Num(5)], [user |-> Null], [backlog |-> Str("5")]}
Modules == {<<>>, [module |-> Str("journal")], [module |-> Str("systemd")],
            [module |-> Str("other")], [module |-> Num(1)]}

Sources ==
  {Obj(mod @@ f @@ own) : mod \in Modules, f \in Filters, own \in Owns} \cup {True, Null}

Durations ==
  {nobody, 0, 20, 200, 20000000, I64Max, I64Max + 1} \X {"ms", "s", "m", "h", "d", "y"}

Text(d) == ToString(d[1]) \o d[2]
MCSplit ==
  [s \in {Text(d) : d \in Durations} |-> CHOOSE d \in Durations : Text(d) = s]

Intervals == {Str(s) : s \in DOMAIN MCSplit \cup {"20"}} \cup {Num(1)}

MCDocuments ==
  {nobody, Num(1), Obj(<<>>), Obj([other |-> Null]), Obj([sources |-> Arr(<<>>)]),
   Obj([poll |-> Null]), Obj([poll |-> Obj(<<>>)]), Obj([poll |-> Obj([other |-> Null])])}
  \cup {Obj([poll |-> Obj([interval |-> i])]) : i \in Intervals}
  \cup {Obj([sources |-> Obj([journal |-> s])]) : s \in Sources}
  \cup {Obj([sources |-> Obj([work |-> s, systemd |-> t])]) :
          s \in {True, Null, Obj([module |-> Str("journal")])}, t \in {True, Null}}

\* The values in the documents: the deepest are the strings of a matcher.
Inside(v) ==
  IF Conf!Is("array", v) THEN Range(v.array)
  ELSE IF Conf!Is("object", v) THEN {v.object[k] : k \in DOMAIN v.object} ELSE {}

Deep[n \in 0..7] ==
  IF n = 0 THEN {v \in MCDocuments : v # nobody}
  ELSE UNION {Inside(v) : v \in Deep[n - 1]}

MCValues == UNION {Deep[n] : n \in 0..7}

MCIds == <<"journal", "systemd", "work">>

=============================================================================
