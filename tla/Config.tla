-------------------------------- MODULE Config --------------------------------
(***************************************************************************)
(* The configuration (src/config): a JSON document becomes a Config or an  *)
(* error with the path of keys where it is.  A JSON value is a record whose *)
(* one field is named for its type: [object |-> a function from keys],      *)
(* [array |-> a sequence], [string |-> s] and so on.                        *)
(***************************************************************************)
EXTENDS Integers, Sequences, FiniteSets, FiniteSetsExt, SequencesExt, TLC

CONSTANTS
  None,         \* None of Rust
  Ids,          \* the ids sources may have, as a sequence in the order of BTreeMap
  BadPatterns,  \* strings that are no glob and no regex
  Split,        \* the leading digits of a string, as a number or None, and the
                \* rest, for the strings that are not all digits
  I64Max,       \* the greatest i64
  Half          \* 2^31: an i32 is in -Half..Half-1

\* A key that an object does not have.
Absent == [absent |-> None]

JsonTypes == {"null", "boolean", "integer", "float", "string", "array", "object"}

Is(type, v) == DOMAIN v = {type}

\* json_type
TypeOf(v) == CHOOSE t \in DOMAIN v : TRUE

\* vs are values that rustc_serialize makes: each has one type, and the elements
\* of arrays and the attributes of objects are among them.
JsonValues(vs) ==
  \A v \in vs :
    /\ v = [t \in DOMAIN v |-> v[t]]
    /\ \E t \in JsonTypes : Is(t, v)
    /\ Is("string", v) => v.string # None
    /\ Is("array", v) => v.array \in Seq(vs)
    /\ Is("object", v) => \A k \in DOMAIN v.object : v.object[k] \in vs

-----------------------------------------------------------------------------
(* Results, and the traits that descend into a document (internal.rs).     *)

Ok(v) == [ok |-> TRUE, value |-> v, context |-> <<>>]
Fail(reason) == [ok |-> FALSE, value |-> reason, context |-> <<>>]

\* Mutant of Annotate: the outermost key comes first.
AnnotateFirst(key, r) ==
  IF r.ok THEN r ELSE [ok |-> FALSE, value |-> r.value, context |-> <<key>> \o r.context]

\* annotate_error!: the context grows from the inside outwards.
Annotate(key, r) ==
  IF r.ok THEN r ELSE [ok |-> FALSE, value |-> r.value, context |-> Append(r.context, key)]

\* The path that Display shows.
Path(r) == Reverse(r.context)

\* Result::and_then
Then(r, F(_)) == IF r.ok THEN F(r.value) ELSE r

\* RunM: the first error of results that are numbered, or all the values.
RunM(rs) ==
  LET bad == {i \in DOMAIN rs : ~rs[i].ok} IN
  IF bad = {} THEN Ok([i \in DOMAIN rs |-> rs[i].value]) ELSE rs[Min(bad)]

\* type_mismatch: the reason is the type that is there.
Mismatch(v) == Fail(TypeOf(v))

AsType(type, v) == IF Is(type, v) THEN Ok(v[type]) ELSE Mismatch(v)

AsString(v)  == AsType("string", v)
AsBoolean(v) == AsType("boolean", v)
AsObject(v)  == AsType("object", v)

\* n as i32
AsI32(v) == Then(AsType("integer", v), LAMBDA n : Ok(((n + Half) % (2 * Half)) - Half))

\* map_m of an Option
Optional(Read(_), v) == IF v = Absent THEN Ok(None) ELSE Read(v)

Mandatory(v) == IF v = Absent THEN Fail("missing") ELSE Ok(v)

\* Removes a key from an object, reads its value, names the key in an error.
\* A field is the key and the result.
Field(attrs, key, Read(_)) ==
  [key |-> key,
   result |-> Annotate(key, Read(IF key \in DOMAIN attrs THEN attrs[key] ELSE Absent))]

\* The results of fields that are read one after the other.
Results(fields) == RunM([i \in DOMAIN fields |-> fields[i].result])

\* Mutant of Consume: keys that are left are not looked for.
ConsumeSome(attrs, fields, rv) == rv

\* ConfigCheck::consume: rv is what the fields gave, and an Ok needs that no key
\* is left.
Consume(attrs, fields, rv) ==
  IF rv.ok /\ DOMAIN attrs \ {fields[i].key : i \in DOMAIN fields} # {}
  THEN Fail("unused")
  ELSE rv

\* Mutant of Consumed: the vector is not reversed.
ConsumedBackwards(v) == [i \in DOMAIN v |-> v[Len(v) + 1 - i]]

\* ConsumeVec takes the elements from the end of the reversed vector.
Consumed(v) == LET inner == Reverse(v) IN [i \in DOMAIN v |-> inner[Len(inner) + 1 - i]]

\* The key of an element of an array.
Index(i) == ToString(i - 1)

\* descend_map_json: the elements of an array, each with its index in an error.
MapJson(Read(_), v) ==
  Then(AsType("array", v),
       LAMBDA a : RunM([i \in DOMAIN a |-> Annotate(Index(i), Read(Consumed(a)[i]))]))

-----------------------------------------------------------------------------
(* Filters (mod.rs).                                                       *)

Kinds == {"glob", "regex", "literal"}

\* FilterCommon::parse_matcher
ParseMatcher(v) ==
  IF Is("string", v) THEN Ok([attr |-> None, kind |-> "literal", pattern |-> v.string])
  ELSE IF ~Is("object", v) THEN Mismatch(v)
  ELSE LET Text(x) == Then(Mandatory(x), AsString)
           fields == <<Field(v.object, "attr", LAMBDA x : Optional(AsString, x)),
                       Field(v.object, "type", Text),
                       Field(v.object, "pattern", Text)>>
           Built(f) ==
             IF f[2] \notin Kinds THEN Fail("unsupported")
             ELSE IF f[2] # "literal" /\ f[3] \in BadPatterns THEN Fail("pattern")
             ELSE Ok([attr |-> f[1], kind |-> f[2], pattern |-> f[3]])
       IN Consume(v.object, fields, Then(Results(fields), Built))

ParseMatchers(v) == IF v = Absent THEN Ok(<<>>) ELSE MapJson(ParseMatcher, v)

Severities ==
  {"Emergency", "Alert", "Critical", "Error", "Warning", "Notice", "Info", "Debug"}

AsSeverity(s) == IF s \in Severities THEN Ok(s) ELSE Fail("severity")

\* parse_filter: FilterCommon::parse, then the fields of the module's own filter.
\* Systemd's filters are read and then dropped.
FilterFields(module, attrs) ==
  <<Field(attrs, "include", ParseMatchers), Field(attrs, "exclude", ParseMatchers)>>
  \o IF module = "systemd" THEN <<>>
     ELSE <<Field(attrs, "level",
                  LAMBDA x : Optional(LAMBDA y : Then(AsString(y), AsSeverity), x)),
            Field(attrs, "attr_extend", LAMBDA x : Optional(AsObject, x))>>

MakeFilter(module, f) ==
  IF module = "systemd" THEN None
  ELSE [include |-> f[1], exclude |-> f[2], level |-> f[3], attr_extend |-> f[4]]

\* One element of "filters".
ParseFilter(module, v) ==
  Then(AsObject(v),
       LAMBDA attrs :
         LET fields == FilterFields(module, attrs) IN
         Consume(attrs, fields, Then(Results(fields), LAMBDA f : Ok(MakeFilter(module, f)))))

-----------------------------------------------------------------------------
(* Sources.                                                                *)

\* The field that the module itself has.
OwnField(module, attrs) ==
  IF module = "systemd" THEN Field(attrs, "user", LAMBDA x : Optional(AsBoolean, x))
  ELSE Field(attrs, "backlog", LAMBDA x : Optional(AsI32, x))

Source(module, id, filters, own) == [module |-> module, id |-> id, filters |-> filters, own |-> own]

\* parse_module: without "filters", the filter's fields are those of the source.
ParseModule(module, id, attrs) ==
  LET list == Field(attrs, "filters",
                    LAMBDA x : Optional(LAMBDA y : MapJson(LAMBDA z : ParseFilter(module, z), y), x))
      single == "filters" \notin DOMAIN attrs
      fields == <<list>> \o (IF single THEN FilterFields(module, attrs) ELSE <<>>)
                         \o <<OwnField(module, attrs)>>
      Built(f) == Ok(Source(module, id,
                            IF single THEN <<MakeFilter(module, SubSeq(f, 2, Len(f) - 1))>> ELSE f[1],
                            Last(f)))
  IN Consume(attrs, fields, Then(Results(fields), Built))

\* parse_source_config: `true` is a source with neither keys nor filters.
ParseSource(id, conf) ==
  LET Known(m) == IF m \in {"systemd", "journal"} THEN Ok(m) ELSE Fail("unknown module")
      Of(m) == Known(IF m = None THEN id ELSE m)
      module == Field(conf.object, "module", LAMBDA x : Optional(AsString, x)).result
      rest == [k \in DOMAIN conf.object \ {"module"} |-> conf.object[k]]
  IN
  IF conf = [boolean |-> TRUE] THEN Then(Known(id), LAMBDA m : Ok(Source(m, id, <<>>, None)))
  ELSE IF Is("object", conf) THEN Then(Then(module, Of), LAMBDA m : ParseModule(m, id, rest))
  ELSE Mismatch(conf)

\* The units of an interval, in milliseconds.
Unit == [ms |-> 1, s |-> 1000, m |-> 60000, h |-> 3600000, d |-> 86400000]

\* PollConfig::parse.  chrono panics when the milliseconds are more than an i64.
ParseInterval(s) ==
  LET digits == Split[s][1]
      unit == Split[s][2]
  IN IF s \notin DOMAIN Split THEN Fail("duration")
     ELSE IF unit \notin DOMAIN Unit \/ digits = None THEN Fail("duration")
     ELSE IF digits > I64Max THEN Fail("duration")
     ELSE IF digits > I64Max \div Unit[unit] THEN Fail("panic")
     ELSE Ok(<<digits, unit>>)

ParsePoll(v) ==
  IF v = Absent THEN Ok(<<15, "s">>)
  ELSE Then(AsObject(v),
            LAMBDA attrs :
              LET interval == Field(attrs, "interval",
                     LAMBDA x : IF x = Absent THEN Ok(<<15, "s">>)
                                ELSE Then(AsString(x), ParseInterval))
              IN Consume(attrs, <<interval>>, interval.result))

\* What there is without "sources".
DefaultSources ==
  <<Source("systemd", "systemd.system", <<>>, None),
    Source("journal", "journal",
           <<[include |-> <<>>, exclude |-> <<>>, level |-> "Warning", attr_extend |-> None]>>,
           None)>>

\* A source stands where its id stands in Ids.
ParseSources(v) ==
  IF v = Absent THEN Ok(DefaultSources)
  ELSE Then(AsObject(v),
            LAMBDA conf :
              RunM([i \in {i \in DOMAIN Ids : Ids[i] \in DOMAIN conf} |->
                      Annotate(Ids[i], ParseSource(Ids[i], conf[Ids[i]]))]))

\* Config::parse
Parse(doc) ==
  Then(AsObject(doc),
       LAMBDA attrs :
         LET fields == <<Field(attrs, "poll", ParsePoll), Field(attrs, "sources", ParseSources)>>
             Built(f) == Ok([poll |-> f[1], sources |-> f[2]])
         IN Consume(attrs, fields, Then(Results(fields), Built)))

-----------------------------------------------------------------------------
(* What a valid document is, independently of how it is read.              *)

ValidMatcher(v) ==
  \/ Is("string", v)
  \/ /\ Is("object", v)
     /\ {"type", "pattern"} \subseteq DOMAIN v.object
     /\ DOMAIN v.object \subseteq {"type", "pattern", "attr"}
     /\ \A k \in DOMAIN v.object : Is("string", v.object[k])
     /\ v.object["type"].string \in Kinds
     /\ v.object["type"].string = "literal" \/ v.object["pattern"].string \notin BadPatterns

FitsFilter(key, v) ==
  /\ key \in {"include", "exclude"} =>
       Is("array", v) /\ \A i \in DOMAIN v.array : ValidMatcher(v.array[i])
  /\ key = "level"       => Is("string", v) /\ v.string \in Severities
  /\ key = "attr_extend" => Is("object", v)

ValidFilter(module, attrs, keys) ==
  /\ keys \subseteq {"include", "exclude"} \cup
                    (IF module = "journal" THEN {"level", "attr_extend"} ELSE {})
  /\ \A k \in keys : FitsFilter(k, attrs[k])

ValidFilters(module, v) ==
  /\ Is("array", v)
  /\ \A i \in DOMAIN v.array :
       /\ Is("object", v.array[i])
       /\ ValidFilter(module, v.array[i].object, DOMAIN v.array[i].object)

\* The key of the module itself, and the type of its value.
OwnKey  == [systemd |-> "user", journal |-> "backlog"]
OwnType == [systemd |-> "boolean", journal |-> "integer"]

ModuleOf(id, attrs) == IF "module" \in DOMAIN attrs THEN attrs.module ELSE [string |-> id]

ValidSource(id, v) ==
  \/ v = [boolean |-> TRUE] /\ id \in DOMAIN OwnKey
  \/ /\ Is("object", v)
     /\ \E m \in DOMAIN OwnKey :
          LET attrs == v.object
              rest == DOMAIN attrs \ {"module", "filters", OwnKey[m]}
          IN /\ ModuleOf(id, attrs) = [string |-> m]
             /\ OwnKey[m] \in DOMAIN attrs => Is(OwnType[m], attrs[OwnKey[m]])
             /\ IF "filters" \in DOMAIN attrs
                THEN rest = {} /\ ValidFilters(m, attrs.filters)
                ELSE ValidFilter(m, attrs, rest)

ValidPoll(v) ==
  /\ Is("object", v)
  /\ DOMAIN v.object \subseteq {"interval"}
  /\ \A k \in DOMAIN v.object :
       /\ Is("string", v.object[k])
       /\ v.object[k].string \in DOMAIN Split
       /\ \E u \in DOMAIN Unit, n \in {Split[v.object[k].string][1]} \ {None} :
            Split[v.object[k].string][2] = u /\ n <= I64Max \div Unit[u]

ValidSources(v) ==
  Is("object", v) /\ \A id \in DOMAIN v.object : ValidSource(id, v.object[id])

Valid(doc) ==
  /\ Is("object", doc)
  /\ DOMAIN doc.object \subseteq {"poll", "sources"}
  /\ "poll" \in DOMAIN doc.object => ValidPoll(doc.object.poll)
  /\ "sources" \in DOMAIN doc.object => ValidSources(doc.object.sources)

\* The value that a key leads to.
Child(v, key) ==
  IF Is("object", v) THEN IF key \in DOMAIN v.object THEN v.object[key] ELSE Absent
  ELSE IF Is("array", v) /\ \E i \in DOMAIN v.array : Index(i) = key
  THEN v.array[CHOOSE i \in DOMAIN v.array : Index(i) = key]
  ELSE Absent

\* The value that a path of keys leads to.
ValueAt(doc, path) ==
  LET at[n \in 0..Len(path)] == IF n = 0 THEN doc ELSE Child(at[n - 1], path[n])
  IN at[Len(path)]

\* What may be wrong with the value at the path of an error.
Explains(reason, doc, path) ==
  LET v == ValueAt(doc, path) IN
  IF reason = "missing" THEN v = Absent /\ Is("object", ValueAt(doc, Front(path)))
  ELSE /\ v # Absent
       /\ reason \in {"unused", "unsupported", "pattern"} => Is("object", v)
       /\ reason \in {"severity", "duration"} => Is("string", v)
       /\ reason \in JsonTypes => Is(reason, v)
       /\ reason = "unknown module" => Is("object", v) \/ v = [boolean |-> TRUE]

\* The patterns that an attribute of a filter lists.
Patterns(attrs, key) ==
  IF key \notin DOMAIN attrs THEN <<>>
  ELSE [i \in DOMAIN attrs[key].array |->
          LET m == attrs[key].array[i] IN
          IF Is("string", m) THEN m.string ELSE m.object["pattern"].string]

\* The filters of a journal source, as they stand in its configuration.
Listed(attrs) ==
  IF "filters" \notin DOMAIN attrs THEN <<attrs>>
  ELSE [i \in DOMAIN attrs.filters.array |-> attrs.filters.array[i].object]

SameOrder(source, attrs) ==
  LET fs == Listed(attrs) IN
  /\ Len(source.filters) = Len(fs)
  /\ \A i \in DOMAIN fs, key \in {"include", "exclude"} :
       LET ms == source.filters[i][key] IN
       [k \in DOMAIN ms |-> ms[k].pattern] = Patterns(fs[i], key)

=============================================================================
