----------------------------- MODULE ConfigProofs ------------------------------
(***************************************************************************)
(* Proofs about the configuration of Iysr, for any documents: exactly the   *)
(* valid ones are accepted, an error leads to what is wrong, and the        *)
(* filters keep their order.                                                *)
(***************************************************************************)
EXTENDS Iysr, WellFoundedInduction, TLAPS

-----------------------------------------------------------------------------
(* The combinators of the parser.                                          *)

\* A set of numbers has a least one.
LEMMA LeastNumber ==
  ASSUME NEW S, S \subseteq Nat, S # {}
  PROVE  \E m \in S : \A i \in S : m <= i
<1> DEFINE less == {ss \in Nat \X Nat : ss[1] < ss[2]}
<1>1. IsWellFoundedOn(less, Nat)
  BY NatLessThanWellFounded DEF OpToRel
<1>2. PICK m \in S : \A i \in S : ~(<<i, m>> \in less)
  <2> HIDE DEF less
  <2> QED
    BY <1>1, WFMin
<1>3. \A i \in S : m \in Nat /\ i \in Nat /\ ~(i < m)
  BY <1>2
<1> QED
  BY <1>3

\* The first error of results is found, if there is one.
LEMMA FirstBad ==
  ASSUME NEW rs, DOMAIN rs \subseteq Nat, \E i \in DOMAIN rs : ~rs[i].ok
  PROVE  \E i \in DOMAIN rs : ~rs[i].ok /\ Conf!RunM(rs) = rs[i]
<1> DEFINE bad == {i \in DOMAIN rs : ~rs[i].ok}
<1>1. bad # {} /\ bad \subseteq Nat
  OBVIOUS
<1>2. PICK m \in bad : \A i \in bad : m <= i
  <2> HIDE DEF bad
  <2> QED
    BY <1>1, LeastNumber
<1>3. Conf!Min(bad) \in bad
  BY <1>1, <1>2 DEF Conf!Min
<1> QED
  BY <1>1, <1>3 DEF Conf!RunM

\* Results are ok if each is, and then give all their values.
LEMMA RunAll ==
  ASSUME NEW rs, DOMAIN rs \subseteq Nat
  PROVE  /\ Conf!RunM(rs).ok <=> \A i \in DOMAIN rs : rs[i].ok
         /\ Conf!RunM(rs).ok => Conf!RunM(rs).value = [i \in DOMAIN rs |-> rs[i].value]
<1>1. CASE \A i \in DOMAIN rs : rs[i].ok
  BY <1>1 DEF Conf!RunM, Conf!Ok
<1>2. CASE \E i \in DOMAIN rs : ~rs[i].ok
  BY <1>2, FirstBad
<1> QED
  BY <1>1, <1>2

\* What Field reads.
Got(attrs, key) == IF key \in DOMAIN attrs THEN attrs[key] ELSE Conf!Absent

\* So are the results of fields.
LEMMA AllResults ==
  ASSUME NEW fields, DOMAIN fields \subseteq Nat
  PROVE  /\ Conf!Results(fields).ok <=> \A i \in DOMAIN fields : fields[i].result.ok
         /\ Conf!Results(fields).ok =>
              Conf!Results(fields).value = [i \in DOMAIN fields |-> fields[i].result.value]
<1> DEFINE rs == [i \in DOMAIN fields |-> fields[i].result]
<1>1. Conf!Results(fields) = Conf!RunM(rs) /\ DOMAIN rs = DOMAIN fields
  BY DEF Conf!Results
<1>2. \A i \in DOMAIN fields : rs[i] = fields[i].result
  OBVIOUS
<1> HIDE DEF rs
<1> QED
  BY <1>1, <1>2, RunAll

\* An annotation changes errors only.
LEMMA Annotated ==
  ASSUME NEW key, NEW r
  PROVE  /\ Conf!Annotate(key, r).ok <=> r.ok
         /\ r.ok => Conf!Annotate(key, r) = r
BY DEF Conf!Annotate

\* An object is accepted if its fields are read and have all its keys.
LEMMA Consuming ==
  ASSUME NEW attrs, NEW fields, NEW rv
  PROVE  LET all == \A key \in DOMAIN attrs : \E i \in DOMAIN fields : fields[i].key = key IN
         /\ Conf!Consume(attrs, fields, rv).ok <=> rv.ok /\ all
         /\ rv.ok /\ all => Conf!Consume(attrs, fields, rv) = rv
BY DEF Conf!Consume, Conf!Fail

\* What a value is.
LEMMA Shape ==
  ASSUME NEW v \in Values
  PROVE  /\ v # Conf!Absent
         /\ v = [t \in DOMAIN v |-> v[t]]
         /\ Conf!Is("string", v) => v.string # None
         /\ Conf!Is("array", v) => v.array \in Seq(Values)
         /\ Conf!Is("object", v) => \A k \in DOMAIN v.object : v.object[k] \in Values
<1>1. DOMAIN Conf!Absent = {"absent"}
  BY DEF Conf!Absent
<1>2. v # Conf!Absent
  BY <1>1, DocumentAssumption DEF Conf!JsonValues, Conf!JsonTypes, Conf!Is
<1> QED
  BY <1>2, DocumentAssumption DEF Conf!JsonValues

\* An element of an array is read where it stands.
LEMMA InPlace ==
  ASSUME NEW a \in Seq(Values)
  PROVE  /\ DOMAIN a \subseteq Nat
         /\ \A i \in DOMAIN a : Conf!Consumed(a)[i] = a[i] /\ a[i] \in Values
<1>1. /\ DOMAIN a = 1..Len(a) /\ Len(a) \in Nat
      /\ \A i \in 1..Len(a) : a[i] \in Values
  OBVIOUS
<1>2. /\ Conf!Reverse(a) = [i \in 1..Len(a) |-> a[Len(a) - i + 1]]
      /\ Len(Conf!Reverse(a)) = Len(a)
  BY <1>1 DEF Conf!Reverse
<1>3. \A i \in 1..Len(a) : Conf!Reverse(a)[Len(a) + 1 - i] = a[i]
  BY <1>1, <1>2
<1> QED
  BY <1>1, <1>2, <1>3 DEF Conf!Consumed

-----------------------------------------------------------------------------
(* Filters.                                                                *)

\* A matcher is read if it is valid.
LEMMA Matcher ==
  ASSUME NEW v \in Values
  PROVE  /\ Conf!ParseMatcher(v).ok <=> Conf!ValidMatcher(v)
         /\ Conf!ParseMatcher(v).ok =>
              Conf!ParseMatcher(v).value.pattern
                = IF Conf!Is("string", v) THEN v.string ELSE v.object["pattern"].string
<1> USE DEF Conf!Ok, Conf!Fail, Conf!Mismatch
<1>1. CASE Conf!Is("string", v)
  BY <1>1 DEF Conf!ParseMatcher, Conf!ValidMatcher, Conf!Then, Conf!Field, Conf!Optional
<1>2. CASE Conf!Is("object", v)
  <2> DEFINE Get(k) == Got(v.object, k)
             Text(x) == IF Conf!Mandatory(x).ok THEN Conf!AsString(Conf!Mandatory(x).value)
                        ELSE Conf!Mandatory(x)
             Opt(x) == IF x = Conf!Absent THEN Conf!Ok(None) ELSE Conf!AsString(x)
             fields == <<[key |-> "attr", result |-> Conf!Annotate("attr", Opt(Get("attr")))],
                         [key |-> "type", result |-> Conf!Annotate("type", Text(Get("type")))],
                         [key |-> "pattern", result |-> Conf!Annotate("pattern", Text(Get("pattern")))]>>
             Built(f) ==
               IF f[2] \notin Conf!Kinds THEN Conf!Fail("unsupported")
               ELSE IF f[2] # "literal" /\ f[3] \in BadPatterns THEN Conf!Fail("pattern")
               ELSE Conf!Ok([attr |-> f[1], kind |-> f[2], pattern |-> f[3]])
             rs == Conf!Results(fields)
             rv == IF rs.ok THEN Built(rs.value) ELSE rs
  <2>1. Conf!ParseMatcher(v) = Conf!Consume(v.object, fields, rv)
    <3>1. ~Conf!Is("string", v)
      BY <1>2 DEF Conf!Is
    <3> QED
      BY <1>2, <3>1 DEF Got, Conf!ParseMatcher, Conf!Then, Conf!Field, Conf!Optional
  <2>2. /\ Opt(Get("attr")).ok <=> "attr" \notin DOMAIN v.object \/ Conf!Is("string", v.object["attr"])
        /\ \A k \in {"type", "pattern"} :
             /\ Text(Get(k)).ok <=> k \in DOMAIN v.object /\ Conf!Is("string", v.object[k])
             /\ Text(Get(k)).ok => Text(Get(k)).value = v.object[k].string
    <3>1. \A k \in DOMAIN v.object : v.object[k] # Conf!Absent
      BY <1>2, Shape
    <3> QED
      BY <3>1 DEF Got, Conf!Mandatory, Conf!AsString, Conf!AsType
  <2>3. /\ rs.ok <=> Opt(Get("attr")).ok /\ Text(Get("type")).ok /\ Text(Get("pattern")).ok
        /\ rs.ok => rs.value[2] = v.object["type"].string /\ rs.value[3] = v.object["pattern"].string
    <3> HIDE DEF Opt, Text, Get
    <3>1. /\ DOMAIN fields = 1..3 /\ 1..3 = {1, 2, 3}
          /\ fields[1].result.ok <=> Opt(Get("attr")).ok
          /\ fields[2].result.ok <=> Text(Get("type")).ok
          /\ fields[3].result.ok <=> Text(Get("pattern")).ok
          /\ Text(Get("type")).ok => fields[2].result = Text(Get("type"))
          /\ Text(Get("pattern")).ok => fields[3].result = Text(Get("pattern"))
      BY Annotated
    <3> HIDE DEF fields
    <3>2. /\ rs.ok <=> \A i \in DOMAIN fields : fields[i].result.ok
          /\ rs.ok => rs.value = [i \in DOMAIN fields |-> fields[i].result.value]
      <4>1. DOMAIN fields \subseteq Nat
        BY <3>1
      <4> QED
        BY <4>1, AllResults
    <3>3. /\ rs.ok <=> fields[1].result.ok /\ fields[2].result.ok /\ fields[3].result.ok
          /\ rs.ok => rs.value[2] = fields[2].result.value /\ rs.value[3] = fields[3].result.value
      <4> HIDE DEF rs
      <4> QED
        BY <3>1, <3>2
    <3> QED
      BY <2>2, <3>1, <3>2, <3>3
  <2>4. /\ rv.ok <=>
                  /\ rs.ok
                  /\ v.object["type"].string \in Conf!Kinds
                  /\ v.object["type"].string = "literal" \/ v.object["pattern"].string \notin BadPatterns
        /\ rv.ok => rv.value.pattern = v.object["pattern"].string
    <3> HIDE DEF rs
    <3> QED
      BY <2>3
  <2>5. (\A k \in DOMAIN v.object : \E i \in DOMAIN fields : fields[i].key = k)
          <=> DOMAIN v.object \subseteq {"type", "pattern", "attr"}
    <3>1. /\ DOMAIN fields = {1, 2, 3}
          /\ fields[1].key = "attr" /\ fields[2].key = "type" /\ fields[3].key = "pattern"
      OBVIOUS
    <3> HIDE DEF fields
    <3> QED
      BY <3>1
  <2> HIDE DEF rv, fields, Opt, Text, Get
  <2>6. /\ Conf!ParseMatcher(v).ok <=> rv.ok /\ DOMAIN v.object \subseteq {"type", "pattern", "attr"}
        /\ Conf!ParseMatcher(v).ok => Conf!ParseMatcher(v) = rv
    BY <2>1, <2>5, Consuming
  <2>7. ~Conf!Is("string", v)
    BY <1>2 DEF Conf!Is
  <2> HIDE DEF rs
  <2>8. Conf!ValidMatcher(v)
          <=> /\ {"type", "pattern"} \subseteq DOMAIN v.object
              /\ DOMAIN v.object \subseteq {"type", "pattern", "attr"}
              /\ \A k \in DOMAIN v.object : Conf!Is("string", v.object[k])
              /\ v.object["type"].string \in Conf!Kinds
              /\ v.object["type"].string = "literal" \/ v.object["pattern"].string \notin BadPatterns
    BY <1>2, <2>7 DEF Conf!ValidMatcher
  <2>9. Conf!ParseMatcher(v).ok <=> Conf!ValidMatcher(v)
    BY <2>2, <2>3, <2>4, <2>6, <2>8
  <2> QED
    BY <2>4, <2>6, <2>7, <2>9
<1>3. CASE ~Conf!Is("string", v) /\ ~Conf!Is("object", v)
  BY <1>3 DEF Conf!ParseMatcher, Conf!ValidMatcher, Conf!Then, Conf!Field, Conf!Optional
<1> QED
  BY <1>1, <1>2, <1>3

\* What mandatory keys and lists of a filter give.
LEMMA Matchers ==
  ASSUME NEW v \in Values \cup {Conf!Absent}
  PROVE  /\ Conf!ParseMatchers(v).ok <=>
              \/ v = Conf!Absent
              \/ Conf!Is("array", v) /\ \A i \in DOMAIN v.array : Conf!ValidMatcher(v.array[i])
         /\ v = Conf!Absent => Conf!ParseMatchers(v).value = <<>>
         /\ v # Conf!Absent /\ Conf!ParseMatchers(v).ok =>
              Conf!ParseMatchers(v).value
                = [i \in DOMAIN v.array |-> Conf!ParseMatcher(v.array[i]).value]
<1> USE DEF Conf!Ok, Conf!Fail, Conf!Mismatch
<1>1. CASE v = Conf!Absent
  BY <1>1 DEF Conf!ParseMatchers, Conf!MapJson, Conf!Then
<1>2. CASE v # Conf!Absent /\ ~Conf!Is("array", v)
  BY <1>2 DEF Conf!ParseMatchers, Conf!MapJson, Conf!Then, Conf!AsType
<1>3. CASE v # Conf!Absent /\ Conf!Is("array", v)
  <2> DEFINE rs == [i \in DOMAIN v.array |->
                      Conf!Annotate(Conf!Index(i), Conf!ParseMatcher(Conf!Consumed(v.array)[i]))]
  <2>1. Conf!ParseMatchers(v) = Conf!RunM(rs)
    BY <1>3 DEF Conf!ParseMatchers, Conf!MapJson, Conf!Then, Conf!AsType
  <2>2. DOMAIN v.array \subseteq Nat /\ DOMAIN rs = DOMAIN v.array
    BY <1>3, Shape, InPlace
  <2>3. ASSUME NEW i \in DOMAIN v.array
        PROVE  /\ rs[i].ok <=> Conf!ValidMatcher(v.array[i])
               /\ rs[i].ok => rs[i].value = Conf!ParseMatcher(v.array[i]).value
    <3>1. Conf!Consumed(v.array)[i] = v.array[i] /\ v.array[i] \in Values
      BY <1>3, <2>3, Shape, InPlace
    <3>2. rs[i] = Conf!Annotate(Conf!Index(i), Conf!ParseMatcher(v.array[i]))
      BY <3>1
    <3> HIDE DEF rs
    <3> QED
      BY <3>1, <3>2, Annotated, Matcher
  <2> HIDE DEF rs
  <2>4. /\ Conf!RunM(rs).ok <=> \A i \in DOMAIN rs : rs[i].ok
        /\ Conf!RunM(rs).ok => Conf!RunM(rs).value = [i \in DOMAIN rs |-> rs[i].value]
    BY <2>2, RunAll
  <2> QED
    BY <1>3, <2>1, <2>2, <2>3, <2>4
<1> QED
  BY <1>1, <1>2, <1>3

\* The keys that a filter of a source of module m may have.
Filtering(m) ==
  {"include", "exclude"} \cup (IF m = "journal" THEN {"level", "attr_extend"} ELSE {})

\* fs are the fields of a filter; each is read if it is valid, and the first two
\* give the matchers.
FilterFieldsOf(m, attrs, fs) ==
  /\ Len(fs) \in {2, 4} /\ DOMAIN fs = 1..Len(fs) /\ fs \in Seq({fs[i] : i \in DOMAIN fs})
  /\ \A i \in DOMAIN fs : fs[i].key \in Filtering(m)
  /\ \A k \in Filtering(m) : \E i \in DOMAIN fs : fs[i].key = k
  /\ \A i \in DOMAIN fs :
       fs[i].result.ok <=>
         (fs[i].key \in DOMAIN attrs => Conf!FitsFilter(fs[i].key, attrs[fs[i].key]))
  /\ fs[1].result.ok => fs[1].result.value = Conf!ParseMatchers(Got(attrs, "include")).value
  /\ fs[2].result.ok => fs[2].result.value = Conf!ParseMatchers(Got(attrs, "exclude")).value

\* The fields that parse_filter reads are such fields.
LEMMA FilterFieldsRead ==
  ASSUME NEW m \in {"systemd", "journal"},
         NEW attrs, \A k \in DOMAIN attrs : attrs[k] \in Values
  PROVE  FilterFieldsOf(m, attrs, Conf!FilterFields(m, attrs))
<1> USE DEF Conf!Ok, Conf!Fail, Conf!Mismatch
<1> DEFINE Of(key, r) == [key |-> key, result |-> Conf!Annotate(key, r)]
           Level(x) == IF x = Conf!Absent THEN Conf!Ok(None)
                       ELSE IF Conf!AsString(x).ok THEN Conf!AsSeverity(Conf!AsString(x).value)
                       ELSE Conf!AsString(x)
           Extend(x) == IF x = Conf!Absent THEN Conf!Ok(None) ELSE Conf!AsObject(x)
           common == <<Of("include", Conf!ParseMatchers(Got(attrs, "include"))),
                       Of("exclude", Conf!ParseMatchers(Got(attrs, "exclude")))>>
           own == <<Of("level", Level(Got(attrs, "level"))), Of("attr_extend", Extend(Got(attrs, "attr_extend")))>>
           fs == Conf!FilterFields(m, attrs)
<1>1. fs = IF m = "systemd" THEN common ELSE common \o own
  <2>1. fs = common \o IF m = "systemd" THEN <<>> ELSE own
    BY DEF Got, Conf!FilterFields, Conf!Field, Conf!Optional, Conf!Then
  <2> HIDE DEF own, fs
  <2> QED
    BY <2>1
<1>2. /\ Got(attrs, "include") \in Values \cup {Conf!Absent} /\ Got(attrs, "exclude") \in Values \cup {Conf!Absent}
      /\ \A k \in DOMAIN attrs : attrs[k] # Conf!Absent
  BY Shape DEF Got
<1>3. /\ \A k \in {"include", "exclude"} :
           Conf!ParseMatchers(Got(attrs, k)).ok <=> (k \in DOMAIN attrs => Conf!FitsFilter(k, attrs[k]))
      /\ Level(Got(attrs, "level")).ok
           <=> ("level" \in DOMAIN attrs => Conf!FitsFilter("level", attrs["level"]))
      /\ Extend(Got(attrs, "attr_extend")).ok
           <=> ("attr_extend" \in DOMAIN attrs => Conf!FitsFilter("attr_extend", attrs["attr_extend"]))
  <2>1. ASSUME NEW k \in {"include", "exclude"}
        PROVE  Conf!ParseMatchers(Got(attrs, k)).ok <=> (k \in DOMAIN attrs => Conf!FitsFilter(k, attrs[k]))
    <3>1. CASE k \in DOMAIN attrs
      BY <1>2, <3>1, Matchers DEF Got, Conf!FitsFilter
    <3>2. CASE k \notin DOMAIN attrs
      BY <1>2, <3>2, Matchers DEF Got
    <3> QED
      BY <3>1, <3>2
  <2>2. Level(Got(attrs, "level")).ok
          <=> ("level" \in DOMAIN attrs => Conf!FitsFilter("level", attrs["level"]))
    BY <1>2 DEF Got, Conf!FitsFilter, Conf!AsString, Conf!AsType, Conf!AsSeverity
  <2>3. Extend(Got(attrs, "attr_extend")).ok
          <=> ("attr_extend" \in DOMAIN attrs => Conf!FitsFilter("attr_extend", attrs["attr_extend"]))
    BY <1>2 DEF Got, Conf!FitsFilter, Conf!AsObject, Conf!AsType
  <2> QED
    BY <2>1, <2>2, <2>3
<1>4. ASSUME NEW key, NEW r
      PROVE  /\ Of(key, r).key = key
             /\ Of(key, r).result.ok <=> r.ok
             /\ r.ok => Of(key, r).result = r
  BY Annotated
<1> HIDE DEF Level, Extend, Of
<1>5. CASE m = "systemd"
  <2>1. /\ fs = common /\ Len(common) = 2 /\ DOMAIN common = {1, 2} /\ 1..2 = {1, 2}
        /\ common[1] = Of("include", Conf!ParseMatchers(Got(attrs, "include")))
        /\ common[2] = Of("exclude", Conf!ParseMatchers(Got(attrs, "exclude")))
    BY <1>1, <1>5
  <2>2. common \in Seq({common[1], common[2]})
    BY <2>1
  <2> HIDE DEF fs, common
  <2>3. fs \in Seq({fs[i] : i \in DOMAIN fs})
    BY <2>1, <2>2
  <2>4. /\ Len(fs) \in {2, 4} /\ DOMAIN fs = 1..Len(fs)
        /\ \A i \in DOMAIN fs : fs[i].key \in Filtering(m)
        /\ \A k \in Filtering(m) : \E i \in DOMAIN fs : fs[i].key = k
    BY <1>4, <1>5, <2>1 DEF Filtering
  <2>5. \A i \in DOMAIN fs :
          fs[i].result.ok <=>
            (fs[i].key \in DOMAIN attrs => Conf!FitsFilter(fs[i].key, attrs[fs[i].key]))
    BY <1>3, <1>4, <2>1
  <2>6. /\ fs[1].result.ok => fs[1].result.value = Conf!ParseMatchers(Got(attrs, "include")).value
        /\ fs[2].result.ok => fs[2].result.value = Conf!ParseMatchers(Got(attrs, "exclude")).value
    BY <1>4, <2>1
  <2> QED
    BY <2>3, <2>4, <2>5, <2>6 DEF fs, FilterFieldsOf
<1>6. CASE m = "journal"
  <2> DEFINE all == common \o own
  <2>1. /\ fs = all /\ Len(all) = 4 /\ DOMAIN all = {1, 2, 3, 4} /\ 1..4 = {1, 2, 3, 4}
        /\ all[1] = Of("include", Conf!ParseMatchers(Got(attrs, "include")))
        /\ all[2] = Of("exclude", Conf!ParseMatchers(Got(attrs, "exclude")))
        /\ all[3] = Of("level", Level(Got(attrs, "level")))
        /\ all[4] = Of("attr_extend", Extend(Got(attrs, "attr_extend")))
    BY <1>1, <1>6
  <2>2. all \in Seq({all[1], all[2], all[3], all[4]})
    OBVIOUS
  <2> HIDE DEF fs, all
  <2>3. fs \in Seq({fs[i] : i \in DOMAIN fs})
    BY <2>1, <2>2
  <2>4. /\ Len(fs) \in {2, 4} /\ DOMAIN fs = 1..Len(fs)
        /\ \A i \in DOMAIN fs : fs[i].key \in Filtering(m)
        /\ \A k \in Filtering(m) : \E i \in DOMAIN fs : fs[i].key = k
    BY <1>4, <1>6, <2>1 DEF Filtering
  <2>5. \A i \in DOMAIN fs :
          fs[i].result.ok <=>
            (fs[i].key \in DOMAIN attrs => Conf!FitsFilter(fs[i].key, attrs[fs[i].key]))
    BY <1>3, <1>4, <2>1
  <2>6. /\ fs[1].result.ok => fs[1].result.value = Conf!ParseMatchers(Got(attrs, "include")).value
        /\ fs[2].result.ok => fs[2].result.value = Conf!ParseMatchers(Got(attrs, "exclude")).value
    BY <1>4, <2>1
  <2> QED
    BY <2>3, <2>4, <2>5, <2>6 DEF fs, FilterFieldsOf
<1> QED
  BY <1>5, <1>6

\* So is a filter; that of a journal source has the matchers that were read.
LEMMA FilterRead ==
  ASSUME NEW m \in {"systemd", "journal"}, NEW v \in Values
  PROVE  LET r == Conf!ParseFilter(m, v) IN
         /\ r.ok <=> Conf!Is("object", v) /\ Conf!ValidFilter(m, v.object, DOMAIN v.object)
         /\ r.ok /\ m = "journal" =>
              /\ r.value.include = Conf!ParseMatchers(Got(v.object, "include")).value
              /\ r.value.exclude = Conf!ParseMatchers(Got(v.object, "exclude")).value
<1> USE DEF Conf!Ok, Conf!Fail, Conf!Mismatch
<1>1. CASE ~Conf!Is("object", v)
  BY <1>1 DEF Conf!ParseFilter, Conf!Then, Conf!AsObject, Conf!AsType
<1>2. CASE Conf!Is("object", v)
  <2> DEFINE fs == Conf!FilterFields(m, v.object)
             rs == Conf!Results(fs)
             rv == IF rs.ok THEN Conf!Ok(Conf!MakeFilter(m, rs.value)) ELSE rs
             r == Conf!ParseFilter(m, v)
  <2>1. r = Conf!Consume(v.object, fs, rv)
    BY <1>2 DEF Conf!ParseFilter, Conf!Then, Conf!AsObject, Conf!AsType
  <2>2. FilterFieldsOf(m, v.object, fs)
    <3>1. \A k \in DOMAIN v.object : v.object[k] \in Values
      BY <1>2, Shape
    <3> QED
      BY <3>1, FilterFieldsRead
  <2> HIDE DEF fs
  <2>3. /\ rs.ok <=> \A i \in DOMAIN fs : fs[i].result.ok
        /\ rs.ok => rs.value = [i \in DOMAIN fs |-> fs[i].result.value]
    <3>1. DOMAIN fs \subseteq Nat
      BY <2>2 DEF FilterFieldsOf
    <3> QED
      BY <3>1, AllResults
  <2>4. rs.ok <=> \A k \in DOMAIN v.object : k \in Filtering(m) => Conf!FitsFilter(k, v.object[k])
    BY <2>2, <2>3 DEF FilterFieldsOf
  <2>5. rv.ok <=> rs.ok
    <3> HIDE DEF rs
    <3> QED
      OBVIOUS
  <2>6. (\A k \in DOMAIN v.object : \E i \in DOMAIN fs : fs[i].key = k)
          <=> DOMAIN v.object \subseteq Filtering(m)
    BY <2>2 DEF FilterFieldsOf
  <2>7. /\ r.ok <=> rs.ok /\ DOMAIN v.object \subseteq Filtering(m)
        /\ r.ok => r = rv
    <3> HIDE DEF rs, rv, r
    <3> QED
      BY <2>1, <2>5, <2>6, Consuming
  <2>8. r.ok <=> Conf!ValidFilter(m, v.object, DOMAIN v.object)
    <3> HIDE DEF rs, rv, r
    <3> QED
      BY <2>4, <2>7 DEF Conf!ValidFilter, Filtering
  <2>9. ASSUME r.ok, m = "journal"
        PROVE  /\ r.value.include = Conf!ParseMatchers(Got(v.object, "include")).value
               /\ r.value.exclude = Conf!ParseMatchers(Got(v.object, "exclude")).value
    <3>1. /\ rs.value[1] = Conf!ParseMatchers(Got(v.object, "include")).value
          /\ rs.value[2] = Conf!ParseMatchers(Got(v.object, "exclude")).value
      <4>1. {1, 2} \subseteq DOMAIN fs
        BY <2>2 DEF FilterFieldsOf
      <4> HIDE DEF rs, rv, r
      <4> QED
        BY <2>2, <2>3, <2>7, <2>9, <4>1 DEF FilterFieldsOf
    <3>2. r.value = Conf!MakeFilter(m, rs.value)
      <4> HIDE DEF rs, r
      <4> QED
        BY <2>5, <2>7, <2>9
    <3> HIDE DEF rs, rv, r
    <3> QED
      BY <2>9, <3>1, <3>2 DEF Conf!MakeFilter
  <2> QED
    BY <1>2, <2>8, <2>9
<1> QED
  BY <1>1, <1>2

-----------------------------------------------------------------------------
(* Sources and documents.                                                  *)

\* The list of filters of a source.
FilterList(m, v) ==
  IF v = Conf!Absent THEN Conf!Ok(None) ELSE Conf!MapJson(LAMBDA z : Conf!ParseFilter(m, z), v)

\* A list of filters is read if it is valid, each filter in its place.
LEMMA FilterListRead ==
  ASSUME NEW m \in {"systemd", "journal"}, NEW v \in Values \cup {Conf!Absent}
  PROVE  LET r == FilterList(m, v) IN
         /\ r.ok <=> v = Conf!Absent \/ Conf!ValidFilters(m, v)
         /\ r.ok /\ v # Conf!Absent =>
              r.value = [i \in DOMAIN v.array |-> Conf!ParseFilter(m, v.array[i]).value]
<1> USE DEF Conf!Ok, Conf!Fail, Conf!Mismatch
<1>1. CASE v = Conf!Absent
  BY <1>1 DEF FilterList, Conf!MapJson, Conf!Then
<1>2. CASE v # Conf!Absent /\ ~Conf!Is("array", v)
  BY <1>2 DEF FilterList, Conf!MapJson, Conf!Then, Conf!AsType, Conf!ValidFilters
<1>3. CASE v # Conf!Absent /\ Conf!Is("array", v)
  <2> DEFINE rs == [i \in DOMAIN v.array |->
                      Conf!Annotate(Conf!Index(i), Conf!ParseFilter(m, Conf!Consumed(v.array)[i]))]
  <2>1. FilterList(m, v) = Conf!RunM(rs)
    BY <1>3 DEF FilterList, Conf!MapJson, Conf!Then, Conf!AsType
  <2>2. DOMAIN v.array \subseteq Nat /\ DOMAIN rs = DOMAIN v.array
    BY <1>3, Shape, InPlace
  <2>3. ASSUME NEW i \in DOMAIN v.array
        PROVE  /\ rs[i].ok <=>
                    /\ Conf!Is("object", v.array[i])
                    /\ Conf!ValidFilter(m, v.array[i].object, DOMAIN v.array[i].object)
               /\ rs[i].ok => rs[i].value = Conf!ParseFilter(m, v.array[i]).value
    <3>1. Conf!Consumed(v.array)[i] = v.array[i] /\ v.array[i] \in Values
      BY <1>3, <2>3, Shape, InPlace
    <3>2. rs[i] = Conf!Annotate(Conf!Index(i), Conf!ParseFilter(m, v.array[i]))
      BY <3>1
    <3> HIDE DEF rs
    <3> QED
      BY <3>1, <3>2, Annotated, FilterRead
  <2> HIDE DEF rs
  <2>4. /\ Conf!RunM(rs).ok <=> \A i \in DOMAIN rs : rs[i].ok
        /\ Conf!RunM(rs).ok => Conf!RunM(rs).value = [i \in DOMAIN rs |-> rs[i].value]
    BY <2>2, RunAll
  <2> QED
    BY <1>3, <2>1, <2>2, <2>3, <2>4 DEF Conf!ValidFilters
<1> QED
  BY <1>1, <1>2, <1>3

\* The attributes of a source but the module are right.
ModuleValid(m, attrs) ==
  LET rest == DOMAIN attrs \ {"filters", Conf!OwnKey[m]} IN
  /\ Conf!OwnKey[m] \in DOMAIN attrs => Conf!Is(Conf!OwnType[m], attrs[Conf!OwnKey[m]])
  /\ IF "filters" \in DOMAIN attrs
     THEN rest = {} /\ Conf!ValidFilters(m, attrs["filters"])
     ELSE Conf!ValidFilter(m, attrs, rest)

\* The filters that they give.
FiltersOf(m, attrs, filters) ==
  IF "filters" \in DOMAIN attrs
  THEN filters = [i \in DOMAIN attrs["filters"].array |->
                    Conf!ParseFilter(m, attrs["filters"].array[i]).value]
  ELSE /\ Len(filters) = 1
       /\ m = "journal" =>
            /\ filters[1].include = Conf!ParseMatchers(Got(attrs, "include")).value
            /\ filters[1].exclude = Conf!ParseMatchers(Got(attrs, "exclude")).value

\* The field that a module has itself.
LEMMA OwnRead ==
  ASSUME NEW m \in {"systemd", "journal"},
         NEW attrs, \A k \in DOMAIN attrs : attrs[k] \in Values
  PROVE  /\ Conf!OwnField(m, attrs).key = Conf!OwnKey[m]
         /\ Conf!OwnField(m, attrs).result.ok <=>
              (Conf!OwnKey[m] \in DOMAIN attrs =>
                 Conf!Is(Conf!OwnType[m], attrs[Conf!OwnKey[m]]))
<1> USE DEF Conf!Ok, Conf!Fail, Conf!Mismatch
<1> DEFINE User(x) == IF x = Conf!Absent THEN Conf!Ok(None) ELSE Conf!AsBoolean(x)
           Backlog(x) == IF x = Conf!Absent THEN Conf!Ok(None) ELSE Conf!AsI32(x)
<1>1. Conf!OwnField(m, attrs)
        = IF m = "systemd"
          THEN [key |-> "user", result |-> Conf!Annotate("user", User(Got(attrs, "user")))]
          ELSE [key |-> "backlog", result |-> Conf!Annotate("backlog", Backlog(Got(attrs, "backlog")))]
  BY DEF Conf!OwnField, Conf!Field, Conf!Optional, Got
<1>2. /\ User(Got(attrs, "user")).ok
           <=> ("user" \in DOMAIN attrs => Conf!Is("boolean", attrs["user"]))
      /\ Backlog(Got(attrs, "backlog")).ok
           <=> ("backlog" \in DOMAIN attrs => Conf!Is("integer", attrs["backlog"]))
  BY Shape DEF Got, Conf!AsBoolean, Conf!AsI32, Conf!AsType, Conf!Then
<1> HIDE DEF User, Backlog
<1>3. /\ Conf!OwnKey["systemd"] = "user" /\ Conf!OwnKey["journal"] = "backlog"
      /\ Conf!OwnType["systemd"] = "boolean" /\ Conf!OwnType["journal"] = "integer"
  BY DEF Conf!OwnKey, Conf!OwnType
<1> QED
  BY <1>1, <1>2, <1>3, Annotated

\* A source is read if its attributes are right, with the filters they give.
LEMMA ModuleRead ==
  ASSUME NEW m \in {"systemd", "journal"}, NEW sid,
         NEW attrs, \A k \in DOMAIN attrs : attrs[k] \in Values
  PROVE  LET r == Conf!ParseModule(m, sid, attrs) IN
         /\ r.ok <=> ModuleValid(m, attrs)
         /\ r.ok => /\ r.value.module = m /\ r.value.id = sid
                    /\ FiltersOf(m, attrs, r.value.filters)
<1> USE DEF Conf!Ok, Conf!Fail, Conf!Mismatch
<1> DEFINE listed == FilterList(m, Got(attrs, "filters"))
           list == [key |-> "filters", result |-> Conf!Annotate("filters", listed)]
           single == "filters" \notin DOMAIN attrs
           fs == Conf!FilterFields(m, attrs)
           own == Conf!OwnField(m, attrs)
           fields == <<list>> \o (IF single THEN fs ELSE <<>>) \o <<own>>
           rs == Conf!Results(fields)
           filters == IF single THEN <<Conf!MakeFilter(m, SubSeq(rs.value, 2, Len(rs.value) - 1))>>
                      ELSE rs.value[1]
           rv == IF rs.ok THEN Conf!Ok(Conf!Source(m, sid, filters, Conf!Last(rs.value))) ELSE rs
           r == Conf!ParseModule(m, sid, attrs)
<1>1. r = Conf!Consume(attrs, fields, rv)
  BY DEF Conf!ParseModule, Conf!Then, Conf!Field, Conf!Optional, FilterList, Got
<1>2. /\ listed.ok <=> single \/ Conf!ValidFilters(m, attrs["filters"])
      /\ listed.ok /\ ~single =>
           listed.value = [i \in DOMAIN attrs["filters"].array |->
                             Conf!ParseFilter(m, attrs["filters"].array[i]).value]
  <2>1. CASE single
    BY <2>1, FilterListRead DEF Got
  <2>2. CASE ~single
    <3>1. Got(attrs, "filters") = attrs["filters"] /\ attrs["filters"] \in Values
      BY <2>2 DEF Got
    <3>2. attrs["filters"] # Conf!Absent
      BY <3>1, Shape
    <3> QED
      BY <2>2, <3>1, <3>2, FilterListRead
  <2> QED
    BY <2>1, <2>2
<1>3. /\ list.key = "filters"
      /\ list.result.ok <=> listed.ok
      /\ listed.ok => list.result = listed
  <2> HIDE DEF listed
  <2> QED
    BY Annotated
<1>4. /\ own.key = Conf!OwnKey[m]
      /\ own.result.ok <=>
           (Conf!OwnKey[m] \in DOMAIN attrs => Conf!Is(Conf!OwnType[m], attrs[Conf!OwnKey[m]]))
  BY OwnRead
<1>5. Conf!OwnKey[m] \notin Filtering(m) \cup {"filters"}
  BY DEF Conf!OwnKey, Filtering
<1>6. FilterFieldsOf(m, attrs, fs)
  BY FilterFieldsRead
<1>7. rv.ok <=> rs.ok
  <2> HIDE DEF rs
  <2> QED
    OBVIOUS
<1>8. /\ r.ok <=> rs.ok /\ \A k \in DOMAIN attrs : \E i \in DOMAIN fields : fields[i].key = k
      /\ r.ok => r = rv
  <2> HIDE DEF rs, rv, r, fields
  <2> QED
    BY <1>1, <1>7, Consuming
<1> HIDE DEF listed, list, own, fs
<1>9. ASSUME DOMAIN fields \subseteq Nat
      PROVE  /\ rs.ok <=> \A i \in DOMAIN fields : fields[i].result.ok
             /\ rs.ok => rs.value = [i \in DOMAIN fields |-> fields[i].result.value]
  <2> HIDE DEF fields
  <2> QED
    BY <1>9, AllResults
<1>10. CASE single
  <2>1. /\ DOMAIN fields = 1..(Len(fs) + 2) /\ DOMAIN fs = 1..Len(fs) /\ Len(fs) \in {2, 4}
        /\ fields[1] = list /\ fields[Len(fs) + 2] = own
        /\ \A i \in 1..Len(fs) : fields[i + 1] = fs[i]
    BY <1>6, <1>10 DEF FilterFieldsOf
  <2> HIDE DEF fields
  <2>2. /\ \A i \in DOMAIN fields :
             i = 1 \/ i = Len(fs) + 2 \/ \E j \in DOMAIN fs : fields[i] = fs[j]
        /\ {1, Len(fs) + 2} \subseteq DOMAIN fields
        /\ \A j \in DOMAIN fs : j + 1 \in DOMAIN fields /\ fields[j + 1] = fs[j]
    <3>1. ASSUME NEW i \in 2..(Len(fs) + 1)
          PROVE  i - 1 \in 1..Len(fs) /\ fields[i] = fs[i - 1]
      <4>1. PICK j \in 1..Len(fs) : i = j + 1
        BY <2>1
      <4> QED
        BY <2>1, <4>1
    <3>2. \A i \in 1..(Len(fs) + 2) : i = 1 \/ i = Len(fs) + 2 \/ i \in 2..(Len(fs) + 1)
      BY <2>1
    <3> QED
      BY <2>1, <3>1, <3>2
  <2>3. (\A i \in DOMAIN fields : fields[i].result.ok)
          <=> own.result.ok /\ \A i \in DOMAIN fs : fs[i].result.ok
    <3>1. list.result.ok
      BY <1>2, <1>3, <1>10
    <3>2. ASSUME \A i \in DOMAIN fields : fields[i].result.ok
          PROVE  own.result.ok /\ \A i \in DOMAIN fs : fs[i].result.ok
      <4>1. own.result.ok
        BY <2>1, <2>2, <3>2
      <4>2. ASSUME NEW j \in DOMAIN fs
            PROVE  fs[j].result.ok
        BY <2>2, <3>2
      <4> QED
        BY <4>1, <4>2
    <3>3. ASSUME own.result.ok, \A i \in DOMAIN fs : fs[i].result.ok, NEW i \in DOMAIN fields
          PROVE  fields[i].result.ok
      BY <2>1, <2>2, <3>1, <3>3
    <3> QED
      BY <3>2, <3>3
  <2>4. (\A i \in DOMAIN fs : fs[i].result.ok)
          <=> \A k \in DOMAIN attrs : k \in Filtering(m) => Conf!FitsFilter(k, attrs[k])
    BY <1>6 DEF FilterFieldsOf
  <2>5. (\A k \in DOMAIN attrs : \E i \in DOMAIN fields : fields[i].key = k)
          <=> DOMAIN attrs \subseteq Filtering(m) \cup {Conf!OwnKey[m]}
    <3>1. \A i \in DOMAIN fields : fields[i].key \in Filtering(m) \cup {"filters", Conf!OwnKey[m]}
      BY <1>3, <1>4, <1>6, <2>1, <2>2 DEF FilterFieldsOf
    <3>2. \A k \in Filtering(m) \cup {Conf!OwnKey[m]} : \E i \in DOMAIN fields : fields[i].key = k
      <4>1. ASSUME NEW k \in Filtering(m)
            PROVE  \E i \in DOMAIN fields : fields[i].key = k
        <5>1. PICK j \in DOMAIN fs : fs[j].key = k
          BY <1>6 DEF FilterFieldsOf
        <5> QED
          BY <2>2, <5>1
      <4> QED
        BY <1>4, <2>1, <2>2, <4>1
    <3> QED
      BY <1>10, <3>1, <3>2
  <2>6. r.ok <=> ModuleValid(m, attrs)
    <3> HIDE DEF rs, r, rv
    <3>1. r.ok <=> /\ own.result.ok
                   /\ \A k \in DOMAIN attrs : k \in Filtering(m) => Conf!FitsFilter(k, attrs[k])
                   /\ DOMAIN attrs \subseteq Filtering(m) \cup {Conf!OwnKey[m]}
      BY <1>8, <1>9, <2>1, <2>3, <2>4, <2>5
    <3> QED
      BY <1>4, <1>5, <1>10, <3>1 DEF ModuleValid, Conf!ValidFilter, Filtering
  <2>7. ASSUME r.ok
        PROVE  /\ r.value.module = m /\ r.value.id = sid
               /\ FiltersOf(m, attrs, r.value.filters)
    <3> DEFINE vs == SubSeq(rs.value, 2, Len(rs.value) - 1)
    <3>1. /\ DOMAIN rs.value = 1..(Len(fs) + 2)
          /\ \A i \in DOMAIN fs : rs.value[i + 1] = fs[i].result.value
          /\ \A i \in DOMAIN fs : fs[i].result.ok
      <4> HIDE DEF rs, r, rv
      <4> QED
        BY <1>8, <1>9, <2>1, <2>2, <2>3, <2>7
    <3>2. Len(rs.value) = Len(fs) + 2 /\ DOMAIN fs = 1..Len(fs) /\ Len(fs) \in {2, 4}
      <4> HIDE DEF rs
      <4> QED
        BY <2>1, <3>1
    <3>3. vs[1] = fs[1].result.value /\ vs[2] = fs[2].result.value
      <4> HIDE DEF rs
      <4>1. vs = [i \in 1..Len(fs) |-> rs.value[i + 1]]
        BY <3>1, <3>2
      <4> HIDE DEF vs
      <4> QED
        BY <3>1, <3>2, <4>1
    <3>4. /\ r.value = Conf!Source(m, sid, filters, Conf!Last(rs.value))
          /\ filters = <<Conf!MakeFilter(m, vs)>>
      <4>1. r = rv /\ rs.ok
        <5> HIDE DEF rs, r, rv
        <5> QED
          BY <1>8, <2>7
      <4> HIDE DEF rs, r
      <4> QED
        BY <1>10, <4>1
    <3> HIDE DEF rs, r, rv, vs, filters
    <3>5. /\ r.value.module = m /\ r.value.id = sid /\ r.value.filters = filters
      BY <3>4 DEF Conf!Source
    <3>6. m = "journal" => filters[1].include = vs[1] /\ filters[1].exclude = vs[2]
      BY <3>4 DEF Conf!MakeFilter
    <3>7. /\ vs[1] = Conf!ParseMatchers(Got(attrs, "include")).value
          /\ vs[2] = Conf!ParseMatchers(Got(attrs, "exclude")).value
      BY <1>6, <3>1, <3>2, <3>3 DEF FilterFieldsOf
    <3> QED
      BY <1>10, <3>4, <3>5, <3>6, <3>7 DEF FiltersOf
  <2> QED
    BY <2>6, <2>7
<1>11. CASE ~single
  <2>1. /\ DOMAIN fields = {1, 2} /\ fields[1] = list /\ fields[2] = own
    BY <1>11
  <2> HIDE DEF fields
  <2>2. rs.ok <=> own.result.ok /\ listed.ok
    <3> HIDE DEF rs
    <3> QED
      BY <1>3, <1>9, <2>1
  <2>3. (\A k \in DOMAIN attrs : \E i \in DOMAIN fields : fields[i].key = k)
          <=> DOMAIN attrs \subseteq {"filters", Conf!OwnKey[m]}
    BY <1>3, <1>4, <2>1
  <2>4. r.ok <=> ModuleValid(m, attrs)
    <3> HIDE DEF rs, r, rv
    <3> QED
      BY <1>2, <1>4, <1>8, <1>11, <2>2, <2>3 DEF ModuleValid
  <2>5. ASSUME r.ok
        PROVE  /\ r.value.module = m /\ r.value.id = sid
               /\ FiltersOf(m, attrs, r.value.filters)
    <3>1. rs.ok /\ rs.value[1] = list.result.value /\ listed.ok /\ r = rv
      <4> HIDE DEF rs, r, rv
      <4> QED
        BY <1>8, <1>9, <2>1, <2>2, <2>5
    <3>2. /\ r.value = Conf!Source(m, sid, filters, Conf!Last(rs.value))
          /\ filters = listed.value
      <4> HIDE DEF rs, r
      <4> QED
        BY <1>3, <1>11, <3>1
    <3> HIDE DEF rs, r, rv, filters
    <3> QED
      BY <1>2, <1>11, <3>1, <3>2 DEF FiltersOf, Conf!Source
  <2> QED
    BY <2>4, <2>5
<1> QED
  BY <1>10, <1>11

\* The matchers of a source are valid.
MatchersFit(attrs) ==
  IF "filters" \in DOMAIN attrs THEN Conf!ValidFilters("journal", attrs["filters"])
  ELSE \A k \in {"include", "exclude"} \cap DOMAIN attrs : Conf!FitsFilter(k, attrs[k])

\* A source is read if it is valid; the filters of a journal source are those of its
\* attributes.
LEMMA SourceRead ==
  ASSUME NEW sid, NEW conf \in Values
  PROVE  LET r == Conf!ParseSource(sid, conf) IN
         /\ r.ok <=> Conf!ValidSource(sid, conf)
         /\ r.ok => r.value.id = sid
         /\ r.ok /\ Conf!Is("object", conf) /\ r.value.module = "journal" =>
              FiltersOf("journal", conf.object, r.value.filters) /\ MatchersFit(conf.object)
<1> USE DEF Conf!Ok, Conf!Fail, Conf!Mismatch
<1> DEFINE Known(m) == IF m \in {"systemd", "journal"} THEN Conf!Ok(m) ELSE Conf!Fail("unknown module")
           Opt(x) == IF x = Conf!Absent THEN Conf!Ok(None) ELSE Conf!AsString(x)
           name == Conf!Annotate("module", Opt(Got(conf.object, "module")))
           of == IF name.ok THEN Known(IF name.value = None THEN sid ELSE name.value) ELSE name
           rest == [k \in DOMAIN conf.object \ {"module"} |-> conf.object[k]]
           r == Conf!ParseSource(sid, conf)
<1>1. r = IF conf = [boolean |-> TRUE]
          THEN IF Known(sid).ok THEN Conf!Ok(Conf!Source(Known(sid).value, sid, <<>>, None)) ELSE Known(sid)
          ELSE IF Conf!Is("object", conf)
          THEN IF of.ok THEN Conf!ParseModule(of.value, sid, rest) ELSE of
          ELSE Conf!Mismatch(conf)
  BY DEF Conf!ParseSource, Conf!Then, Conf!Field, Conf!Optional, Got
<1>2. DOMAIN Conf!OwnKey = {"systemd", "journal"}
  BY DEF Conf!OwnKey
<1>3. DOMAIN [boolean |-> TRUE] = {"boolean"}
  OBVIOUS
<1>4. CASE conf = [boolean |-> TRUE]
  <2>1. ~Conf!Is("object", conf)
    BY <1>3, <1>4 DEF Conf!Is
  <2>2. Conf!ValidSource(sid, conf) <=> sid \in {"systemd", "journal"}
    BY <1>2, <1>4, <2>1 DEF Conf!ValidSource
  <2>3. r = IF sid \in {"systemd", "journal"} THEN Conf!Ok(Conf!Source(sid, sid, <<>>, None))
            ELSE Conf!Fail("unknown module")
    <3> HIDE DEF r, of
    <3> QED
      BY <1>1, <1>4
  <2>4. /\ r.ok <=> sid \in {"systemd", "journal"}
        /\ r.ok => r.value.id = sid
    <3> HIDE DEF r
    <3> QED
      BY <2>3 DEF Conf!Source
  <2> QED
    BY <2>1, <2>2, <2>4
<1>5. CASE Conf!Is("object", conf)
  <2> DEFINE asked == Conf!ModuleOf(sid, conf.object)
  <2>1. conf # [boolean |-> TRUE]
    BY <1>3, <1>5 DEF Conf!Is
  <2>2. /\ of.ok <=> asked = [string |-> "systemd"] \/ asked = [string |-> "journal"]
        /\ of.ok => of.value \in {"systemd", "journal"} /\ asked = [string |-> of.value]
    <3> DEFINE v == conf.object["module"]
               opt == Opt(Got(conf.object, "module"))
    <3>0. name = Conf!Annotate("module", opt)
      OBVIOUS
    <3>1. CASE "module" \in DOMAIN conf.object
      <4>1. v # Conf!Absent /\ v = [t \in DOMAIN v |-> v[t]] /\ (Conf!Is("string", v) => v.string # None)
        BY <1>5, <3>1, Shape
      <4>2. asked = v /\ opt = Conf!AsString(v)
        BY <3>1, <4>1 DEF Conf!ModuleOf, Got
      <4>3. CASE Conf!Is("string", v)
        <5>1. v = [string |-> v.string]
          <6> HIDE DEF v
          <6> QED
            BY <4>1, <4>3 DEF Conf!Is
        <5>2. opt.ok /\ opt.value = v.string
          <6> HIDE DEF v, opt
          <6> QED
            BY <4>2, <4>3 DEF Conf!AsString, Conf!AsType
        <5>3. of = Known(v.string)
          <6>1. name.ok /\ name.value = v.string
            <7> HIDE DEF v, opt, name
            <7> QED
              BY <3>0, <5>2, Annotated
          <6> HIDE DEF name, v, Known
          <6> QED
            BY <4>1, <4>3, <6>1
        <5>4. \A n : [string |-> n].string = n
          OBVIOUS
        <5> HIDE DEF of, v, asked
        <5> QED
          BY <4>2, <5>1, <5>3, <5>4
      <4>4. CASE ~Conf!Is("string", v)
        <5>1. ~opt.ok
          <6> HIDE DEF v, opt
          <6> QED
            BY <4>2, <4>4 DEF Conf!AsString, Conf!AsType
        <5>2. ~name.ok
          <6> HIDE DEF opt, name
          <6> QED
            BY <3>0, <5>1, Annotated
        <5>3. ~of.ok
          <6> HIDE DEF name
          <6> QED
            BY <5>2
        <5>4. \A n : DOMAIN [string |-> n] = {"string"}
          OBVIOUS
        <5>5. \A n : asked # [string |-> n]
          <6> HIDE DEF v, asked
          <6> QED
            BY <4>2, <4>4, <5>4 DEF Conf!Is
        <5> HIDE DEF of, asked
        <5> QED
          BY <5>3, <5>5
      <4> QED
        BY <4>3, <4>4
    <3>2. CASE "module" \notin DOMAIN conf.object
      <4>1. name.ok /\ name.value = None
        BY <3>2 DEF Got, Conf!Annotate
      <4>2. of = Known(sid)
        <5> HIDE DEF name, Known
        <5> QED
          BY <4>1
      <4>3. asked = [string |-> sid]
        BY <3>2 DEF Conf!ModuleOf
      <4>4. \A n : [string |-> n].string = n
        OBVIOUS
      <4> HIDE DEF of, asked
      <4> QED
        BY <4>2, <4>3, <4>4
    <3> QED
      BY <3>1, <3>2
  <2>3. \A k \in DOMAIN rest : rest[k] \in Values
    BY <1>5, Shape
  <2> HIDE DEF of
  <2>4. CASE of.ok
    <3>1. PICK m \in {"systemd", "journal"} : m = of.value
      BY <2>2, <2>4
    <3>2. r = Conf!ParseModule(m, sid, rest)
      BY <1>1, <1>5, <2>1, <2>4, <3>1
    <3>3. /\ DOMAIN rest = DOMAIN conf.object \ {"module"}
          /\ \A k \in DOMAIN conf.object \ {"module"} : rest[k] = conf.object[k]
          /\ {"filters", "include", "exclude", "level", "attr_extend", Conf!OwnKey[m]} \cap {"module"} = {}
      BY DEF Conf!OwnKey
    <3> HIDE DEF rest, r
    <3>4. /\ r.ok <=> ModuleValid(m, rest)
          /\ r.ok => /\ r.value.module = m /\ r.value.id = sid
                     /\ FiltersOf(m, rest, r.value.filters)
      BY <2>3, <3>2, ModuleRead
    <3>5. \A n \in {"systemd", "journal"} : asked = [string |-> n] => n = m
      <4>1. asked = [string |-> m]
        BY <2>2, <2>4, <3>1
      <4>2. [string |-> m].string = m /\ \A n : [string |-> n].string = n
        OBVIOUS
      <4> HIDE DEF asked
      <4> QED
        BY <4>1, <4>2
    <3>6. r.ok <=> Conf!ValidSource(sid, conf)
      <4>1. Conf!ValidSource(sid, conf)
              <=> \E n \in {"systemd", "journal"} :
                    LET attrs == conf.object
                        left == DOMAIN attrs \ {"module", "filters", Conf!OwnKey[n]}
                    IN /\ asked = [string |-> n]
                       /\ Conf!OwnKey[n] \in DOMAIN attrs => Conf!Is(Conf!OwnType[n], attrs[Conf!OwnKey[n]])
                       /\ IF "filters" \in DOMAIN attrs
                          THEN left = {} /\ Conf!ValidFilters(n, attrs["filters"])
                          ELSE Conf!ValidFilter(n, attrs, left)
        BY <1>2, <1>5, <2>1 DEF Conf!ValidSource
      <4>2. Conf!ValidSource(sid, conf)
              <=> LET attrs == conf.object
                      left == DOMAIN attrs \ {"module", "filters", Conf!OwnKey[m]}
                  IN /\ Conf!OwnKey[m] \in DOMAIN attrs => Conf!Is(Conf!OwnType[m], attrs[Conf!OwnKey[m]])
                     /\ IF "filters" \in DOMAIN attrs
                        THEN left = {} /\ Conf!ValidFilters(m, attrs["filters"])
                        ELSE Conf!ValidFilter(m, attrs, left)
        <5>1. asked = [string |-> m]
          BY <2>2, <2>4, <3>1
        <5> HIDE DEF asked
        <5> QED
          BY <3>5, <4>1, <5>1
      <4>3. DOMAIN rest \ {"filters", Conf!OwnKey[m]}
              = DOMAIN conf.object \ {"module", "filters", Conf!OwnKey[m]}
        BY <3>3
      <4> QED
        BY <3>3, <3>4, <4>2, <4>3 DEF ModuleValid, Conf!ValidFilter
    <3>7. FiltersOf(m, rest, r.value.filters) => FiltersOf(m, conf.object, r.value.filters)
      BY <3>3 DEF FiltersOf, Got
    <3>8. m = "journal" /\ ModuleValid(m, rest) => MatchersFit(conf.object)
      BY <3>3 DEF ModuleValid, MatchersFit, Conf!ValidFilter, Conf!OwnKey
    <3> QED
      BY <3>4, <3>6, <3>7, <3>8 DEF r
  <2>5. CASE ~of.ok
    <3>1. ~r.ok
      BY <1>1, <1>5, <2>1, <2>5
    <3>2. ~Conf!ValidSource(sid, conf)
      BY <1>2, <2>1, <2>2, <2>5 DEF Conf!ValidSource
    <3> QED
      BY <3>1, <3>2
  <2> QED
    BY <2>4, <2>5
<1>6. CASE conf # [boolean |-> TRUE] /\ ~Conf!Is("object", conf)
  <2>1. ~Conf!ValidSource(sid, conf)
    BY <1>6 DEF Conf!ValidSource
  <2>2. r = Conf!Mismatch(conf)
    <3> HIDE DEF r, of, Known
    <3> QED
      BY <1>1, <1>6
  <2>3. ~r.ok
    <3> HIDE DEF r
    <3> QED
      BY <2>2
  <2> QED
    BY <2>1, <2>3
<1> QED
  BY <1>4, <1>5, <1>6

\* An interval is read if it has a unit and its milliseconds are an i64.
LEMMA IntervalRead ==
  ASSUME NEW s
  PROVE  Conf!ParseInterval(s).ok <=>
           /\ s \in DOMAIN Split
           /\ \E u \in DOMAIN Conf!Unit, n \in {Split[s][1]} \ {None} :
                Split[s][2] = u /\ n <= I64Max \div Conf!Unit[u]
<1> USE DEF Conf!Ok, Conf!Fail, Conf!Mismatch
<1>1. CASE s \notin DOMAIN Split
  BY <1>1 DEF Conf!ParseInterval
<1>2. CASE s \in DOMAIN Split /\ (Split[s][2] \notin DOMAIN Conf!Unit \/ Split[s][1] = None)
  BY <1>2 DEF Conf!ParseInterval
<1>3. CASE s \in DOMAIN Split /\ Split[s][2] \in DOMAIN Conf!Unit /\ Split[s][1] # None
  <2>1. PICK n \in Nat, u \in DOMAIN Conf!Unit : n = Split[s][1] /\ u = Split[s][2]
    BY <1>3, DocumentAssumption
  <2>2. n <= I64Max \div Conf!Unit[u] => n <= I64Max
    <3>1. Conf!Unit[u] \in {1, 1000, 60000, 3600000, 86400000}
      BY DEF Conf!Unit
    <3>2. PICK w \in {1, 1000, 60000, 3600000, 86400000} : w = Conf!Unit[u]
      BY <3>1
    <3>3. I64Max \div w <= I64Max
      BY DocumentAssumption
    <3> QED
      BY <3>2, <3>3, DocumentAssumption
  <2>3. I64Max \in Nat /\ I64Max \div Conf!Unit[u] \in Int
    BY DocumentAssumption DEF Conf!Unit
  <2>4. Conf!ParseInterval(s).ok <=> n <= I64Max \div Conf!Unit[u]
    BY <1>3, <2>1, <2>2, <2>3 DEF Conf!ParseInterval
  <2> QED
    BY <1>3, <2>1, <2>4
<1> QED
  BY <1>1, <1>2, <1>3

\* A poll section is read if it is valid.
LEMMA PollRead ==
  ASSUME NEW v \in Values \cup {Conf!Absent}
  PROVE  Conf!ParsePoll(v).ok <=> v = Conf!Absent \/ Conf!ValidPoll(v)
<1> USE DEF Conf!Ok, Conf!Fail, Conf!Mismatch
<1> DEFINE Read(x) == IF x = Conf!Absent THEN Conf!Ok(<<15, "s">>)
                      ELSE IF Conf!AsString(x).ok THEN Conf!ParseInterval(Conf!AsString(x).value)
                      ELSE Conf!AsString(x)
           opt == Read(Got(v.object, "interval"))
           interval == [key |-> "interval", result |-> Conf!Annotate("interval", opt)]
           r == Conf!ParsePoll(v)
<1>1. r = IF v = Conf!Absent THEN Conf!Ok(<<15, "s">>)
          ELSE IF Conf!AsObject(v).ok
          THEN Conf!Consume(v.object, <<interval>>, interval.result)
          ELSE Conf!AsObject(v)
  BY DEF Conf!ParsePoll, Conf!Then, Conf!Field, Got, Conf!AsObject, Conf!AsType
<1>2. CASE v = Conf!Absent
  BY <1>1, <1>2
<1>3. CASE v # Conf!Absent /\ ~Conf!Is("object", v)
  BY <1>1, <1>3 DEF Conf!AsObject, Conf!AsType, Conf!ValidPoll
<1>4. CASE v # Conf!Absent /\ Conf!Is("object", v)
  <2>1. r = Conf!Consume(v.object, <<interval>>, interval.result)
    BY <1>1, <1>4 DEF Conf!AsObject, Conf!AsType
  <2>2. r.ok <=> interval.result.ok /\ DOMAIN v.object \subseteq {"interval"}
    <3>1. interval.key = "interval" /\ DOMAIN <<interval>> = {1} /\ <<interval>>[1] = interval
      OBVIOUS
    <3>2. r.ok <=> /\ interval.result.ok
                   /\ \A k \in DOMAIN v.object : \E i \in DOMAIN <<interval>> : <<interval>>[i].key = k
      <4> HIDE DEF interval, r
      <4> QED
        BY <2>1, Consuming
    <3> HIDE DEF interval, r
    <3> QED
      BY <3>1, <3>2
  <2>3. interval.result.ok <=> opt.ok
    <3> HIDE DEF opt
    <3> QED
      BY Annotated
  <2>4. CASE "interval" \notin DOMAIN v.object
    <3>1. opt.ok
      BY <2>4 DEF Got
    <3> HIDE DEF r, opt, interval
    <3> QED
      BY <1>4, <2>2, <2>3, <2>4, <3>1 DEF r, Conf!ValidPoll
  <2>5. CASE "interval" \in DOMAIN v.object
    <3> DEFINE x == v.object["interval"]
    <3>1. x # Conf!Absent /\ Got(v.object, "interval") = x
      BY <1>4, <2>5, Shape DEF Got
    <3>2. opt.ok <=> Conf!Is("string", x) /\ Conf!ParseInterval(x.string).ok
      <4> HIDE DEF x
      <4> QED
        BY <3>1 DEF Conf!AsString, Conf!AsType
    <3>3. Conf!ValidPoll(v)
            <=> /\ DOMAIN v.object \subseteq {"interval"}
                /\ Conf!Is("string", x) /\ Conf!ParseInterval(x.string).ok
      <4> PICK y : y = v.object["interval"]
        OBVIOUS
      <4>1. Conf!ParseInterval(y.string).ok <=>
              /\ y.string \in DOMAIN Split
              /\ \E u \in DOMAIN Conf!Unit, n \in {Split[y.string][1]} \ {None} :
                   Split[y.string][2] = u /\ n <= I64Max \div Conf!Unit[u]
        BY IntervalRead
      <4>2. Conf!ValidPoll(v)
              <=> /\ DOMAIN v.object \subseteq {"interval"}
                  /\ Conf!Is("string", y)
                  /\ y.string \in DOMAIN Split
                  /\ \E u \in DOMAIN Conf!Unit, n \in {Split[y.string][1]} \ {None} :
                       Split[y.string][2] = u /\ n <= I64Max \div Conf!Unit[u]
        BY <1>4, <2>5 DEF Conf!ValidPoll
      <4> QED
        BY <4>1, <4>2
    <3> HIDE DEF r, opt, interval
    <3> QED
      BY <1>4, <2>2, <2>3, <3>2, <3>3 DEF r
  <2> QED
    BY <2>4, <2>5
<1> QED
  BY <1>2, <1>3, <1>4

\* The sources are the valid ones, each where its id stands.
LEMMA SourcesRead ==
  ASSUME NEW v \in Values \cup {Conf!Absent},
         Conf!Is("object", v) => DOMAIN v.object \subseteq Range(Ids)
  PROVE  LET r == Conf!ParseSources(v) IN
         /\ r.ok <=> v = Conf!Absent \/ Conf!ValidSources(v)
         /\ r.ok /\ v # Conf!Absent =>
              \A i \in DOMAIN r.value :
                /\ Ids[i] \in DOMAIN v.object
                /\ Conf!ParseSource(Ids[i], v.object[Ids[i]]).ok
                /\ r.value[i] = Conf!ParseSource(Ids[i], v.object[Ids[i]]).value
<1> USE DEF Conf!Ok, Conf!Fail, Conf!Mismatch
<1>1. CASE v = Conf!Absent
  BY <1>1 DEF Conf!ParseSources, Conf!Then
<1>2. CASE v # Conf!Absent /\ ~Conf!Is("object", v)
  BY <1>2 DEF Conf!ParseSources, Conf!Then, Conf!AsObject, Conf!AsType, Conf!ValidSources
<1>3. CASE v # Conf!Absent /\ Conf!Is("object", v)
  <2> DEFINE present == {i \in DOMAIN Ids : Ids[i] \in DOMAIN v.object}
             rs == [i \in present |-> Conf!Annotate(Ids[i], Conf!ParseSource(Ids[i], v.object[Ids[i]]))]
             r == Conf!ParseSources(v)
  <2>1. r = Conf!RunM(rs)
    BY <1>3 DEF Conf!ParseSources, Conf!Then, Conf!AsObject, Conf!AsType
  <2>2. DOMAIN rs = present /\ present \subseteq Nat
    BY DocumentAssumption
  <2>3. ASSUME NEW i \in present
        PROVE  /\ rs[i].ok <=> Conf!ValidSource(Ids[i], v.object[Ids[i]])
               /\ rs[i].ok <=> Conf!ParseSource(Ids[i], v.object[Ids[i]]).ok
               /\ rs[i].ok => rs[i].value = Conf!ParseSource(Ids[i], v.object[Ids[i]]).value
    <3>1. v.object[Ids[i]] \in Values
      BY <1>3, <2>3, Shape
    <3>2. rs[i] = Conf!Annotate(Ids[i], Conf!ParseSource(Ids[i], v.object[Ids[i]]))
      OBVIOUS
    <3> HIDE DEF rs
    <3> QED
      BY <3>1, <3>2, SourceRead, Annotated
  <2>4. \A key \in DOMAIN v.object : \E i \in present : Ids[i] = key
    BY <1>3 DEF Range
  <2>5. \A i \in present : Ids[i] \in DOMAIN v.object
    OBVIOUS
  <2> HIDE DEF rs, present, r
  <2>6. /\ Conf!RunM(rs).ok <=> \A i \in DOMAIN rs : rs[i].ok
        /\ Conf!RunM(rs).ok => Conf!RunM(rs).value = [i \in DOMAIN rs |-> rs[i].value]
    BY <2>2, RunAll
  <2>7. r.ok <=> Conf!ValidSources(v)
    BY <1>3, <2>1, <2>2, <2>3, <2>4, <2>5, <2>6 DEF Conf!ValidSources
  <2>8. ASSUME r.ok, NEW i \in DOMAIN r.value
        PROVE  /\ Ids[i] \in DOMAIN v.object
               /\ Conf!ParseSource(Ids[i], v.object[Ids[i]]).ok
               /\ r.value[i] = Conf!ParseSource(Ids[i], v.object[Ids[i]]).value
    BY <2>1, <2>2, <2>3, <2>5, <2>6, <2>8
  <2> QED
    BY <1>3, <2>7, <2>8 DEF r
<1> QED
  BY <1>1, <1>2, <1>3

\* A document is accepted if it is valid, and its sources are those that are read.
LEMMA DocumentRead ==
  ASSUME NEW d \in Documents \ {None}
  PROVE  LET r == Conf!Parse(d) IN
         /\ r.ok <=> Conf!Valid(d)
         /\ r.ok /\ "sources" \in DOMAIN d.object =>
              /\ d.object["sources"] \in Values
              /\ Conf!Is("object", d.object["sources"])
              /\ DOMAIN d.object["sources"].object \subseteq Range(Ids)
              /\ Conf!ParseSources(d.object["sources"]).ok
              /\ r.value.sources = Conf!ParseSources(d.object["sources"]).value
<1> USE DEF Conf!Ok, Conf!Fail, Conf!Mismatch
<1>1. d \in Values
  BY DocumentAssumption
<1>2. CASE ~Conf!Is("object", d)
  BY <1>2 DEF Conf!Parse, Conf!Then, Conf!AsObject, Conf!AsType, Conf!Valid
<1>3. CASE Conf!Is("object", d)
  <2> DEFINE p == Got(d.object, "poll")
             s == Got(d.object, "sources")
             poll == [key |-> "poll", result |-> Conf!Annotate("poll", Conf!ParsePoll(p))]
             sources == [key |-> "sources", result |-> Conf!Annotate("sources", Conf!ParseSources(s))]
             fields == <<poll, sources>>
             rs == Conf!Results(fields)
             rv == IF rs.ok THEN Conf!Ok([poll |-> rs.value[1], sources |-> rs.value[2]]) ELSE rs
             r == Conf!Parse(d)
  <2>1. r = Conf!Consume(d.object, fields, rv)
    BY <1>3 DEF Conf!Parse, Conf!Then, Conf!AsObject, Conf!AsType, Conf!Field, Got
  <2>2. /\ p \in Values \cup {Conf!Absent}
        /\ "poll" \in DOMAIN d.object => p = d.object["poll"] /\ p # Conf!Absent
        /\ "poll" \notin DOMAIN d.object => p = Conf!Absent
        /\ s \in Values \cup {Conf!Absent}
        /\ "sources" \in DOMAIN d.object => s = d.object["sources"] /\ s # Conf!Absent /\ s \in Values
        /\ "sources" \notin DOMAIN d.object => s = Conf!Absent
    <3>1. \A k \in DOMAIN d.object : d.object[k] \in Values /\ d.object[k] # Conf!Absent
      BY <1>1, <1>3, Shape
    <3> QED
      BY <3>1 DEF Got
  <2>3. Conf!Is("object", s) => DOMAIN s.object \subseteq Range(Ids)
    <3>1. CASE "sources" \in DOMAIN d.object
      BY <1>3, <2>2, <3>1, DocumentAssumption
    <3>2. CASE "sources" \notin DOMAIN d.object
      <4>1. DOMAIN Conf!Absent = {"absent"}
        BY DEF Conf!Absent
      <4> HIDE DEF s
      <4> QED
        BY <2>2, <3>2, <4>1 DEF Conf!Is
    <3> QED
      BY <3>1, <3>2
  <2>4. /\ poll.key = "poll" /\ (poll.result.ok <=> Conf!ParsePoll(p).ok)
        /\ sources.key = "sources" /\ (sources.result.ok <=> Conf!ParseSources(s).ok)
        /\ Conf!ParseSources(s).ok => sources.result = Conf!ParseSources(s)
    <3> HIDE DEF p, s
    <3> QED
      BY Annotated
  <2>5. /\ DOMAIN fields = {1, 2} /\ fields[1] = poll /\ fields[2] = sources
    OBVIOUS
  <2>6. rv.ok <=> rs.ok
    <3> HIDE DEF rs
    <3> QED
      OBVIOUS
  <2>7. rs.ok => rv.value.sources = rs.value[2]
    <3> HIDE DEF rs
    <3> QED
      OBVIOUS
  <2> HIDE DEF p, s, poll, sources, fields, rv, r
  <2>8. /\ rs.ok <=> \A i \in DOMAIN fields : fields[i].result.ok
        /\ rs.ok => rs.value = [i \in DOMAIN fields |-> fields[i].result.value]
    <3>1. DOMAIN fields \subseteq Nat
      BY <2>5
    <3> QED
      BY <3>1, AllResults
  <2> HIDE DEF rs
  <2>9. /\ r.ok <=> rs.ok /\ \A k \in DOMAIN d.object : \E i \in DOMAIN fields : fields[i].key = k
        /\ r.ok => r = rv
    BY <2>1, <2>6, Consuming
  <2>10. r.ok <=> /\ Conf!ParsePoll(p).ok /\ Conf!ParseSources(s).ok
                  /\ DOMAIN d.object \subseteq {"poll", "sources"}
    BY <2>4, <2>5, <2>8, <2>9
  <2>11. /\ Conf!ParsePoll(p).ok <=> p = Conf!Absent \/ Conf!ValidPoll(p)
         /\ Conf!ParseSources(s).ok <=> s = Conf!Absent \/ Conf!ValidSources(s)
    BY <2>2, <2>3, PollRead, SourcesRead
  <2>12. r.ok <=> Conf!Valid(d)
    BY <1>3, <2>2, <2>10, <2>11 DEF Conf!Valid
  <2>13. ASSUME r.ok, "sources" \in DOMAIN d.object
         PROVE  /\ Conf!Is("object", s) /\ Conf!ParseSources(s).ok
                /\ r.value.sources = Conf!ParseSources(s).value
    <3>1. Conf!Is("object", s)
      BY <2>2, <2>10, <2>11, <2>13 DEF Conf!ValidSources
    <3>2. rs.ok /\ r = rv /\ Conf!ParseSources(s).ok
      BY <2>9, <2>10, <2>13
    <3>3. rs.value[2] = Conf!ParseSources(s).value
      BY <2>4, <2>5, <2>8, <3>2
    <3> QED
      BY <2>7, <3>1, <3>2, <3>3
  <2> QED
    BY <2>2, <2>3, <2>12, <2>13 DEF r
<1> QED
  BY <1>2, <1>3

-----------------------------------------------------------------------------
(* The order of filters and patterns.                                      *)

\* The patterns of a list stand in its order.
LEMMA PatternsKept ==
  ASSUME NEW attrs, \A k \in DOMAIN attrs : attrs[k] \in Values,
         NEW key \in {"include", "exclude"},
         key \in DOMAIN attrs => Conf!FitsFilter(key, attrs[key])
  PROVE  LET ms == Conf!ParseMatchers(Got(attrs, key)).value IN
         [k \in DOMAIN ms |-> ms[k].pattern] = Conf!Patterns(attrs, key)
<1> DEFINE ms == Conf!ParseMatchers(Got(attrs, key)).value
<1>1. CASE key \notin DOMAIN attrs
  <2>1. ms = <<>>
    BY <1>1, Matchers DEF Got
  <2>2. [k \in DOMAIN <<>> |-> <<>>[k].pattern] = <<>>
    OBVIOUS
  <2> HIDE DEF ms
  <2>3. [k \in DOMAIN ms |-> ms[k].pattern] = <<>>
    BY <2>1, <2>2
  <2> QED
    BY <1>1, <2>3 DEF ms, Conf!Patterns
<1>2. CASE key \in DOMAIN attrs
  <2> DEFINE v == attrs[key]
  <2>1. Got(attrs, key) = v /\ v \in Values /\ v # Conf!Absent
    BY <1>2, Shape DEF Got
  <2>2. Conf!Is("array", v) /\ \A i \in DOMAIN v.array : Conf!ValidMatcher(v.array[i])
    BY <1>2 DEF Conf!FitsFilter
  <2>3. Conf!Patterns(attrs, key)
          = [i \in DOMAIN v.array |->
               IF Conf!Is("string", v.array[i]) THEN v.array[i].string
               ELSE v.array[i].object["pattern"].string]
    BY <1>2 DEF Conf!Patterns
  <2> HIDE DEF v
  <2>4. ms = [i \in DOMAIN v.array |-> Conf!ParseMatcher(v.array[i]).value]
    BY <2>1, <2>2, Matchers
  <2>5. ASSUME NEW i \in DOMAIN v.array
        PROVE  Conf!ParseMatcher(v.array[i]).value.pattern
                 = IF Conf!Is("string", v.array[i]) THEN v.array[i].string
                   ELSE v.array[i].object["pattern"].string
    <3>1. v.array[i] \in Values
      BY <2>1, <2>2, Shape, InPlace
    <3> QED
      BY <2>2, <3>1, Matcher
  <2> HIDE DEF ms
  <2>6. DOMAIN ms = DOMAIN v.array /\ \A i \in DOMAIN v.array : ms[i] = Conf!ParseMatcher(v.array[i]).value
    BY <2>4
  <2> QED
    BY <2>3, <2>5, <2>6 DEF ms
<1> QED
  BY <1>1, <1>2

\* So do the patterns of both lists of a filter.
LEMMA FilterOrder ==
  ASSUME NEW f, NEW attrs, \A k \in DOMAIN attrs : attrs[k] \in Values,
         \A k \in {"include", "exclude"} \cap DOMAIN attrs : Conf!FitsFilter(k, attrs[k]),
         f.include = Conf!ParseMatchers(Got(attrs, "include")).value,
         f.exclude = Conf!ParseMatchers(Got(attrs, "exclude")).value
  PROVE  \A key \in {"include", "exclude"} :
           [k \in DOMAIN f[key] |-> f[key][k].pattern] = Conf!Patterns(attrs, key)
<1> SUFFICES ASSUME NEW key \in {"include", "exclude"}
             PROVE  [k \in DOMAIN f[key] |-> f[key][k].pattern] = Conf!Patterns(attrs, key)
  OBVIOUS
<1>1. PICK ms : ms = Conf!ParseMatchers(Got(attrs, key)).value
  OBVIOUS
<1>2. [k \in DOMAIN ms |-> ms[k].pattern] = Conf!Patterns(attrs, key)
  <2>1. key \in DOMAIN attrs => Conf!FitsFilter(key, attrs[key])
    OBVIOUS
  <2> QED
    BY <1>1, <2>1, PatternsKept
<1>3. f[key] = ms
  BY <1>1
<1> QED
  BY <1>2, <1>3

\* So do the filters of a journal source.
LEMMA OrderRead ==
  ASSUME NEW sid, NEW conf \in Values, Conf!Is("object", conf),
         Conf!ParseSource(sid, conf).ok, Conf!ParseSource(sid, conf).value.module = "journal"
  PROVE  Conf!SameOrder(Conf!ParseSource(sid, conf).value, conf.object)
<1> DEFINE source == Conf!ParseSource(sid, conf).value
           attrs == conf.object
           fs == Conf!Listed(attrs)
<1>1. FiltersOf("journal", attrs, source.filters) /\ MatchersFit(attrs)
  BY SourceRead
<1>2. \A k \in DOMAIN attrs : attrs[k] \in Values
  BY Shape
<1> HIDE DEF source
<1>3. CASE "filters" \notin DOMAIN attrs
  <2>1. Len(fs) = 1 /\ DOMAIN fs = {1} /\ fs[1] = attrs
    BY <1>3 DEF Conf!Listed
  <2>2. /\ Len(source.filters) = 1
        /\ source.filters[1].include = Conf!ParseMatchers(Got(attrs, "include")).value
        /\ source.filters[1].exclude = Conf!ParseMatchers(Got(attrs, "exclude")).value
        /\ \A k \in {"include", "exclude"} \cap DOMAIN attrs : Conf!FitsFilter(k, attrs[k])
    BY <1>1, <1>3 DEF FiltersOf, MatchersFit
  <2>3. \A key \in {"include", "exclude"} :
          [k \in DOMAIN source.filters[1][key] |-> source.filters[1][key][k].pattern]
            = Conf!Patterns(attrs, key)
    BY <1>2, <2>2, FilterOrder
  <2> HIDE DEF fs
  <2> QED
    BY <2>1, <2>2, <2>3 DEF fs, source, Conf!SameOrder
<1>4. CASE "filters" \in DOMAIN attrs
  <2> DEFINE a == attrs["filters"].array
  <2>1. /\ Conf!Is("array", attrs["filters"])
        /\ \A i \in DOMAIN a : /\ Conf!Is("object", a[i])
                               /\ Conf!ValidFilter("journal", a[i].object, DOMAIN a[i].object)
    BY <1>1, <1>4 DEF MatchersFit, Conf!ValidFilters
  <2>2. /\ a \in Seq(Values)
    BY <1>2, <1>4, <2>1, Shape
  <2>3. /\ fs = [i \in DOMAIN a |-> a[i].object]
        /\ source.filters = [i \in DOMAIN a |-> Conf!ParseFilter("journal", a[i]).value]
    BY <1>1, <1>4 DEF Conf!Listed, FiltersOf
  <2> HIDE DEF a, fs
  <2>4. DOMAIN a = 1..Len(a) /\ Len(a) \in Nat /\ \A i \in DOMAIN a : a[i] \in Values
    BY <2>2
  <2>5. Len(fs) = Len(a) /\ Len(source.filters) = Len(a) /\ DOMAIN fs = DOMAIN a
    BY <2>3, <2>4
  <2>6. ASSUME NEW i \in DOMAIN a
        PROVE  \A key \in {"include", "exclude"} :
                 [k \in DOMAIN source.filters[i][key] |-> source.filters[i][key][k].pattern]
                   = Conf!Patterns(fs[i], key)
    <3>1. PICK v \in Values : v = a[i]
      BY <2>4
    <3>2. Conf!Is("object", v) /\ Conf!ValidFilter("journal", v.object, DOMAIN v.object)
      BY <2>1, <3>1
    <3>3. PICK f : f = Conf!ParseFilter("journal", v).value
      OBVIOUS
    <3>4. /\ f.include = Conf!ParseMatchers(Got(v.object, "include")).value
          /\ f.exclude = Conf!ParseMatchers(Got(v.object, "exclude")).value
      BY <3>2, <3>3, FilterRead
    <3>5. PICK g : g = v.object
      OBVIOUS
    <3>6. /\ \A k \in DOMAIN g : g[k] \in Values
          /\ \A k \in {"include", "exclude"} \cap DOMAIN g : Conf!FitsFilter(k, g[k])
      BY <3>2, <3>5, Shape DEF Conf!ValidFilter
    <3>7. \A key \in {"include", "exclude"} :
            [k \in DOMAIN f[key] |-> f[key][k].pattern] = Conf!Patterns(g, key)
      BY <3>4, <3>5, <3>6, FilterOrder
    <3>8. source.filters[i] = f /\ fs[i] = g
      BY <2>3, <3>1, <3>3, <3>5
    <3> QED
      BY <3>7, <3>8
  <2> QED
    BY <2>5, <2>6 DEF fs, source, Conf!SameOrder
<1> QED
  BY <1>3, <1>4 DEF source

\* What an accepted document gives has its order.
LEMMA DocumentOrder ==
  ASSUME NEW d \in Documents \ {None}, Conf!Parse(d).ok, "sources" \in DOMAIN d.object,
         NEW source \in Range(Conf!Parse(d).value.sources),
         source.module = "journal",
         Conf!Is("object", d.object["sources"].object[source.id])
  PROVE  Conf!SameOrder(source, d.object["sources"].object[source.id].object)
<1>1. PICK v \in Values :
        /\ v = d.object["sources"]
        /\ Conf!Is("object", v) /\ DOMAIN v.object \subseteq Range(Ids)
        /\ Conf!ParseSources(v).ok
        /\ Conf!Parse(d).value.sources = Conf!ParseSources(v).value
  BY DocumentRead
<1>2. PICK i \in DOMAIN Conf!ParseSources(v).value : source = Conf!ParseSources(v).value[i]
  BY <1>1 DEF Range
<1>3. /\ Ids[i] \in DOMAIN v.object
      /\ Conf!ParseSource(Ids[i], v.object[Ids[i]]).ok
      /\ source = Conf!ParseSource(Ids[i], v.object[Ids[i]]).value
  <2>1. v # Conf!Absent
    BY Shape
  <2> QED
    BY <1>1, <1>2, <2>1, SourcesRead
<1>4. PICK conf \in Values : conf = v.object[Ids[i]]
  BY <1>1, <1>3, Shape
<1>5. source.id = Ids[i]
  BY <1>3, <1>4, SourceRead
<1> QED
  BY <1>1, <1>3, <1>4, <1>5, OrderRead

-----------------------------------------------------------------------------
(* Where the path of an error leads.                                       *)

\* f has what the first n keys of a path lead to.
Follows(f, v, path, n) ==
  f = [k \in 0..n |-> IF k = 0 THEN v ELSE Conf!Child(f[k - 1], path[k])]

\* A path can be followed.
LEMMA Followed ==
  ASSUME NEW v, NEW path, NEW n \in Nat
  PROVE  \E f : Follows(f, v, path, n)
<1> DEFINE bad == {m \in Nat : ~\E f : Follows(f, v, path, m)}
<1>1. ASSUME bad # {} PROVE FALSE
  <2>1. PICK m \in bad : \A i \in bad : m <= i
    <3> HIDE DEF bad
    <3> QED
      BY <1>1, LeastNumber DEF bad
  <2>2. CASE m = 0
    <3>1. Follows([k \in 0..0 |-> v], v, path, 0)
      BY DEF Follows
    <3> QED
      BY <2>1, <2>2, <3>1
  <2>3. CASE m # 0
    <3>1. m \in Nat /\ m - 1 \in Nat /\ m - 1 \notin bad
      BY <2>1, <2>3
    <3>2. PICK f : Follows(f, v, path, m - 1)
      BY <3>1
    <3> DEFINE g == [k \in 0..m |-> IF k < m THEN f[k] ELSE Conf!Child(f[m - 1], path[m])]
    <3>3. \A k \in 0..(m - 1) : f[k] = IF k = 0 THEN v ELSE Conf!Child(f[k - 1], path[k])
      BY <3>1, <3>2 DEF Follows
    <3>4. \A k \in 0..m : g[k] = IF k = 0 THEN v ELSE Conf!Child(g[k - 1], path[k])
      BY <2>3, <3>1, <3>3
    <3>5. g = [k \in 0..m |-> IF k = 0 THEN v ELSE Conf!Child(g[k - 1], path[k])]
      BY <3>4
    <3> QED
      BY <2>1, <3>5 DEF Follows
  <2> QED
    BY <2>2, <2>3
<1> QED
  BY <1>1

\* In one way only.
LEMMA FollowedOnce ==
  ASSUME NEW f, NEW g, NEW v, NEW path, NEW n \in Nat,
         Follows(f, v, path, n), Follows(g, v, path, n)
  PROVE  f[n] = g[n]
<1> DEFINE bad == {m \in 0..n : f[m] # g[m]}
<1>1. ASSUME bad # {} PROVE FALSE
  <2>1. bad \subseteq Nat
    OBVIOUS
  <2>2. PICK m \in bad : \A i \in bad : m <= i
    <3> HIDE DEF bad
    <3> QED
      BY <1>1, <2>1, LeastNumber
  <2>3. m \in Nat /\ m \in 0..n /\ (m # 0 => m - 1 \in 0..n /\ m - 1 \notin bad)
    BY <2>2
  <2>4. \A k \in 0..n : /\ f[k] = IF k = 0 THEN v ELSE Conf!Child(f[k - 1], path[k])
                        /\ g[k] = IF k = 0 THEN v ELSE Conf!Child(g[k - 1], path[k])
    BY DEF Follows
  <2>5. m # 0 => f[m - 1] = g[m - 1]
    BY <2>3
  <2>6. f[m] = g[m]
    BY <2>3, <2>4, <2>5
  <2> QED
    BY <2>2, <2>6
<1>2. n \in 0..n
  OBVIOUS
<1> QED
  BY <1>1, <1>2

\* That is where the path leads.
LEMMA Leads ==
  ASSUME NEW v, NEW path, Len(path) \in Nat, NEW f, Follows(f, v, path, Len(path))
  PROVE  Conf!ValueAt(v, path) = f[Len(path)]
<1> DEFINE reached == CHOOSE g : Follows(g, v, path, Len(path))
<1>1. Conf!ValueAt(v, path) = reached[Len(path)]
  BY DEF Conf!ValueAt, Follows
<1>2. Follows(reached, v, path, Len(path))
  OBVIOUS
<1> HIDE DEF reached
<1> QED
  BY <1>1, <1>2, FollowedOnce

\* The empty path stays.
LEMMA Stays ==
  ASSUME NEW v
  PROVE  Conf!ValueAt(v, <<>>) = v
<1> DEFINE f == [k \in 0..0 |-> v]
<1>1. Follows(f, v, <<>>, 0)
  BY DEF Follows
<1>2. f[0] = v /\ Len(<<>>) = 0
  OBVIOUS
<1> HIDE DEF f
<1> QED
  BY <1>1, <1>2, Leads

\* The first key leads to a child, the rest of the path on from there.
LEMMA Shifts ==
  ASSUME NEW v, NEW key, NEW S, NEW p \in Seq(S)
  PROVE  Conf!ValueAt(v, <<key>> \o p) = Conf!ValueAt(Conf!Child(v, key), p)
<1> DEFINE q == <<key>> \o p
           n == Len(p)
<1>1. /\ n \in Nat /\ Len(q) = n + 1 /\ q[1] = key
      /\ \A k \in 1..n : q[k + 1] = p[k]
  OBVIOUS
<1>2. PICK f : Follows(f, Conf!Child(v, key), p, n)
  BY Followed
<1> DEFINE g == [k \in 0..(n + 1) |-> IF k = 0 THEN v ELSE f[k - 1]]
<1> HIDE DEF q, n
<1>3. \A k \in 0..n : f[k] = IF k = 0 THEN Conf!Child(v, key) ELSE Conf!Child(f[k - 1], p[k])
  BY <1>2 DEF Follows
<1>4. \A k \in 0..(n + 1) : g[k] = IF k = 0 THEN v ELSE Conf!Child(g[k - 1], q[k])
  <2>1. g[0] = v
    BY <1>1
  <2>2. g[1] = Conf!Child(g[0], q[1])
    BY <1>1, <1>3
  <2>3. ASSUME NEW k \in 2..(n + 1)
        PROVE  g[k] = Conf!Child(g[k - 1], q[k])
    <3>1. k - 1 \in 1..n /\ k - 2 \in 0..n /\ (k - 1) + 1 = k /\ (k - 1) - 1 = k - 2
      BY <1>1
    <3>2. q[k] = p[k - 1]
      BY <1>1, <3>1
    <3>3. g[k] = f[k - 1] /\ g[k - 1] = f[k - 2]
      BY <1>1, <3>1
    <3>4. f[k - 1] = Conf!Child(f[k - 2], p[k - 1])
      BY <1>1, <1>3, <3>1
    <3> QED
      BY <3>2, <3>3, <3>4
  <2> HIDE DEF g
  <2> QED
    BY <1>1, <2>1, <2>2, <2>3
<1>5. Follows(g, v, q, n + 1)
  BY <1>4 DEF Follows
<1>6. g[n + 1] = f[n]
  BY <1>1
<1> HIDE DEF g
<1>7. Conf!ValueAt(v, q) = g[n + 1]
  <2>1. Len(q) \in Nat /\ Follows(g, v, q, Len(q))
    BY <1>1, <1>5
  <2> QED
    BY <1>1, <2>1, Leads
<1>8. Conf!ValueAt(Conf!Child(v, key), p) = f[n]
  <2>1. Len(p) \in Nat /\ Follows(f, Conf!Child(v, key), p, Len(p))
    BY <1>1, <1>2 DEF n
  <2> QED
    BY <2>1, Leads DEF n
<1> QED
  BY <1>6, <1>7, <1>8 DEF q

\* A reversed context, one key longer.
LEMMA ReverseAppend ==
  ASSUME NEW S, NEW c \in Seq(S), NEW key
  PROVE  Conf!Reverse(Append(c, key)) = <<key>> \o Conf!Reverse(c)
<1> DEFINE a == Append(c, key)
           n == Len(c)
           r == Conf!Reverse(c)
<1>1. /\ n \in Nat /\ Len(a) = n + 1 /\ a[n + 1] = key
      /\ \A i \in 1..n : a[i] = c[i]
  OBVIOUS
<1>2. /\ r = [i \in 1..n |-> c[n - i + 1]]
      /\ Conf!Reverse(a) = [i \in 1..(n + 1) |-> a[(n + 1) - i + 1]]
  BY <1>1 DEF Conf!Reverse
<1>3. r \in Seq(S) /\ Len(r) = n
  BY <1>2
<1> HIDE DEF a, r
<1>4. /\ DOMAIN (<<key>> \o r) = 1..(n + 1)
      /\ (<<key>> \o r)[1] = key
      /\ \A i \in 2..(n + 1) : (<<key>> \o r)[i] = r[i - 1]
      /\ (<<key>> \o r) = [i \in 1..(n + 1) |-> (<<key>> \o r)[i]]
  BY <1>1, <1>3
<1>5. \A i \in 1..(n + 1) : (<<key>> \o r)[i] = a[(n + 1) - i + 1]
  <2>1. a[(n + 1) - 1 + 1] = key
    BY <1>1
  <2>2. ASSUME NEW i \in 2..(n + 1)
        PROVE  r[i - 1] = a[(n + 1) - i + 1]
    <3>1. PICK j \in 1..n : i = j + 1
      BY <1>1
    <3>2. n - j + 1 \in 1..n /\ (n + 1) - i + 1 = n - j + 1 /\ i - 1 = j
      BY <1>1, <3>1
    <3>3. r[j] = c[n - j + 1]
      BY <1>2, <3>1
    <3> QED
      BY <1>1, <3>2, <3>3
  <2>3. \A i \in 1..(n + 1) : i = 1 \/ i \in 2..(n + 1)
    BY <1>1
  <2> QED
    BY <1>4, <2>1, <2>2, <2>3
<1> QED
  BY <1>2, <1>4, <1>5 DEF a, r

\* All keys of a path but the last.
LEMMA FrontShifted ==
  ASSUME NEW S, NEW p \in Seq(S), p # <<>>, NEW key
  PROVE  Conf!Front(p) \in Seq(S) /\ Conf!Front(<<key>> \o p) = <<key>> \o Conf!Front(p)
<1>1. Len(p) \in Nat \ {0} /\ Len(<<key>> \o p) = Len(p) + 1
  OBVIOUS
<1>2. Conf!Front(p) = SubSeq(p, 1, Len(p) - 1) /\ Conf!Front(p) \in Seq(S)
  BY <1>1 DEF Conf!Front
<1>3. Conf!Front(<<key>> \o p) = SubSeq(<<key>> \o p, 1, Len(p))
  BY <1>1 DEF Conf!Front
<1>4. SubSeq(<<key>> \o p, 1, Len(p)) = <<key>> \o SubSeq(p, 1, Len(p) - 1)
  BY <1>1
<1> QED
  BY <1>2, <1>3, <1>4

\* A key that is not there has no type.
LEMMA AbsentShape == ~Conf!Is("object", Conf!Absent) /\ ~Conf!Is("array", Conf!Absent)
<1>1. DOMAIN Conf!Absent = {"absent"}
  BY DEF Conf!Absent
<1> QED
  BY <1>1 DEF Conf!Is

\* An error is a panic in chrono, or leads to what is wrong.
Explained(r, v) ==
  \/ r.ok
  \/ r.value = "panic"
  \/ (\E S : r.context \in Seq(S)) /\ Conf!Explains(r.value, v, Conf!Path(r))

\* So does the error of a child, once it is annotated.
LEMMA Deeper ==
  ASSUME NEW v, NEW key, NEW r, Explained(r, Conf!Child(v, key))
  PROVE  Explained(Conf!Annotate(key, r), v)
<1>1. CASE r.ok \/ r.value = "panic"
  BY <1>1 DEF Explained, Conf!Annotate
<1>2. CASE ~r.ok /\ r.value # "panic"
  <2>1. PICK S : r.context \in Seq(S)
    BY <1>2 DEF Explained
  <2> DEFINE a == Conf!Annotate(key, r)
             p == Conf!Path(r)
  <2>2. ~a.ok /\ a.value = r.value /\ a.context = Append(r.context, key)
    BY <1>2 DEF Conf!Annotate
  <2>3. a.context \in Seq(S \cup {key})
    BY <2>1, <2>2
  <2>4. p \in Seq(S)
    BY <2>1 DEF Conf!Path, Conf!Reverse
  <2>5. Conf!Path(a) = <<key>> \o p
    <3>1. PICK c \in Seq(S) : c = r.context
      BY <2>1
    <3>2. Conf!Reverse(Append(c, key)) = <<key>> \o Conf!Reverse(c)
      BY ReverseAppend
    <3> QED
      BY <2>2, <3>1, <3>2 DEF Conf!Path
  <2>6. Conf!ValueAt(v, <<key>> \o p) = Conf!ValueAt(Conf!Child(v, key), p)
    BY <2>4, Shifts
  <2>7. Conf!Explains(r.value, Conf!Child(v, key), p)
    BY <1>2 DEF Explained
  <2>8. Conf!Explains(r.value, v, <<key>> \o p)
    <3>1. CASE r.value # "missing"
      BY <2>6, <2>7, <3>1 DEF Conf!Explains
    <3>2. CASE r.value = "missing"
      <4>1. p # <<>>
        <5>1. Conf!Front(<<>>) = <<>>
          BY DEF Conf!Front
        <5>2. ~Conf!Is("object", Conf!Absent)
          BY AbsentShape
        <5> QED
          BY <2>7, <3>2, <5>1, <5>2, Stays DEF Conf!Explains
      <4>2. Conf!Front(p) \in Seq(S) /\ Conf!Front(<<key>> \o p) = <<key>> \o Conf!Front(p)
        BY <2>4, <4>1, FrontShifted
      <4>3. Conf!ValueAt(v, <<key>> \o Conf!Front(p)) = Conf!ValueAt(Conf!Child(v, key), Conf!Front(p))
        BY <4>2, Shifts
      <4> QED
        BY <2>6, <2>7, <3>2, <4>2, <4>3 DEF Conf!Explains
    <3> QED
      BY <3>1, <3>2
  <2> HIDE DEF a, p
  <2> QED
    BY <2>2, <2>3, <2>5, <2>8 DEF Explained, a
<1> QED
  BY <1>1, <1>2

\* An error that is not annotated yet.
LEMMA NewError ==
  ASSUME NEW reason
  PROVE  /\ <<>> \in Seq({})
         /\ Conf!Fail(reason).value = reason
         /\ Conf!Fail(reason).context = <<>>
         /\ Conf!Path(Conf!Fail(reason)) = <<>>
<1>1. Conf!Fail(reason).value = reason /\ Conf!Fail(reason).context = <<>>
  BY DEF Conf!Fail
<1>2. <<>> \in Seq({})
  OBVIOUS
<1>3. Conf!Path(Conf!Fail(reason)) = <<>>
  BY <1>1 DEF Conf!Path, Conf!Reverse
<1> QED
  BY <1>1, <1>2, <1>3

\* A reason that holds of a value, before it is annotated.
LEMMA Here ==
  ASSUME NEW v \in Values, NEW reason, reason # "missing",
         reason \in {"unused", "unsupported", "pattern"} => Conf!Is("object", v),
         reason \in {"severity", "duration"} => Conf!Is("string", v),
         reason \in Conf!JsonTypes => Conf!Is(reason, v),
         reason = "unknown module" => Conf!Is("object", v) \/ v = [boolean |-> TRUE]
  PROVE  Explained(Conf!Fail(reason), v)
<1>1. v # Conf!Absent
  BY Shape
<1>2. Conf!Explains(reason, v, <<>>)
  BY <1>1, Stays DEF Conf!Explains
<1> QED
  BY <1>2, NewError DEF Explained

\* A value of the wrong type: the error tells the type that it has.
LEMMA MismatchExplained ==
  ASSUME NEW v \in Values
  PROVE  Explained(Conf!Mismatch(v), v)
<1>1. PICK t \in Conf!JsonTypes : Conf!Is(t, v)
  BY DocumentAssumption DEF Conf!JsonValues
<1>2. Conf!TypeOf(v) = t
  BY <1>1 DEF Conf!TypeOf, Conf!Is
<1>3. t \notin {"missing", "unused", "unsupported", "pattern", "severity", "duration", "unknown module"}
  BY <1>1 DEF Conf!JsonTypes
<1>4. Explained(Conf!Fail(t), v)
  BY <1>1, <1>3, Here
<1> QED
  BY <1>2, <1>4 DEF Conf!Mismatch

\* The child of an object, and that of an array.
LEMMA Children ==
  ASSUME NEW v \in Values
  PROVE  /\ Conf!Is("object", v) =>
              \A key : Conf!Child(v, key) = Got(v.object, key)
         /\ Conf!Is("array", v) =>
              \A i \in DOMAIN v.array : Conf!Child(v, Conf!Index(i)) = v.array[i]
<1>1. ASSUME Conf!Is("object", v), NEW key
      PROVE  Conf!Child(v, key) = Got(v.object, key)
  <2>1. ~Conf!Is("array", v)
    BY <1>1 DEF Conf!Is
  <2> QED
    BY <1>1, <2>1 DEF Conf!Child, Got
<1>2. ASSUME Conf!Is("array", v), NEW i \in DOMAIN v.array
      PROVE  Conf!Child(v, Conf!Index(i)) = v.array[i]
  <2>1. ~Conf!Is("object", v)
    BY <1>2 DEF Conf!Is
  <2>2. \A k \in DOMAIN v.array : Conf!Index(k) = Conf!Index(i) => k = i
    BY <1>2, DocumentAssumption
  <2> QED
    BY <1>2, <2>1, <2>2 DEF Conf!Child
<1> QED
  BY <1>1, <1>2

\* An error of a field: of its value, or of a field that is missing.
LEMMA FieldExplained ==
  ASSUME NEW v \in Values, Conf!Is("object", v), NEW key, NEW r,
         \/ r.ok
         \/ key \in DOMAIN v.object /\ Explained(r, v.object[key])
         \/ key \notin DOMAIN v.object /\ r = Conf!Fail("missing")
  PROVE  Explained(Conf!Annotate(key, r), v)
<1>1. CASE key \in DOMAIN v.object /\ Explained(r, v.object[key])
  <2>1. Conf!Child(v, key) = v.object[key]
    BY <1>1, Children DEF Got
  <2> QED
    BY <1>1, <2>1, Deeper
<1>2. CASE r.ok
  BY <1>2 DEF Explained, Conf!Annotate
<1>3. CASE key \notin DOMAIN v.object /\ r = Conf!Fail("missing")
  <2> DEFINE a == Conf!Annotate(key, r)
  <2>1. a = [ok |-> FALSE, value |-> "missing", context |-> <<key>>]
    BY <1>3 DEF Conf!Annotate, Conf!Fail
  <2>2. Conf!Path(a) = <<key>> /\ <<key>> = <<key>> \o <<>> /\ <<key>> \in Seq({key})
    BY <2>1 DEF Conf!Path, Conf!Reverse
  <2>3. Conf!ValueAt(v, <<key>>) = Conf!Absent
    <3>1. Conf!Child(v, key) = Conf!Absent
      BY <1>3, Children DEF Got
    <3>2. Conf!ValueAt(v, <<key>> \o <<>>) = Conf!ValueAt(Conf!Absent, <<>>)
      <4>1. <<>> \in Seq({})
        BY NewError
      <4>2. Conf!ValueAt(v, <<key>> \o <<>>) = Conf!ValueAt(Conf!Child(v, key), <<>>)
        BY <4>1, Shifts
      <4> QED
        BY <3>1, <4>2
    <3> QED
      BY <2>2, <3>2, Stays
  <2>4. Conf!Front(<<key>>) = <<>>
    BY DEF Conf!Front
  <2>5. Conf!Explains("missing", v, <<key>>)
    BY <2>3, <2>4, Stays DEF Conf!Explains
  <2> HIDE DEF a
  <2>6. Explained(a, v)
    <3>1. \E S : a.context \in Seq(S)
      BY <2>1, <2>2
    <3> QED
      BY <2>1, <2>2, <2>5, <3>1 DEF Explained
  <2> QED
    BY <2>6 DEF a
<1> QED
  BY <1>1, <1>2, <1>3

\* The first error of many is one of them.
LEMMA RunExplained ==
  ASSUME NEW v, NEW rs, DOMAIN rs \subseteq Nat, \A i \in DOMAIN rs : Explained(rs[i], v)
  PROVE  Explained(Conf!RunM(rs), v)
<1>1. CASE \A i \in DOMAIN rs : rs[i].ok
  BY <1>1, RunAll DEF Explained
<1>2. CASE \E i \in DOMAIN rs : ~rs[i].ok
  <2>1. PICK i \in DOMAIN rs : Conf!RunM(rs) = rs[i]
    BY <1>2, FirstBad
  <2> QED
    BY <2>1
<1> QED
  BY <1>1, <1>2

LEMMA ResultsExplained ==
  ASSUME NEW v, NEW fields, DOMAIN fields \subseteq Nat,
         \A i \in DOMAIN fields : Explained(fields[i].result, v)
  PROVE  Explained(Conf!Results(fields), v)
<1> DEFINE rs == [i \in DOMAIN fields |-> fields[i].result]
<1>1. Conf!Results(fields) = Conf!RunM(rs) /\ DOMAIN rs = DOMAIN fields
  BY DEF Conf!Results
<1>2. \A i \in DOMAIN rs : Explained(rs[i], v)
  OBVIOUS
<1> HIDE DEF rs
<1> QED
  BY <1>1, <1>2, RunExplained

\* A key that is left over is an error of the object.
LEMMA ConsumeExplained ==
  ASSUME NEW v \in Values, Conf!Is("object", v), NEW attrs, NEW fields, NEW rv, Explained(rv, v)
  PROVE  Explained(Conf!Consume(attrs, fields, rv), v)
<1>1. Explained(Conf!Fail("unused"), v)
  BY Here DEF Conf!JsonTypes
<1> QED
  BY <1>1 DEF Conf!Consume

-----------------------------------------------------------------------------
(* Where the errors of each function lead.                                 *)

\* A value of the wrong type.
LEMMA TypeExplained ==
  ASSUME NEW v \in Values, NEW type
  PROVE  Explained(Conf!AsType(type, v), v)
<1>1. Explained(Conf!Mismatch(v), v)
  BY MismatchExplained
<1>2. Explained(Conf!Ok(v[type]), v)
  BY DEF Explained, Conf!Ok
<1> QED
  BY <1>1, <1>2 DEF Conf!AsType

\* The errors of a matcher.
LEMMA MatcherExplained ==
  ASSUME NEW v \in Values
  PROVE  Explained(Conf!ParseMatcher(v), v)
<1>1. CASE Conf!Is("string", v)
  BY <1>1 DEF Conf!ParseMatcher, Conf!Then, Conf!Field, Conf!Optional, Conf!Ok, Explained
<1>2. CASE Conf!Is("object", v)
  <2> DEFINE Get(k) == Got(v.object, k)
             Text(x) == IF Conf!Mandatory(x).ok THEN Conf!AsString(Conf!Mandatory(x).value)
                        ELSE Conf!Mandatory(x)
             Opt(x) == IF x = Conf!Absent THEN Conf!Ok(None) ELSE Conf!AsString(x)
             fields == <<[key |-> "attr", result |-> Conf!Annotate("attr", Opt(Get("attr")))],
                         [key |-> "type", result |-> Conf!Annotate("type", Text(Get("type")))],
                         [key |-> "pattern",
                          result |-> Conf!Annotate("pattern", Text(Get("pattern")))]>>
             Built(f) ==
               IF f[2] \notin Conf!Kinds THEN Conf!Fail("unsupported")
               ELSE IF f[2] # "literal" /\ f[3] \in BadPatterns THEN Conf!Fail("pattern")
               ELSE Conf!Ok([attr |-> f[1], kind |-> f[2], pattern |-> f[3]])
             rs == Conf!Results(fields)
             rv == IF rs.ok THEN Built(rs.value) ELSE rs
  <2>1. Conf!ParseMatcher(v) = Conf!Consume(v.object, fields, rv)
    <3>1. ~Conf!Is("string", v)
      BY <1>2 DEF Conf!Is
    <3> QED
      BY <1>2, <3>1 DEF Got, Conf!ParseMatcher, Conf!Then, Conf!Field, Conf!Optional
  <2>2. ASSUME NEW k \in {"attr", "type", "pattern"}
        PROVE  /\ k \in DOMAIN v.object =>
                    Explained(Opt(Get(k)), v.object[k]) /\ Explained(Text(Get(k)), v.object[k])
               /\ k \notin DOMAIN v.object =>
                    Opt(Get(k)).ok /\ Text(Get(k)) = Conf!Fail("missing")
    <3>1. CASE k \in DOMAIN v.object
      <4>1. PICK x \in Values : x = Get(k) /\ x = v.object[k] /\ x # Conf!Absent
        BY <1>2, <3>1, Shape DEF Got
      <4>2. Opt(x) = Conf!AsString(x) /\ Text(x) = Conf!AsString(x)
        BY <4>1 DEF Conf!Mandatory, Conf!Ok
      <4>3. Explained(Conf!AsString(x), x)
        BY TypeExplained DEF Conf!AsString
      <4> HIDE DEF Opt, Text, Get
      <4> QED
        BY <3>1, <4>1, <4>2, <4>3
    <3>2. CASE k \notin DOMAIN v.object
      BY <3>2 DEF Got, Conf!Mandatory, Conf!Ok, Conf!Fail
    <3> QED
      BY <3>1, <3>2
  <2> HIDE DEF Opt, Text, Get
  <2>3. /\ Explained(Conf!Annotate("attr", Opt(Get("attr"))), v)
        /\ Explained(Conf!Annotate("type", Text(Get("type"))), v)
        /\ Explained(Conf!Annotate("pattern", Text(Get("pattern"))), v)
    BY <1>2, <2>2, FieldExplained
  <2>4. DOMAIN fields \subseteq Nat /\ \A i \in DOMAIN fields : Explained(fields[i].result, v)
    BY <2>3
  <2>5. Explained(rs, v)
    <3> HIDE DEF fields
    <3> QED
      BY <2>4, ResultsExplained
  <2>6. Explained(rv, v)
    <3>1. Explained(Conf!Fail("unsupported"), v) /\ Explained(Conf!Fail("pattern"), v)
      BY <1>2, Here DEF Conf!JsonTypes
    <3>2. \A x : Explained(Conf!Ok(x), v)
      BY DEF Explained, Conf!Ok
    <3> HIDE DEF rs
    <3> QED
      BY <2>5, <3>1, <3>2
  <2> HIDE DEF rv, fields
  <2> QED
    BY <1>2, <2>1, <2>6, ConsumeExplained
<1>3. CASE ~Conf!Is("string", v) /\ ~Conf!Is("object", v)
  <2>1. Conf!ParseMatcher(v) = Conf!Mismatch(v)
    BY <1>3 DEF Conf!ParseMatcher, Conf!Then, Conf!Field, Conf!Optional
  <2> QED
    BY <2>1, MismatchExplained
<1> QED
  BY <1>1, <1>2, <1>3

\* An error of an element is one of its array.
LEMMA ArrayExplained ==
  ASSUME NEW v \in Values, Conf!Is("array", v), NEW rs, DOMAIN rs = DOMAIN v.array,
         \A i \in DOMAIN v.array :
           \E r : rs[i] = Conf!Annotate(Conf!Index(i), r) /\ Explained(r, v.array[i])
  PROVE  Explained(Conf!RunM(rs), v)
<1>1. DOMAIN rs \subseteq Nat
  BY Shape, InPlace
<1>2. ASSUME NEW i \in DOMAIN rs
      PROVE  Explained(rs[i], v)
  <2>1. PICK r : rs[i] = Conf!Annotate(Conf!Index(i), r) /\ Explained(r, v.array[i])
    OBVIOUS
  <2>2. Conf!Child(v, Conf!Index(i)) = v.array[i]
    BY Children
  <2> QED
    BY <2>1, <2>2, Deeper
<1> QED
  BY <1>1, <1>2, RunExplained

\* The errors of a list of matchers.
LEMMA MatchersExplained ==
  ASSUME NEW v \in Values
  PROVE  Explained(Conf!ParseMatchers(v), v)
<1>1. v # Conf!Absent
  BY Shape
<1>2. CASE ~Conf!Is("array", v)
  <2>1. Conf!ParseMatchers(v) = Conf!Mismatch(v)
    BY <1>1, <1>2 DEF Conf!ParseMatchers, Conf!MapJson, Conf!Then, Conf!AsType, Conf!Mismatch, Conf!Fail
  <2> QED
    BY <2>1, MismatchExplained
<1>3. CASE Conf!Is("array", v)
  <2> DEFINE rs == [i \in DOMAIN v.array |->
                      Conf!Annotate(Conf!Index(i), Conf!ParseMatcher(Conf!Consumed(v.array)[i]))]
  <2>1. Conf!ParseMatchers(v) = Conf!RunM(rs)
    BY <1>1, <1>3 DEF Conf!ParseMatchers, Conf!MapJson, Conf!Then, Conf!AsType, Conf!Ok
  <2>2. ASSUME NEW i \in DOMAIN v.array
        PROVE  \E r : rs[i] = Conf!Annotate(Conf!Index(i), r) /\ Explained(r, v.array[i])
    <3>1. Conf!Consumed(v.array)[i] = v.array[i] /\ v.array[i] \in Values
      BY <1>3, Shape, InPlace
    <3>2. Explained(Conf!ParseMatcher(v.array[i]), v.array[i])
      BY <3>1, MatcherExplained
    <3> QED
      BY <3>1, <3>2
  <2>3. DOMAIN rs = DOMAIN v.array
    OBVIOUS
  <2> HIDE DEF rs
  <2> QED
    BY <1>3, <2>1, <2>2, <2>3, ArrayExplained
<1> QED
  BY <1>2, <1>3

\* attrs are attributes of the object v.
Within(attrs, v) ==
  /\ Conf!Is("object", v)
  /\ \A k \in DOMAIN attrs : k \in DOMAIN v.object /\ attrs[k] = v.object[k] /\ attrs[k] \in Values

\* An error of an attribute that may be absent.
LEMMA AttributeExplained ==
  ASSUME NEW v \in Values, NEW attrs, Within(attrs, v), NEW key, NEW r,
         key \notin DOMAIN attrs => r.ok,
         key \in DOMAIN attrs => Explained(r, attrs[key])
  PROVE  Explained(Conf!Annotate(key, r), v)
BY FieldExplained DEF Within

\* The errors of a filter's fields.
LEMMA FilterFieldsExplained ==
  ASSUME NEW m \in {"systemd", "journal"}, NEW v \in Values, NEW attrs, Within(attrs, v)
  PROVE  \A i \in DOMAIN Conf!FilterFields(m, attrs) :
           Explained(Conf!FilterFields(m, attrs)[i].result, v)
<1> DEFINE Level(x) == IF x = Conf!Absent THEN Conf!Ok(None)
                       ELSE IF Conf!AsString(x).ok THEN Conf!AsSeverity(Conf!AsString(x).value)
                       ELSE Conf!AsString(x)
           Extend(x) == IF x = Conf!Absent THEN Conf!Ok(None) ELSE Conf!AsObject(x)
           include == Conf!Annotate("include", Conf!ParseMatchers(Got(attrs, "include")))
           exclude == Conf!Annotate("exclude", Conf!ParseMatchers(Got(attrs, "exclude")))
           level == Conf!Annotate("level", Level(Got(attrs, "level")))
           extend == Conf!Annotate("attr_extend", Extend(Got(attrs, "attr_extend")))
           common == <<[key |-> "include", result |-> include],
                       [key |-> "exclude", result |-> exclude]>>
           own == <<[key |-> "level", result |-> level], [key |-> "attr_extend", result |-> extend]>>
           fs == Conf!FilterFields(m, attrs)
<1>1. fs = common \o IF m = "systemd" THEN <<>> ELSE own
  BY DEF Got, Conf!FilterFields, Conf!Field, Conf!Optional, Conf!Then
<1>2. \A k \in {"include", "exclude"} : Explained(Conf!Annotate(k, Conf!ParseMatchers(Got(attrs, k))), v)
  <2> SUFFICES ASSUME NEW k \in {"include", "exclude"}
               PROVE  Explained(Conf!Annotate(k, Conf!ParseMatchers(Got(attrs, k))), v)
    OBVIOUS
  <2>1. PICK x : x = Got(attrs, k)
    OBVIOUS
  <2>2. k \notin DOMAIN attrs => Conf!ParseMatchers(x).ok
    BY <2>1, Matchers DEF Got
  <2>3. k \in DOMAIN attrs => Explained(Conf!ParseMatchers(x), attrs[k])
    BY <2>1, MatchersExplained DEF Got, Within
  <2> QED
    BY <2>1, <2>2, <2>3, AttributeExplained
<1>3. Explained(level, v)
  <2> DEFINE r == Level(Got(attrs, "level"))
  <2>1. "level" \notin DOMAIN attrs => r.ok
    BY DEF Got, Conf!Ok
  <2>2. ASSUME "level" \in DOMAIN attrs
        PROVE  Explained(r, attrs["level"])
    <3>1. PICK x \in Values : x = attrs["level"] /\ x = Got(attrs, "level") /\ x # Conf!Absent
      BY <2>2, Shape DEF Got, Within
    <3>2. Explained(Conf!AsString(x), x)
      BY TypeExplained DEF Conf!AsString
    <3>3. ASSUME Conf!AsString(x).ok
          PROVE  Explained(Conf!AsSeverity(Conf!AsString(x).value), x)
      <4>1. Conf!Is("string", x)
        BY <3>3 DEF Conf!AsString, Conf!AsType, Conf!Mismatch, Conf!Fail
      <4>2. Explained(Conf!Fail("severity"), x)
        BY <4>1, Here DEF Conf!JsonTypes
      <4>3. \A s : Explained(Conf!Ok(s), x)
        BY DEF Explained, Conf!Ok
      <4> QED
        BY <4>2, <4>3 DEF Conf!AsSeverity
    <3>4. Explained(Level(x), x)
      BY <3>1, <3>2, <3>3
    <3> HIDE DEF Level
    <3> QED
      BY <3>1, <3>4
  <2> HIDE DEF r
  <2>3. Explained(Conf!Annotate("level", r), v)
    BY <2>1, <2>2, AttributeExplained
  <2> QED
    BY <2>3 DEF r
<1>4. Explained(extend, v)
  <2> DEFINE r == Extend(Got(attrs, "attr_extend"))
  <2>1. "attr_extend" \notin DOMAIN attrs => r.ok
    BY DEF Got, Conf!Ok
  <2>2. ASSUME "attr_extend" \in DOMAIN attrs
        PROVE  Explained(r, attrs["attr_extend"])
    <3>1. PICK x \in Values : x = attrs["attr_extend"] /\ x = Got(attrs, "attr_extend") /\ x # Conf!Absent
      BY <2>2, Shape DEF Got, Within
    <3>2. Explained(Conf!AsObject(x), x)
      BY TypeExplained DEF Conf!AsObject
    <3>3. r = Conf!AsObject(x)
      BY <3>1
    <3> HIDE DEF r
    <3> QED
      BY <3>1, <3>2, <3>3
  <2> HIDE DEF r
  <2>3. Explained(Conf!Annotate("attr_extend", r), v)
    BY <2>1, <2>2, AttributeExplained
  <2> QED
    BY <2>3 DEF r
<1> HIDE DEF level, extend
<1>5. /\ \A i \in DOMAIN common : Explained(common[i].result, v)
      /\ \A i \in DOMAIN (common \o own) : Explained((common \o own)[i].result, v)
  BY <1>2, <1>3, <1>4
<1>6. common \o <<>> = common
  OBVIOUS
<1> HIDE DEF common, own, fs
<1> QED
  BY <1>1, <1>5, <1>6 DEF fs

\* The errors of a filter.
LEMMA FilterExplained ==
  ASSUME NEW m \in {"systemd", "journal"}, NEW v \in Values
  PROVE  Explained(Conf!ParseFilter(m, v), v)
<1>1. CASE ~Conf!Is("object", v)
  <2>1. Conf!ParseFilter(m, v) = Conf!Mismatch(v)
    BY <1>1 DEF Conf!ParseFilter, Conf!Then, Conf!AsObject, Conf!AsType, Conf!Mismatch, Conf!Fail
  <2> QED
    BY <2>1, MismatchExplained
<1>2. CASE Conf!Is("object", v)
  <2> DEFINE fs == Conf!FilterFields(m, v.object)
             rs == Conf!Results(fs)
             rv == IF rs.ok THEN Conf!Ok(Conf!MakeFilter(m, rs.value)) ELSE rs
  <2>1. Conf!ParseFilter(m, v) = Conf!Consume(v.object, fs, rv)
    BY <1>2 DEF Conf!ParseFilter, Conf!Then, Conf!AsObject, Conf!AsType, Conf!Ok
  <2>2. PICK attrs : attrs = v.object /\ Within(attrs, v)
    BY <1>2, Shape DEF Within
  <2>3. \A i \in DOMAIN fs : Explained(fs[i].result, v)
    BY <2>2, FilterFieldsExplained
  <2>4. DOMAIN fs \subseteq Nat
    <3>1. \A k \in DOMAIN attrs : attrs[k] \in Values
      BY <2>2 DEF Within
    <3>2. FilterFieldsOf(m, attrs, Conf!FilterFields(m, attrs))
      BY <3>1, FilterFieldsRead
    <3> QED
      BY <2>2, <3>2 DEF FilterFieldsOf
  <2> HIDE DEF fs
  <2>5. Explained(rs, v)
    BY <2>3, <2>4, ResultsExplained
  <2> HIDE DEF rs
  <2>6. Explained(rv, v)
    BY <2>5 DEF Explained, Conf!Ok
  <2> HIDE DEF rv
  <2> QED
    BY <1>2, <2>1, <2>6, ConsumeExplained
<1> QED
  BY <1>1, <1>2

\* The errors of a list of filters.
LEMMA FilterListExplained ==
  ASSUME NEW m \in {"systemd", "journal"}, NEW v \in Values
  PROVE  Explained(FilterList(m, v), v)
<1>1. v # Conf!Absent
  BY Shape
<1>2. CASE ~Conf!Is("array", v)
  <2>1. FilterList(m, v) = Conf!Mismatch(v)
    BY <1>1, <1>2 DEF FilterList, Conf!MapJson, Conf!Then, Conf!AsType, Conf!Mismatch, Conf!Fail
  <2> QED
    BY <2>1, MismatchExplained
<1>3. CASE Conf!Is("array", v)
  <2> DEFINE rs == [i \in DOMAIN v.array |->
                      Conf!Annotate(Conf!Index(i), Conf!ParseFilter(m, Conf!Consumed(v.array)[i]))]
  <2>1. FilterList(m, v) = Conf!RunM(rs)
    BY <1>1, <1>3 DEF FilterList, Conf!MapJson, Conf!Then, Conf!AsType, Conf!Ok
  <2>2. ASSUME NEW i \in DOMAIN v.array
        PROVE  \E r : rs[i] = Conf!Annotate(Conf!Index(i), r) /\ Explained(r, v.array[i])
    <3>1. Conf!Consumed(v.array)[i] = v.array[i] /\ v.array[i] \in Values
      BY <1>3, Shape, InPlace
    <3>2. Explained(Conf!ParseFilter(m, v.array[i]), v.array[i])
      BY <3>1, FilterExplained
    <3> QED
      BY <3>1, <3>2
  <2>3. DOMAIN rs = DOMAIN v.array
    OBVIOUS
  <2> HIDE DEF rs
  <2> QED
    BY <1>3, <2>1, <2>2, <2>3, ArrayExplained
<1> QED
  BY <1>2, <1>3

\* The errors of a source's attributes.
LEMMA ModuleExplained ==
  ASSUME NEW m \in {"systemd", "journal"}, NEW sid, NEW v \in Values, NEW attrs, Within(attrs, v)
  PROVE  Explained(Conf!ParseModule(m, sid, attrs), v)
<1> DEFINE listed == FilterList(m, Got(attrs, "filters"))
           list == [key |-> "filters", result |-> Conf!Annotate("filters", listed)]
           single == "filters" \notin DOMAIN attrs
           fs == Conf!FilterFields(m, attrs)
           own == Conf!OwnField(m, attrs)
           fields == <<list>> \o (IF single THEN fs ELSE <<>>) \o <<own>>
           rs == Conf!Results(fields)
           filters == IF single THEN <<Conf!MakeFilter(m, SubSeq(rs.value, 2, Len(rs.value) - 1))>>
                      ELSE rs.value[1]
           rv == IF rs.ok THEN Conf!Ok(Conf!Source(m, sid, filters, Conf!Last(rs.value))) ELSE rs
<1>1. Conf!ParseModule(m, sid, attrs) = Conf!Consume(attrs, fields, rv)
  BY DEF Conf!ParseModule, Conf!Then, Conf!Field, Conf!Optional, FilterList, Got, Conf!Ok
<1>2. Explained(list.result, v)
  <2>1. PICK x : x = Got(attrs, "filters")
    OBVIOUS
  <2>2. "filters" \notin DOMAIN attrs => FilterList(m, x).ok
    BY <2>1, FilterListRead DEF Got
  <2>3. "filters" \in DOMAIN attrs => Explained(FilterList(m, x), attrs["filters"])
    BY <2>1, FilterListExplained DEF Got, Within
  <2> QED
    BY <2>1, <2>2, <2>3, AttributeExplained
<1>3. Explained(own.result, v)
  <2> DEFINE User(x) == IF x = Conf!Absent THEN Conf!Ok(None) ELSE Conf!AsBoolean(x)
             Backlog(x) == IF x = Conf!Absent THEN Conf!Ok(None) ELSE Conf!AsI32(x)
  <2>1. own.result = IF m = "systemd" THEN Conf!Annotate("user", User(Got(attrs, "user")))
                     ELSE Conf!Annotate("backlog", Backlog(Got(attrs, "backlog")))
    BY DEF Conf!OwnField, Conf!Field, Conf!Optional, Got
  <2>2. ASSUME NEW k
        PROVE  Explained(Conf!Annotate(k, User(Got(attrs, k))), v)
               /\ Explained(Conf!Annotate(k, Backlog(Got(attrs, k))), v)
    <3>1. PICK x : x = Got(attrs, k)
      OBVIOUS
    <3>2. k \notin DOMAIN attrs => User(x).ok /\ Backlog(x).ok
      BY <3>1 DEF Got, Conf!Ok
    <3>3. ASSUME k \in DOMAIN attrs
          PROVE  Explained(User(x), attrs[k]) /\ Explained(Backlog(x), attrs[k])
      <4>1. x \in Values /\ x = attrs[k] /\ x # Conf!Absent
        BY <3>1, <3>3, Shape DEF Got, Within
      <4>2. Explained(Conf!AsBoolean(x), x)
        BY <4>1, TypeExplained DEF Conf!AsBoolean
      <4>3. Explained(Conf!AsI32(x), x)
        <5>1. Explained(Conf!AsType("integer", x), x)
          BY <4>1, TypeExplained
        <5>2. \A n : Explained(Conf!Ok(n), x)
          BY DEF Explained, Conf!Ok
        <5> QED
          BY <5>1, <5>2 DEF Conf!AsI32, Conf!Then
      <4> QED
        BY <4>1, <4>2, <4>3
    <3> HIDE DEF User, Backlog
    <3> QED
      BY <3>1, <3>2, <3>3, AttributeExplained
  <2> HIDE DEF User, Backlog, own
  <2> QED
    BY <2>1, <2>2
<1>4. \A i \in DOMAIN fs : Explained(fs[i].result, v)
  BY FilterFieldsExplained
<1>5. DOMAIN fs = 1..Len(fs) /\ Len(fs) \in Nat /\ fs \in Seq({fs[i] : i \in DOMAIN fs})
  BY FilterFieldsRead DEF FilterFieldsOf, Within
<1>6. DOMAIN fields \subseteq Nat /\ \A i \in DOMAIN fields : Explained(fields[i].result, v)
  <2> HIDE DEF list, own, fs
  <2>1. CASE single
    <3>1. /\ DOMAIN fields = 1..(Len(fs) + 2)
          /\ fields[1] = list /\ fields[Len(fs) + 2] = own
          /\ \A i \in 1..Len(fs) : fields[i + 1] = fs[i]
      BY <1>5, <2>1
    <3> HIDE DEF fields
    <3>2. ASSUME NEW i \in 2..(Len(fs) + 1)
          PROVE  i - 1 \in 1..Len(fs) /\ fields[i] = fs[i - 1]
      <4>1. PICK j \in 1..Len(fs) : i = j + 1
        BY <1>5
      <4> QED
        BY <3>1, <4>1
    <3>3. \A i \in 1..(Len(fs) + 2) : i = 1 \/ i = Len(fs) + 2 \/ i \in 2..(Len(fs) + 1)
      BY <1>5
    <3>4. ASSUME NEW i \in DOMAIN fields
          PROVE  Explained(fields[i].result, v)
      BY <1>2, <1>3, <1>4, <1>5, <3>1, <3>2, <3>3
    <3> QED
      BY <3>1, <3>4
  <2>2. CASE ~single
    <3>1. DOMAIN fields = {1, 2} /\ fields[1] = list /\ fields[2] = own
      BY <2>2
    <3> HIDE DEF fields
    <3> QED
      BY <1>2, <1>3, <3>1
  <2> QED
    BY <2>1, <2>2
<1> HIDE DEF fields
<1>7. Explained(rs, v)
  BY <1>6, ResultsExplained
<1> HIDE DEF rs
<1>8. Explained(rv, v)
  BY <1>7 DEF Explained, Conf!Ok
<1> HIDE DEF rv
<1> QED
  BY <1>1, <1>8, ConsumeExplained DEF Within

\* The errors of a source.
LEMMA SourceExplained ==
  ASSUME NEW sid, NEW conf \in Values
  PROVE  Explained(Conf!ParseSource(sid, conf), conf)
<1> DEFINE Known(m) == IF m \in {"systemd", "journal"} THEN Conf!Ok(m) ELSE Conf!Fail("unknown module")
           Opt(x) == IF x = Conf!Absent THEN Conf!Ok(None) ELSE Conf!AsString(x)
           name == Conf!Annotate("module", Opt(Got(conf.object, "module")))
           of == IF name.ok THEN Known(IF name.value = None THEN sid ELSE name.value) ELSE name
           rest == [k \in DOMAIN conf.object \ {"module"} |-> conf.object[k]]
           r == Conf!ParseSource(sid, conf)
<1>1. r = IF conf = [boolean |-> TRUE]
          THEN IF Known(sid).ok THEN Conf!Ok(Conf!Source(Known(sid).value, sid, <<>>, None)) ELSE Known(sid)
          ELSE IF Conf!Is("object", conf)
          THEN IF of.ok THEN Conf!ParseModule(of.value, sid, rest) ELSE of
          ELSE Conf!Mismatch(conf)
  BY DEF Conf!ParseSource, Conf!Then, Conf!Field, Conf!Optional, Got, Conf!Ok
<1>2. /\ \A x : Explained(Conf!Ok(x), conf)
      /\ Explained(Conf!Mismatch(conf), conf)
      /\ conf = [boolean |-> TRUE] \/ Conf!Is("object", conf)
         => Explained(Conf!Fail("unknown module"), conf)
  <2>1. \A x : Explained(Conf!Ok(x), conf)
    BY DEF Explained, Conf!Ok
  <2>2. "unknown module" \notin Conf!JsonTypes
    BY DEF Conf!JsonTypes
  <2> QED
    BY <2>1, <2>2, Here, MismatchExplained
<1>3. \A m : /\ conf = [boolean |-> TRUE] \/ Conf!Is("object", conf) => Explained(Known(m), conf)
             /\ Known(m).ok => Known(m).value \in {"systemd", "journal"}
  BY <1>2 DEF Conf!Ok, Conf!Fail
<1>4. ASSUME Conf!Is("object", conf)
      PROVE  Explained(name, conf) /\ Within(rest, conf)
  <2>1. PICK attrs : attrs = conf.object /\ Within(attrs, conf)
    BY <1>4, Shape DEF Within
  <2>2. PICK x : x = Got(attrs, "module")
    OBVIOUS
  <2>3. "module" \notin DOMAIN attrs => Opt(x).ok
    BY <2>2 DEF Got, Conf!Ok
  <2>4. ASSUME "module" \in DOMAIN attrs
        PROVE  Explained(Opt(x), attrs["module"])
    <3>1. x \in Values /\ x = attrs["module"] /\ x # Conf!Absent
      BY <2>1, <2>2, <2>4, Shape DEF Got, Within
    <3> QED
      BY <3>1, TypeExplained DEF Conf!AsString
  <2>5. Explained(Conf!Annotate("module", Opt(x)), conf)
    <3> HIDE DEF Opt
    <3> QED
      BY <2>1, <2>3, <2>4, AttributeExplained
  <2>6. Within(rest, conf)
    BY <2>1 DEF Within
  <2> QED
    BY <2>1, <2>2, <2>5, <2>6
<1> HIDE DEF Known, name, rest
<1>5. ASSUME Conf!Is("object", conf)
      PROVE  /\ Explained(of, conf)
             /\ of.ok => Explained(Conf!ParseModule(of.value, sid, rest), conf)
  <2>1. Explained(of, conf) /\ (of.ok => of.value \in {"systemd", "journal"})
    BY <1>3, <1>4, <1>5
  <2> HIDE DEF of
  <2> QED
    BY <1>4, <1>5, <2>1, ModuleExplained
<1> HIDE DEF of, r
<1> QED
  BY <1>1, <1>2, <1>3, <1>5 DEF r

\* The errors of an interval.
LEMMA IntervalExplained ==
  ASSUME NEW v \in Values, Conf!Is("string", v)
  PROVE  Explained(Conf!ParseInterval(v.string), v)
<1>1. Explained(Conf!Fail("duration"), v)
  BY Here DEF Conf!JsonTypes
<1>2. Explained(Conf!Fail("panic"), v) /\ \A x : Explained(Conf!Ok(x), v)
  BY DEF Explained, Conf!Ok, Conf!Fail
<1> QED
  BY <1>1, <1>2 DEF Conf!ParseInterval

\* The errors of a poll section.
LEMMA PollExplained ==
  ASSUME NEW v \in Values
  PROVE  Explained(Conf!ParsePoll(v), v)
<1> DEFINE Read(x) == IF x = Conf!Absent THEN Conf!Ok(<<15, "s">>)
                      ELSE IF Conf!AsString(x).ok THEN Conf!ParseInterval(Conf!AsString(x).value)
                      ELSE Conf!AsString(x)
           interval == [key |-> "interval",
                        result |-> Conf!Annotate("interval", Read(Got(v.object, "interval")))]
           r == Conf!ParsePoll(v)
<1>1. r = IF v = Conf!Absent THEN Conf!Ok(<<15, "s">>)
          ELSE IF Conf!AsObject(v).ok
          THEN Conf!Consume(v.object, <<interval>>, interval.result)
          ELSE Conf!AsObject(v)
  BY DEF Conf!ParsePoll, Conf!Then, Conf!Field, Got, Conf!AsObject, Conf!AsType, Conf!Mismatch, Conf!Ok, Conf!Fail
<1>2. v # Conf!Absent /\ Explained(Conf!AsObject(v), v)
  BY Shape, TypeExplained DEF Conf!AsObject
<1>3. ASSUME Conf!Is("object", v)
      PROVE  Explained(interval.result, v)
  <2>1. PICK attrs : attrs = v.object /\ Within(attrs, v)
    BY <1>3, Shape DEF Within
  <2>2. PICK x : x = Got(attrs, "interval")
    OBVIOUS
  <2>3. "interval" \notin DOMAIN attrs => Read(x).ok
    BY <2>2 DEF Got, Conf!Ok
  <2>4. ASSUME "interval" \in DOMAIN attrs
        PROVE  Explained(Read(x), attrs["interval"])
    <3>1. x \in Values /\ x = attrs["interval"] /\ x # Conf!Absent
      BY <2>1, <2>2, <2>4, Shape DEF Got, Within
    <3>2. Explained(Conf!AsString(x), x)
      BY <3>1, TypeExplained DEF Conf!AsString
    <3>3. Conf!AsString(x).ok => Conf!Is("string", x) /\ Conf!AsString(x).value = x.string
      BY DEF Conf!AsString, Conf!AsType, Conf!Mismatch, Conf!Fail, Conf!Ok
    <3>4. Conf!AsString(x).ok => Explained(Conf!ParseInterval(Conf!AsString(x).value), x)
      BY <3>1, <3>3, IntervalExplained
    <3> QED
      BY <3>1, <3>2, <3>4
  <2> HIDE DEF Read
  <2>5. Explained(Conf!Annotate("interval", Read(x)), v)
    BY <2>1, <2>3, <2>4, AttributeExplained
  <2> QED
    BY <2>1, <2>2, <2>5
<1>4. Conf!AsObject(v).ok => Conf!Is("object", v)
  BY DEF Conf!AsObject, Conf!AsType, Conf!Mismatch, Conf!Fail
<1>5. Conf!Is("object", v) => Explained(Conf!Consume(v.object, <<interval>>, interval.result), v)
  <2> HIDE DEF interval
  <2> QED
    BY <1>3, ConsumeExplained
<1> HIDE DEF interval, r
<1> QED
  BY <1>1, <1>2, <1>4, <1>5 DEF r

\* The errors of the sources.
LEMMA SourcesExplained ==
  ASSUME NEW v \in Values
  PROVE  Explained(Conf!ParseSources(v), v)
<1> DEFINE rs == [i \in {i \in DOMAIN Ids : Ids[i] \in DOMAIN v.object} |->
                    Conf!Annotate(Ids[i], Conf!ParseSource(Ids[i], v.object[Ids[i]]))]
           r == Conf!ParseSources(v)
<1>1. r = IF v = Conf!Absent THEN Conf!Ok(Conf!DefaultSources)
          ELSE IF Conf!AsObject(v).ok THEN Conf!RunM(rs) ELSE Conf!AsObject(v)
  BY DEF Conf!ParseSources, Conf!Then, Conf!AsObject, Conf!AsType, Conf!Mismatch, Conf!Ok, Conf!Fail
<1>2. v # Conf!Absent /\ Explained(Conf!AsObject(v), v)
  BY Shape, TypeExplained DEF Conf!AsObject
<1>3. Conf!AsObject(v).ok => Conf!Is("object", v)
  BY DEF Conf!AsObject, Conf!AsType, Conf!Mismatch, Conf!Fail
<1>4. ASSUME Conf!Is("object", v), NEW i \in DOMAIN rs
      PROVE  Explained(rs[i], v)
  <2>1. PICK sid : sid = Ids[i] /\ sid \in DOMAIN v.object
    BY <1>4
  <2>2. PICK conf \in Values : conf = v.object[sid]
    BY <1>4, <2>1, Shape
  <2>3. Explained(Conf!ParseSource(sid, conf), conf)
    BY SourceExplained
  <2>4. Explained(Conf!Annotate(sid, Conf!ParseSource(sid, conf)), v)
    BY <1>4, <2>1, <2>2, <2>3, FieldExplained
  <2> QED
    BY <1>4, <2>1, <2>2, <2>4
<1>5. DOMAIN rs \subseteq Nat
  BY DocumentAssumption
<1> HIDE DEF rs
<1>6. Conf!Is("object", v) => Explained(Conf!RunM(rs), v)
  BY <1>4, <1>5, RunExplained
<1> HIDE DEF r
<1> QED
  BY <1>1, <1>2, <1>3, <1>6 DEF r

\* The errors of a document.
LEMMA DocumentExplained ==
  ASSUME NEW d \in Documents \ {None}
  PROVE  Explained(Conf!Parse(d), d)
<1>1. d \in Values
  BY DocumentAssumption
<1>2. CASE ~Conf!Is("object", d)
  <2>1. Conf!Parse(d) = Conf!Mismatch(d)
    BY <1>2 DEF Conf!Parse, Conf!Then, Conf!AsObject, Conf!AsType, Conf!Mismatch, Conf!Fail
  <2> QED
    BY <1>1, <2>1, MismatchExplained
<1>3. CASE Conf!Is("object", d)
  <2> DEFINE poll == Conf!Annotate("poll", Conf!ParsePoll(Got(d.object, "poll")))
             sources == Conf!Annotate("sources", Conf!ParseSources(Got(d.object, "sources")))
             fields == <<[key |-> "poll", result |-> poll], [key |-> "sources", result |-> sources]>>
             rs == Conf!Results(fields)
             rv == IF rs.ok THEN Conf!Ok([poll |-> rs.value[1], sources |-> rs.value[2]]) ELSE rs
  <2>1. Conf!Parse(d) = Conf!Consume(d.object, fields, rv)
    BY <1>3 DEF Conf!Parse, Conf!Then, Conf!AsObject, Conf!AsType, Conf!Field, Got, Conf!Ok
  <2>2. PICK attrs : attrs = d.object /\ Within(attrs, d)
    BY <1>1, <1>3, Shape DEF Within
  <2>3. Explained(poll, d)
    <3>1. PICK x : x = Got(attrs, "poll")
      OBVIOUS
    <3>2. "poll" \notin DOMAIN attrs => Conf!ParsePoll(x).ok
      BY <3>1 DEF Got, Conf!ParsePoll, Conf!Ok, Conf!Then, Conf!Field
    <3>3. "poll" \in DOMAIN attrs => Explained(Conf!ParsePoll(x), attrs["poll"])
      BY <2>2, <3>1, PollExplained DEF Got, Within
    <3> QED
      BY <1>1, <2>2, <3>1, <3>2, <3>3, AttributeExplained
  <2>4. Explained(sources, d)
    <3>1. PICK x : x = Got(attrs, "sources")
      OBVIOUS
    <3>2. "sources" \notin DOMAIN attrs => Conf!ParseSources(x).ok
      BY <3>1 DEF Got, Conf!ParseSources, Conf!Ok, Conf!Then
    <3>3. "sources" \in DOMAIN attrs => Explained(Conf!ParseSources(x), attrs["sources"])
      BY <2>2, <3>1, SourcesExplained DEF Got, Within
    <3> QED
      BY <1>1, <2>2, <3>1, <3>2, <3>3, AttributeExplained
  <2> HIDE DEF poll, sources
  <2>5. DOMAIN fields \subseteq Nat /\ \A i \in DOMAIN fields : Explained(fields[i].result, d)
    BY <2>3, <2>4
  <2> HIDE DEF fields
  <2>6. Explained(rs, d)
    BY <2>5, ResultsExplained
  <2> HIDE DEF rs
  <2>7. Explained(rv, d)
    BY <2>6 DEF Explained, Conf!Ok
  <2> HIDE DEF rv
  <2> QED
    BY <1>1, <1>3, <2>1, <2>7, ConsumeExplained
<1> QED
  BY <1>2, <1>3

-----------------------------------------------------------------------------
(* The theorems.                                                           *)

\* The program only reads its documents.
LEMMA ReadsDocuments == IysrSpec => [](doc \in Documents \cup {None})
<1> DEFINE Inv == doc \in Documents \cup {None}
<1>1. IysrInit => Inv
  BY DEF IysrInit
<1>2. Inv /\ [IysrNext]_iysrVars => Inv'
  <2> SUFFICES ASSUME Inv, [IysrNext]_iysrVars
               PROVE  Inv'
    OBVIOUS
  <2>1. doc' \in {doc, None}
    BY DEF IysrNext, iysrVars, programVars, startVars, Load, Publish, Dismiss, ThreadStep, CrateStep,
           MainStep, ReaperStep, HttpStep, NotifyStep, Run, WaitReaper, DropReaper, Exit,
           StartHttp, StartNotify, AwaitCancel, Fail, DropService, DropMonitor, HttpCancel, Close, Connect,
           Receive, ShowStatus, ShowEvent, Tick, Hide, Transition, Unexpected, CallFails, Untold
  <2> QED
    BY <2>1
<1> QED
  BY <1>1, <1>2, PTL DEF IysrSpec

\* Of any documents, exactly the valid ones are accepted.
THEOREM ExactlyValid == IysrSpec => []AcceptsValid
<1>1. doc \in Documents \cup {None} => AcceptsValid
  <2> SUFFICES ASSUME doc \in Documents \ {None}
               PROVE  Conf!Parse(doc).ok <=> Conf!Valid(doc)
    BY DEF AcceptsValid
  <2> QED
    BY DocumentRead
<1> QED
  BY <1>1, ReadsDocuments, PTL

\* The path of every error of any document leads to what is wrong there.
THEOREM ErrorsLead == IysrSpec => []ErrorPathResolves
<1>1. doc \in Documents \cup {None} => ErrorPathResolves
  <2> SUFFICES ASSUME doc \in Documents \ {None}
               PROVE  LET r == Conf!Parse(doc) IN
                      r.ok \/ r.value = "panic" \/ Conf!Explains(r.value, doc, Conf!Path(r))
    BY DEF ErrorPathResolves
  <2> QED
    BY DocumentExplained DEF Explained
<1> QED
  BY <1>1, ReadsDocuments, PTL

\* The filters of journal sources and their patterns keep the order of any document.
THEOREM DocumentOrderKept == IysrSpec => []OrderKept
<1>1. doc \in Documents \cup {None} => OrderKept
  <2> SUFFICES ASSUME doc \in Documents \ {None}, Conf!Parse(doc).ok, "sources" \in DOMAIN doc.object,
                      NEW source \in Range(Conf!Parse(doc).value.sources),
                      source.module = "journal",
                      Conf!Is("object", doc.object["sources"].object[source.id])
               PROVE  Conf!SameOrder(source, doc.object["sources"].object[source.id].object)
    BY DEF OrderKept
  <2> QED
    BY DocumentOrder
<1> QED
  BY <1>1, ReadsDocuments, PTL

=============================================================================
