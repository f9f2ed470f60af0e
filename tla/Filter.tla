-------------------------------- MODULE Filter --------------------------------
(***************************************************************************)
(* The event filter (src/filter.rs): which entries of the journal pass,    *)
(* and with which attributes.  A payload is a function from its keys to    *)
(* JSON values.  A value is its type and a number that tells values of a   *)
(* type apart: a "Numeral" is a string that from_str reads as that number, *)
(* a "Text" a string that it does not, "Other" neither string nor integer. *)
(***************************************************************************)
EXTENDS Integers, Sequences, TLC

CONSTANTS
  Hidden,   \* the keys that start with an underscore
  NoOption  \* None of Rust

ASSUME FilterAssumption == NoOption \notin 0..7

Json(type, n) == [type |-> type, n |-> n]

IsString(v) == v.type \in {"Text", "Numeral"}

Without(p, keys) == [k \in DOMAIN p \ keys |-> p[k]]

\* Map::insert
Insert(p, key, v) == [k \in DOMAIN p \cup {key} |-> IF k = key THEN v ELSE p[k]]

\* Severity::from_syslog: 0 is Emergency, 7 is Debug.
FromSyslog(n) == IF n \in 0..7 THEN n ELSE NoOption

\* The string that names a severity.
SeverityName(n) == Json("Text", 100 + n)

\* pre_mutate: PRIORITY becomes an integer or goes, and a valid one is named.
PreMutate(p) ==
  IF "PRIORITY" \notin DOMAIN p THEN p
  ELSE IF p["PRIORITY"].type \in {"Text", "Other"} THEN Without(p, {"PRIORITY"})
  ELSE LET n == p["PRIORITY"].n
           read == Insert(p, "PRIORITY", Json("I64", n))
       IN IF FromSyslog(n) = NoOption THEN read
          ELSE Insert(read, "SEVERITY", SeverityName(n))

\* get_severity, which panics at a PRIORITY that is no I64.
SeverityPanics(p) == "PRIORITY" \in DOMAIN p /\ p["PRIORITY"].type # "I64"

GetSeverity(p) == IF "PRIORITY" \in DOMAIN p THEN FromSyslog(p["PRIORITY"].n) ELSE NoOption

\* test_match: a pattern is the set of strings it accepts, for the attribute it
\* names or for the id.
TestMatch(m, i, p) ==
  IF m.attr = NoOption THEN i \in m.pattern
  ELSE /\ m.attr \in DOMAIN p
       /\ IsString(p[m.attr])
       /\ p[m.attr] \in m.pattern

MatchesCommon(f, i, p) ==
  /\ f.include # {} => \E m \in f.include : TestMatch(m, i, p)
  /\ \A m \in f.exclude : ~TestMatch(m, i, p)

\* Mutant of MatchesLevel: severities are compared as the numbers of syslog.
MatchesReversed(f, p) == f.level # NoOption /\ GetSeverity(p) # NoOption => GetSeverity(p) >= f.level

\* A severity is less than the level if its number is greater; an entry without
\* one passes.
MatchesLevel(f, p) == f.level # NoOption /\ GetSeverity(p) # NoOption => GetSeverity(p) <= f.level

Matches(f, i, p) == MatchesCommon(f, i, p) /\ MatchesLevel(f, p)

\* mutate: attr_extend overrides.
Mutate(f, p) == f.extend @@ p

\* post_mutate
PostMutate(p) == Without(p, Hidden)

\* Mutant of Filtered: hidden keys are removed before the filter extends.
FilteredEarly(i, filters, p) ==
  LET q == PreMutate(p)
      hits == {k \in 1..Len(filters) : Matches(filters[k], i, q)}
      first == {k \in hits : \A j \in hits : k <= j}
  IN IF filters = <<>> THEN {PostMutate(q)}
     ELSE {Mutate(filters[k], PostMutate(q)) : k \in first}

\* filter: what passes, a set of at most one payload.  The first filter that
\* matches extends it.
Filtered(i, filters, p) ==
  LET q == PreMutate(p)
      hits == {k \in 1..Len(filters) : Matches(filters[k], i, q)}
      first == {k \in hits : \A j \in hits : k <= j}
  IN IF filters = <<>> THEN {PostMutate(q)}
     ELSE {PostMutate(Mutate(filters[k], q)) : k \in first}

=============================================================================
