----------------------------- MODULE JournalProofs ----------------------------
(***************************************************************************)
(* Proofs about Journal and Filter, for any entries, filters and hidden    *)
(* keys, and any number of runs of journalctl.                             *)
(***************************************************************************)
EXTENDS Journal, SequenceTheorems, TLAPS

\* What is offered is a sequence.
OfferedSeq == offered \in Seq({offered[i] : i \in 1..Len(offered)})

\* Who has ended: between two runs of journalctl nobody reads and nothing is
\* left to read.
RestInv ==
  /\ main \in {"spawn", "report", "sleep"} => reader \in {"off", "ended"}
  /\ reader \in {"off", "ended"} => pipe = <<>> /\ child # "running"

\* Everything offered is before entry k of the journal, or is entry k itself
\* and the end of journalctl has been reported since.
Before(k) ==
  \A i \in Offers : ~Failed(i) =>
    \/ offered[i].entry < k
    \/ offered[i].entry = k /\ \E j \in Offers : i < j /\ Failed(j)

\* What journalctl has written and what it will write comes after what has been
\* offered.
AheadInv ==
  /\ \A a \in 1..Len(pipe) : pipe[a] <= written /\ Before(pipe[a])
  /\ \A a, b \in 1..Len(pipe) : a < b => pipe[a] < pipe[b]
  /\ Before(written + 1)
  /\ main \in {"sleep", "spawn"} => offered = <<>> \/ Failed(Len(offered))

-----------------------------------------------------------------------------
(* The filter.                                                             *)

\* However filters extend an entry, nothing that starts with an underscore
\* passes them.
LEMMA FilteredHides ==
  ASSUME NEW i, NEW fs, NEW p, NEW q \in Filtered(i, fs, p)
  PROVE  Hidden \cap DOMAIN q = {}
<1>1. \E r : q = PostMutate(r)
  BY DEF Filtered
<1>2. \A r : Hidden \cap DOMAIN PostMutate(r) = {}
  BY DEF PostMutate, Without
<1> QED
  BY <1>1, <1>2

\* With filters, what passes has matched one of them as it was read.
LEMMA FilteredMatches ==
  ASSUME NEW i, NEW fs, fs # <<>>, NEW p, NEW q \in Filtered(i, fs, p)
  PROVE  \E k \in 1..Len(fs) : Matches(fs[k], i, PreMutate(p))
BY DEF Filtered

\* A priority that is a numeral is read as that number.
LEMMA PriorityRead ==
  ASSUME NEW p, "PRIORITY" \in DOMAIN p, p["PRIORITY"].type = "Numeral", p["PRIORITY"].n \in 0..7
  PROVE  GetSeverity(PreMutate(p)) = p["PRIORITY"].n
<1> DEFINE n == p["PRIORITY"].n
           read == Insert(p, "PRIORITY", Json("I64", n))
           q == PreMutate(p)
<1>1. n \in 0..7 /\ n # NoOption /\ FromSyslog(n) = n
  BY FilterAssumption DEF FromSyslog
<1>2. q = read \/ q = Insert(read, "SEVERITY", SeverityName(n))
  BY DEF PreMutate
<1>3. "PRIORITY" \in DOMAIN read /\ read["PRIORITY"] = Json("I64", n)
  BY DEF Insert
<1> HIDE DEF read
<1>4. "PRIORITY" \in DOMAIN q /\ q["PRIORITY"] = Json("I64", n)
  BY <1>2, <1>3 DEF Insert
<1> HIDE DEF q, n
<1>5. GetSeverity(q) = n
  BY <1>1, <1>4 DEF GetSeverity, Json
<1> QED
  BY <1>5 DEF q, n

\* An entry keeps its priority when its source is named.
LEMMA NamedPriority ==
  ASSUME NEW p, "PRIORITY" \in DOMAIN p, NEW source
  PROVE  LET q == Insert(p, "SOURCE", source)
         IN "PRIORITY" \in DOMAIN q /\ q["PRIORITY"] = p["PRIORITY"]
BY DEF Insert

\* An entry that passes although its priority can be read is as severe as the
\* level of some filter.
LEMMA PassesSevere ==
  ASSUME NEW e, filters # <<>>, "PRIORITY" \in DOMAIN e, e["PRIORITY"].type = "Numeral",
         e["PRIORITY"].n \in 0..7, NEW q \in Passes(e)
  PROVE  \E k \in 1..Len(filters) : filters[k].level = NoOption \/ e["PRIORITY"].n <= filters[k].level
<1>1. PICK p : /\ q \in Filtered(SourceOf(e), filters, p)
               /\ "PRIORITY" \in DOMAIN p /\ p["PRIORITY"] = e["PRIORITY"]
  BY NamedPriority DEF Passes
<1>2. PICK k \in 1..Len(filters) : Matches(filters[k], SourceOf(e), PreMutate(p))
  BY <1>1, FilteredMatches
<1>3. GetSeverity(PreMutate(p)) = e["PRIORITY"].n
  BY <1>1, PriorityRead
<1>4. filters[k].level # NoOption => e["PRIORITY"].n <= filters[k].level
  BY <1>2, <1>3, FilterAssumption DEF Matches, MatchesLevel
<1> QED
  BY <1>4

LEMMA SeverityType ==
  ASSUME NEW p
  PROVE  GetSeverity(p) \in 0..7 \cup {NoOption}
BY DEF GetSeverity, FromSyslog

-----------------------------------------------------------------------------
(* What is offered.                                                        *)

\* Appending keeps a sequence one, whatever is appended.
LEMMA AppendAny ==
  ASSUME NEW q, q \in Seq({q[i] : i \in 1..Len(q)}), NEW x, NEW r, r = Append(q, x)
  PROVE  /\ Len(q) \in Nat /\ Len(r) = Len(q) + 1
         /\ \A i \in 1..Len(q) : r[i] = q[i]
         /\ r[Len(q) + 1] = x
         /\ r \in Seq({r[i] : i \in 1..Len(r)})
<1> DEFINE S == {q[i] : i \in 1..Len(q)} \cup {x}
<1>1. q \in Seq(S) /\ x \in S
  <2>1. {q[i] : i \in 1..Len(q)} \subseteq S
    OBVIOUS
  <2> QED
    BY <2>1, SeqMonotonic
<1> HIDE DEF S
<1>2. /\ Len(q) \in Nat /\ r \in Seq(S) /\ Len(r) = Len(q) + 1
      /\ \A i \in 1..Len(q) : r[i] = q[i]
      /\ r[Len(q) + 1] = x
  BY <1>1
<1>3. r \in Seq({r[i] : i \in 1..Len(r)})
  <2> DEFINE T == {r[i] : i \in 1..Len(r)}
  <2>0. r \in [1..Len(r) -> S] /\ Len(r) \in Nat
    BY <1>2, LenProperties
  <2>1. r = [i \in 1..Len(r) |-> r[i]] /\ Len(r) \in Nat
    BY <2>0
  <2>2. \A i \in 1..Len(r) : r[i] \in T
    OBVIOUS
  <2> HIDE DEF T
  <2>3. r \in [1..Len(r) -> T]
    BY <2>1, <2>2
  <2>4. r \in Seq(T)
    BY <2>1, <2>3, IsASeq
  <2> QED
    BY <2>4 DEF T
<1> QED
  BY <1>2, <1>3

LEMMA EventFields ==
  ASSUME NEW k, NEW severity, NEW attrs
  PROVE  LET x == Event(k, severity, attrs)
         IN x # Failure /\ x.entry = k /\ x.severity = severity /\ x.attrs = attrs
<1>1. Event(k, severity, attrs).kind = "event" /\ Failure.kind = "failure"
  BY DEF Event, Failure
<1> QED
  BY <1>1 DEF Event

\* What may be offered for the entry k.
Proper(k, severity, attrs) ==
  /\ severity \in 0..7 \cup {NoOption}
  /\ Hidden \cap DOMAIN attrs = {}
  /\ /\ journal[k] # Garbage
     /\ filters # <<>>
     /\ "PRIORITY" \in DOMAIN journal[k]
     /\ journal[k]["PRIORITY"].type = "Numeral"
     /\ journal[k]["PRIORITY"].n \in 0..7
     => \E f \in 1..Len(filters) :
          filters[f].level = NoOption \/ journal[k]["PRIORITY"].n <= filters[f].level

\* The reader takes the next line and offers it or not.
LEMMA ReadMoves ==
  ASSUME Read
  PROVE  /\ pipe # <<>> /\ pipe' = Tail(pipe)
         /\ \/ offered' = offered
            \/ \E severity, attrs :
                 /\ Proper(Head(pipe), severity, attrs)
                 /\ offered' = Append(offered, Event(Head(pipe), severity, attrs))
<1> DEFINE k == Head(pipe)
           e == journal[k]
<1>1. pipe # <<>> /\ pipe' = Tail(pipe)
  BY DEF Read
<1>2. \/ e = Garbage /\ offered' = Append(offered, Event(k, 6, <<>>))
      \/ offered' = offered
      \/ /\ e # Garbage
         /\ \E p \in Passes(e) :
              offered' = Append(offered, Event(k, GetSeverity(Without(p, {"MESSAGE"})), Without(p, {"MESSAGE"})))
  BY DEF Read
<1>3. ASSUME e = Garbage
      PROVE  Proper(k, 6, <<>>)
  BY <1>3 DEF Proper
<1>4. ASSUME e # Garbage, NEW p \in Passes(e)
      PROVE  Proper(k, GetSeverity(Without(p, {"MESSAGE"})), Without(p, {"MESSAGE"}))
  <2> DEFINE attrs == Without(p, {"MESSAGE"})
  <2>1. Hidden \cap DOMAIN p = {}
    BY <1>4, FilteredHides DEF Passes
  <2>2. Hidden \cap DOMAIN attrs = {}
    BY <2>1 DEF Without
  <2>3. GetSeverity(attrs) \in 0..7 \cup {NoOption}
    BY SeverityType
  <2> HIDE DEF attrs, k
  <2>4. /\ filters # <<>>
        /\ "PRIORITY" \in DOMAIN journal[k]
        /\ journal[k]["PRIORITY"].type = "Numeral"
        /\ journal[k]["PRIORITY"].n \in 0..7
        => \E f \in 1..Len(filters) :
             filters[f].level = NoOption \/ journal[k]["PRIORITY"].n <= filters[f].level
    BY <1>4, PassesSevere
  <2>5. Proper(k, GetSeverity(attrs), attrs)
    BY <2>2, <2>3, <2>4 DEF Proper
  <2> QED
    BY <2>5 DEF attrs
<1> QED
  BY <1>1, <1>2, <1>3, <1>4

\* What a step adds to what is offered.
LEMMA OfferMoves ==
  ASSUME [Next]_vars
  PROVE  \/ offered' = offered
         \/ Report /\ offered' = Append(offered, Failure)
         \/ Read /\ pipe # <<>> /\ \E severity, attrs :
              /\ Proper(Head(pipe), severity, attrs)
              /\ offered' = Append(offered, Event(Head(pipe), severity, attrs))
<1>1. CASE Read
  BY <1>1, ReadMoves
<1>2. CASE Report
  BY <1>2 DEF Report
<1>3. Read \/ Report \/ offered' = offered
  BY DEF Next, Follow, ReadOut, vars, Log, Write, Exit, Spawn, SpawnFailure, Wait, Join, Wake,
         LockSubscriber, EndOfFile, EndOfStderr
<1> QED
  BY <1>1, <1>2, <1>3

\* The journal only grows.
LEMMA JournalGrows ==
  ASSUME TypeOK, [Next]_vars
  PROVE  /\ journal' \in Seq(Entries) /\ Len(journal) \in Nat /\ Len(journal') \in Nat
         /\ Len(journal) <= Len(journal')
         /\ \A k \in 1..Len(journal) : journal'[k] = journal[k]
<1>1. journal \in Seq(Entries)
  BY DEF TypeOK
<1>2. (\E e \in Entries : journal' = Append(journal, e)) \/ journal' = journal
  BY DEF Next, Follow, ReadOut, vars, Log, Write, Exit, Spawn, SpawnFailure, Wait, Join, Report, Wake,
         LockSubscriber, Read, EndOfFile, EndOfStderr
<1> QED
  BY <1>1, <1>2

-----------------------------------------------------------------------------
(* Types.                                                                  *)

\* What was offered for an entry was proper for it.
ProperInv ==
  \A i \in Offers : ~Failed(i) => Proper(offered[i].entry, offered[i].severity, offered[i].attrs)

LEMMA PipeFacts ==
  ASSUME TypeOK, pipe # <<>>
  PROVE  /\ Head(pipe) = pipe[1] /\ Head(pipe) \in 1..Len(journal) /\ Len(pipe) \in Nat \ {0}
         /\ Tail(pipe) \in Seq(1..Len(journal)) /\ Len(Tail(pipe)) = Len(pipe) - 1
         /\ \A i \in 1..Len(Tail(pipe)) : Tail(pipe)[i] = pipe[i + 1] /\ i + 1 \in 1..Len(pipe)
<1>1. pipe \in Seq(1..Len(journal))
  BY DEF TypeOK
<1> QED
  BY <1>1, HeadTailProperties

LEMMA TypeStep == TypeOK /\ OfferedSeq /\ ProperInv /\ [Next]_vars => TypeOK' /\ OfferedSeq' /\ ProperInv'
<1> SUFFICES ASSUME TypeOK, OfferedSeq, ProperInv, [Next]_vars
             PROVE  TypeOK' /\ OfferedSeq' /\ ProperInv'
  OBVIOUS
<1>0. filters' = filters
  BY DEF Next, Follow, ReadOut, vars, Log, Write, Exit, Spawn, SpawnFailure, Wait, Join, Report, Wake,
         LockSubscriber, Read, EndOfFile, EndOfStderr
<1>1. /\ journal' \in Seq(Entries) /\ Len(journal) \in Nat /\ Len(journal') \in Nat
      /\ Len(journal) <= Len(journal')
      /\ \A k \in 1..Len(journal) : journal'[k] = journal[k] /\ k \in 1..Len(journal')
  BY JournalGrows
<1>2. LastLine \in 0..Len(journal)
  <2>1. journal = <<>> \/ Len(journal) > 0
    BY <1>1 DEF TypeOK
  <2> QED
    BY <1>1, <2>1 DEF LastLine
<1>3. written \in 0..Len(journal) /\ written' \in 0..Len(journal)
  <2>1. written' = written \/ written' = LastLine \/ Write
    BY DEF Next, Follow, ReadOut, vars, childVars, Log, Exit, Spawn, SpawnFailure, Wait, Join, Report,
           Wake, LockSubscriber, Read, EndOfFile, EndOfStderr
  <2>2. CASE Write
    BY <1>1, <2>2 DEF Write, TypeOK
  <2> QED
    BY <1>2, <2>1, <2>2 DEF TypeOK
<1>4. pipe' \in Seq(1..Len(journal'))
  <2>1. pipe \in Seq(1..Len(journal)) /\ 1..Len(journal) \subseteq 1..Len(journal')
    BY <1>1 DEF TypeOK
  <2>2. pipe \in Seq(1..Len(journal'))
    BY <2>1, SeqMonotonic
  <2>3. CASE Write
    <3>1. written + 1 \in 1..Len(journal')
      BY <1>1, <1>3, <2>3 DEF Write
    <3> QED
      BY <2>2, <2>3, <3>1 DEF Write
  <2>4. CASE Read
    <3>1. pipe # <<>> /\ pipe' = Tail(pipe)
      BY <2>4 DEF Read
    <3> QED
      BY <2>2, <3>1
  <2>5. Write \/ Read \/ pipe' = pipe \/ pipe' = <<>>
    BY DEF Next, Follow, ReadOut, vars, childVars, Log, Exit, Spawn, SpawnFailure, Wait, Join, Report,
           Wake, LockSubscriber, EndOfFile, EndOfStderr
  <2>6. <<>> \in Seq(1..Len(journal'))
    OBVIOUS
  <2> QED
    BY <2>2, <2>3, <2>4, <2>5, <2>6
<1>5. /\ child' \in {"none", "running", "exited"}
      /\ main' \in {"spawn", "wait", "join", "report", "sleep", "dead"}
      /\ reader' \in {"off", "locking", "reading", "ended", "panicked"}
      /\ errReader' \in {"off", "reading", "ended"}
      /\ subscriber' \in {"free", "held", "poisoned"}
  BY DEF TypeOK, Next, Follow, ReadOut, vars, childVars, readerVars, Log, Write, Exit, Spawn,
         SpawnFailure, Wait, Join, Report, Wake, LockSubscriber, Read, EndOfFile, EndOfStderr
<1>6. spawns' \in 0..MaxSpawns
  <2>1. spawns' = spawns \/ (spawns < MaxSpawns /\ spawns' = spawns + 1)
    BY DEF Next, Follow, ReadOut, vars, childVars, Log, Write, Exit, Spawn,
           SpawnFailure, Wait, Join, Report, Wake, LockSubscriber, Read, EndOfFile, EndOfStderr
  <2> QED
    BY <2>1, JournalAssumption DEF TypeOK
<1>7. \A k \in 1..Len(journal) : \A severity, attrs : Proper(k, severity, attrs) => Proper(k, severity, attrs)'
  BY <1>0, <1>1 DEF Proper
<1>8. /\ OfferedSeq'
      /\ \A i \in 1..Len(offered') : offered'[i] # Failure =>
           /\ offered'[i].entry \in 1..Len(journal)
           /\ Proper(offered'[i].entry, offered'[i].severity, offered'[i].attrs)
  <2>1. \A i \in 1..Len(offered) : offered[i] # Failure =>
           /\ offered[i].entry \in 1..Len(journal)
           /\ Proper(offered[i].entry, offered[i].severity, offered[i].attrs)
    BY DEF TypeOK, ProperInv, Offers, Failed
  <2>2. CASE offered' = offered
    BY <2>1, <2>2 DEF OfferedSeq
  <2>3. ASSUME NEW x, offered' = Append(offered, x),
               x # Failure => x.entry \in 1..Len(journal) /\ Proper(x.entry, x.severity, x.attrs)
        PROVE  /\ OfferedSeq'
               /\ \A i \in 1..Len(offered') : offered'[i] # Failure =>
                    /\ offered'[i].entry \in 1..Len(journal)
                    /\ Proper(offered'[i].entry, offered'[i].severity, offered'[i].attrs)
    <3>1. /\ Len(offered) \in Nat /\ Len(offered') = Len(offered) + 1
          /\ \A i \in 1..Len(offered) : offered'[i] = offered[i]
          /\ offered'[Len(offered) + 1] = x
          /\ OfferedSeq'
      BY <2>3, AppendAny DEF OfferedSeq
    <3>2. ASSUME NEW i \in 1..Len(offered'), offered'[i] # Failure
          PROVE  /\ offered'[i].entry \in 1..Len(journal)
                 /\ Proper(offered'[i].entry, offered'[i].severity, offered'[i].attrs)
      <4>1. CASE i \in 1..Len(offered)
        BY <2>1, <3>1, <3>2, <4>1
      <4>2. CASE i = Len(offered) + 1
        BY <2>3, <3>1, <3>2, <4>2
      <4> QED
        BY <3>1, <4>1, <4>2
    <3> QED
      BY <3>1, <3>2
  <2>4. CASE Read /\ pipe # <<>> /\ \E severity, attrs :
              /\ Proper(Head(pipe), severity, attrs)
              /\ offered' = Append(offered, Event(Head(pipe), severity, attrs))
    <3>1. PICK severity, attrs : /\ Proper(Head(pipe), severity, attrs)
                                 /\ offered' = Append(offered, Event(Head(pipe), severity, attrs))
      BY <2>4
    <3> DEFINE x == Event(Head(pipe), severity, attrs)
    <3>2. x.entry = Head(pipe) /\ x.severity = severity /\ x.attrs = attrs /\ offered' = Append(offered, x)
      BY <3>1, EventFields
    <3>3. Head(pipe) \in 1..Len(journal)
      BY <2>4, PipeFacts
    <3> HIDE DEF x
    <3>4. x.entry \in 1..Len(journal) /\ Proper(x.entry, x.severity, x.attrs)
      BY <3>1, <3>2, <3>3
    <3> QED
      BY <2>3, <3>2, <3>4
  <2> QED
    BY <2>2, <2>3, <2>4, OfferMoves
<1>9. ProperInv'
  BY <1>7, <1>8 DEF ProperInv, Offers, Failed
<1>10. \A i \in 1..Len(offered') : offered'[i] # Failure =>
         /\ offered'[i].entry \in 1..Len(journal')
         /\ offered'[i].severity \in 0..7 \cup {NoOption}
  BY <1>1, <1>8 DEF Proper
<1>11. written' \in 0..Len(journal')
  BY <1>1, <1>3
<1> QED
  BY <1>0, <1>1, <1>4, <1>5, <1>6, <1>8, <1>9, <1>10, <1>11 DEF TypeOK

LEMMA TypeInit == Init => TypeOK /\ OfferedSeq /\ ProperInv
<1> SUFFICES ASSUME Init
             PROVE  TypeOK /\ OfferedSeq /\ ProperInv
  OBVIOUS
<1>1. journal \in Seq(Entries) /\ Len(journal) = 0 /\ pipe \in Seq(1..Len(journal))
  BY DEF Init
<1>2. Len(offered) = 0 /\ OfferedSeq /\ ProperInv
  BY DEF Init, OfferedSeq, ProperInv, Offers
<1> QED
  BY <1>1, <1>2, JournalAssumption DEF Init, TypeOK

\* Every variable has its type; every event is of an entry that the journal has.
THEOREM JournalTypes == Spec => []TypeOK
BY TypeInit, TypeStep, PTL DEF Spec

\* No event has an attribute that starts with an underscore, wherever it is
\* from: the journal or an attr_extend.
THEOREM HiddenStays == Spec => []NothingHidden
<1>1. ProperInv => NothingHidden
  BY DEF ProperInv, NothingHidden, Proper
<1> QED
  BY <1>1, TypeInit, TypeStep, PTL DEF Spec

\* An event whose entry had a readable priority is as severe as some filter asks
\* for, even if that or another filter gave it another priority.
THEOREM LevelsKept == Spec => []SevereEnough
<1>1. ProperInv => SevereEnough
  BY DEF ProperInv, SevereEnough, Proper
<1> QED
  BY <1>1, TypeInit, TypeStep, PTL DEF Spec

-----------------------------------------------------------------------------
(* The end of a run and the order of events.                               *)

LEMMA RestStep == RestInv /\ [Next]_vars => RestInv'
<1> SUFFICES ASSUME RestInv, [Next]_vars
             PROVE  RestInv'
  OBVIOUS
<1>1. CASE Write
  BY <1>1 DEF Write, RestInv, readerVars
<1>2. CASE Exit
  BY <1>2 DEF Exit, RestInv, readerVars
<1>3. CASE Follow
  BY <1>3 DEF Follow, Spawn, SpawnFailure, Wait, Join, Report, Wake, RestInv, readerVars, childVars
<1>4. CASE ReadOut
  BY <1>4 DEF ReadOut, LockSubscriber, Read, EndOfFile, RestInv, childVars
<1>5. CASE UNCHANGED <<main, reader, pipe, child>>
  BY <1>5 DEF RestInv
<1> QED
  BY <1>1, <1>2, <1>3, <1>4, <1>5 DEF Next, Log, EndOfStderr, vars, readerVars, childVars

\* When the end of journalctl is reported, every line that it wrote has been
\* read and its reader has ended; it has not been killed or left behind.
THEOREM AllRead == Spec => []ReadToTheEnd
<1>1. Init => RestInv
  BY DEF Init, RestInv
<1>2. RestInv => ReadToTheEnd
  BY DEF RestInv, ReadToTheEnd
<1> QED
  BY <1>1, <1>2, RestStep, PTL DEF Spec

\* What comes after what has been offered still does when a failure is
\* offered, or the event of an entry before it.
LEMMA BeforeKept ==
  ASSUME OfferedSeq, NEW k, Before(k), NEW x, offered' = Append(offered, x),
         x # Failure => x.entry < k
  PROVE  Before(k)'
<1>1. /\ Len(offered) \in Nat /\ Len(offered') = Len(offered) + 1
      /\ \A i \in 1..Len(offered) : offered'[i] = offered[i]
      /\ offered'[Len(offered) + 1] = x
  BY AppendAny DEF OfferedSeq
<1> SUFFICES ASSUME NEW i \in 1..Len(offered'), offered'[i] # Failure
             PROVE  \/ offered'[i].entry < k
                    \/ /\ offered'[i].entry = k
                       /\ \E j \in 1..Len(offered') : i < j /\ offered'[j] = Failure
  BY DEF Before, Offers, Failed
<1>2. CASE i = Len(offered) + 1
  BY <1>1, <1>2
<1>3. CASE i \in 1..Len(offered)
  <2>1. offered'[i] = offered[i] /\ 1..Len(offered) \subseteq 1..Len(offered')
    BY <1>1, <1>3
  <2>2. \/ offered[i].entry < k
        \/ offered[i].entry = k /\ \E j \in 1..Len(offered) : i < j /\ offered[j] = Failure
    BY <1>3, <2>1 DEF Before, Offers, Failed
  <2> QED
    BY <1>1, <2>1, <2>2
<1> QED
  BY <1>1, <1>2, <1>3

\* What journalctl begins with comes after what has been offered before.
LEMMA BeginsAhead ==
  ASSUME TypeOK, OfferedSeq, offered = <<>> \/ Failed(Len(offered))
  PROVE  Before(LastLine + 1)
<1>1. Len(journal) \in Nat /\ (journal = <<>> <=> Len(journal) = 0)
  BY DEF TypeOK
<1>2. LastLine + 1 >= Len(journal) /\ LastLine \in Nat
  BY <1>1 DEF LastLine
<1> SUFFICES ASSUME NEW i \in Offers, ~Failed(i)
             PROVE  \/ offered[i].entry < LastLine + 1
                    \/ offered[i].entry = LastLine + 1 /\ \E j \in Offers : i < j /\ Failed(j)
  BY DEF Before
<1>3. offered[i].entry \in 1..Len(journal)
  BY DEF TypeOK, Offers, Failed
<1>4. Len(offered) \in Nat /\ offered # <<>>
  <2>1. Len(offered) \in Nat
    BY DEF OfferedSeq
  <2> QED
    BY <2>1 DEF Offers
<1>5. i # Len(offered) /\ Failed(Len(offered))
  BY <1>4
<1>6. i < Len(offered) /\ Len(offered) \in Offers
  BY <1>4, <1>5 DEF Offers
<1> QED
  BY <1>1, <1>2, <1>3, <1>5, <1>6

LEMMA AheadStep ==
  TypeOK /\ OfferedSeq /\ ProperInv /\ RestInv /\ AheadInv /\ [Next]_vars => AheadInv'
<1> SUFFICES ASSUME TypeOK, OfferedSeq, ProperInv, RestInv, AheadInv, [Next]_vars
             PROVE  AheadInv'
  OBVIOUS
<1>0. /\ pipe \in Seq(1..Len(journal)) /\ Len(pipe) \in Nat /\ written \in Nat
      /\ \A a \in 1..Len(pipe) : pipe[a] \in Nat
  <2>1. pipe \in Seq(1..Len(journal)) /\ written \in Nat
    BY DEF TypeOK
  <2>2. \A a \in 1..Len(pipe) : pipe[a] \in 1..Len(journal)
    BY <2>1
  <2> QED
    BY <2>1, <2>2
<1>1. CASE Write
  <2>1. written' = written + 1 /\ pipe' = Append(pipe, written + 1) /\ UNCHANGED <<offered, main>>
    BY <1>1 DEF Write
  <2>2. /\ Len(pipe') = Len(pipe) + 1
        /\ \A a \in 1..Len(pipe) : pipe'[a] = pipe[a]
        /\ pipe'[Len(pipe) + 1] = written + 1
    <3>1. pipe \in Seq(Nat) /\ written + 1 \in Nat
      BY <1>0, SeqMonotonic
    <3> QED
      BY <2>1, <3>1
  <2>3. ASSUME NEW a \in 1..Len(pipe')
        PROVE  pipe'[a] <= written' /\ \E k : pipe'[a] = k /\ Before(k)
    <3>1. CASE a \in 1..Len(pipe)
      BY <1>0, <2>1, <2>2, <3>1 DEF AheadInv
    <3>2. CASE a = Len(pipe) + 1
      BY <1>0, <2>1, <2>2, <3>2 DEF AheadInv
    <3> QED
      BY <1>0, <2>2, <3>1, <3>2
  <2>4. ASSUME NEW a \in 1..Len(pipe'), NEW b \in 1..Len(pipe'), a < b
        PROVE  pipe'[a] < pipe'[b]
    <3>1. a \in 1..Len(pipe)
      BY <1>0, <2>2, <2>4
    <3>2. CASE b \in 1..Len(pipe)
      BY <2>2, <2>4, <3>1, <3>2 DEF AheadInv
    <3>3. CASE b = Len(pipe) + 1
      BY <1>0, <2>2, <3>1, <3>3 DEF AheadInv
    <3> QED
      BY <1>0, <2>2, <3>2, <3>3
  <2>5. Before(written + 2)
    <3>1. \A i \in Offers : ~Failed(i) => offered[i].entry \in Nat
      BY DEF TypeOK, Offers, Failed
    <3> QED
      BY <1>0, <3>1 DEF AheadInv, Before
  <2>6. Before(written + 1)'
    <3>1. PICK k : k = written + 2 /\ Before(k)
      BY <2>5
    <3>2. written' + 1 = k
      BY <1>0, <2>1, <3>1
    <3> QED
      BY <2>1, <3>1, <3>2 DEF Before, Offers, Failed
  <2>7. \A a \in 1..Len(pipe') : Before(pipe[a])'
    BY <2>1, <2>3 DEF Before, Offers, Failed
  <2>8. (main \in {"sleep", "spawn"} => offered = <<>> \/ Failed(Len(offered)))'
    BY <2>1 DEF AheadInv, Failed
  <2> QED
    BY <2>3, <2>4, <2>6, <2>7, <2>8 DEF AheadInv
<1>2. CASE Spawn
  <2>1. written' = LastLine /\ Len(pipe') = 0 /\ offered' = offered /\ main' = "wait"
    BY <1>2 DEF Spawn
  <2>2. Before(LastLine + 1)
    BY <1>2, BeginsAhead DEF Spawn, AheadInv
  <2>3. Before(written + 1)'
    BY <2>1, <2>2 DEF Before, Offers, Failed
  <2> QED
    BY <2>1, <2>3 DEF AheadInv
<1>3. CASE Report
  <2>1. offered' = Append(offered, Failure) /\ UNCHANGED <<pipe, written>>
    BY <1>3 DEF Report, childVars
  <2>2. \A k : Before(k) => Before(k)'
    BY <2>1, BeforeKept
  <2>3. Before(written + 1)' /\ \A a \in 1..Len(pipe') : Before(pipe[a])'
    <3>1. PICK w \in Nat : w = written
      BY <1>0
    <3>2. Before(w + 1)'
      BY <2>2, <3>1 DEF AheadInv
    <3>3. ASSUME NEW a \in 1..Len(pipe')
          PROVE  Before(pipe[a])'
      <4>1. PICK k \in Nat : k = pipe[a] /\ Before(k)
        BY <1>0, <2>1, <3>3 DEF AheadInv
      <4>2. Before(k)'
        BY <2>2, <4>1
      <4> QED
        BY <2>1, <4>1, <4>2 DEF Before
    <3> QED
      BY <2>1, <3>1, <3>2, <3>3 DEF Before
  <2>4. Failed(Len(offered))'
    <3>1. Len(offered') = Len(offered) + 1 /\ offered'[Len(offered) + 1] = Failure
      BY <2>1, AppendAny DEF OfferedSeq
    <3> QED
      BY <3>1 DEF Failed
  <2> QED
    BY <2>1, <2>3, <2>4 DEF AheadInv
<1>4. CASE Read
  <2>1. pipe # <<>> /\ pipe' = Tail(pipe) /\ UNCHANGED <<written, main>> /\ reader = "reading"
    BY <1>4 DEF Read
  <2>2. /\ Head(pipe) = pipe[1] /\ Len(pipe) \in Nat \ {0}
        /\ Len(pipe') = Len(pipe) - 1
        /\ \A i \in 1..Len(pipe') : pipe'[i] = pipe[i + 1] /\ i + 1 \in 1..Len(pipe)
    BY <2>1, PipeFacts
  <2>3. main \notin {"sleep", "spawn"}
    BY <2>1 DEF RestInv
  <2>4. ASSUME NEW k \in Nat, Before(k), Head(pipe) < k
        PROVE  Before(k)'
    <3>1. CASE offered' = offered
      BY <2>4, <3>1 DEF Before, Offers, Failed
    <3>2. ASSUME NEW severity, NEW attrs, offered' = Append(offered, Event(Head(pipe), severity, attrs))
          PROVE  Before(k)'
      <4> DEFINE x == Event(Head(pipe), severity, attrs)
      <4>1. PICK h : h = Head(pipe)
        OBVIOUS
      <4>2. PICK y : y = Event(h, severity, attrs) /\ y.entry = h
        BY EventFields
      <4>3. offered' = Append(offered, y) /\ y.entry < k
        BY <2>4, <3>2, <4>1, <4>2
      <4> QED
        BY <2>4, <4>3, BeforeKept
    <3> QED
      BY <1>4, <3>1, <3>2, ReadMoves
  <2>5. Before(written + 1)'
    <3>1. PICK k \in Nat : k = written + 1 /\ Before(k)
      BY <1>0 DEF AheadInv
    <3>2. Head(pipe) < k
      BY <1>0, <2>2, <3>1 DEF AheadInv
    <3>3. Before(k)'
      BY <2>4, <3>1, <3>2
    <3> QED
      BY <2>1, <3>1, <3>3 DEF Before
  <2>6. ASSUME NEW a \in 1..Len(pipe')
        PROVE  pipe'[a] <= written' /\ Before(pipe[a])'
    <3>1. a + 1 \in 1..Len(pipe) /\ 1 \in 1..Len(pipe) /\ 1 < a + 1 /\ pipe'[a] = pipe[a + 1]
      BY <2>2
    <3>2. PICK k \in Nat : k = pipe[a + 1] /\ Before(k)
      BY <1>0, <3>1 DEF AheadInv
    <3>3. Head(pipe) < k
      BY <2>2, <3>1, <3>2 DEF AheadInv
    <3>4. Before(k)'
      BY <2>4, <3>2, <3>3
    <3> QED
      BY <2>1, <3>1, <3>2, <3>4 DEF AheadInv, Before
  <2>7. ASSUME NEW a \in 1..Len(pipe'), NEW b \in 1..Len(pipe'), a < b
        PROVE  pipe'[a] < pipe'[b]
    <3>1. /\ a + 1 \in 1..Len(pipe) /\ b + 1 \in 1..Len(pipe) /\ a + 1 < b + 1
          /\ pipe'[a] = pipe[a + 1] /\ pipe'[b] = pipe[b + 1]
      BY <2>2, <2>7
    <3> QED
      BY <3>1 DEF AheadInv
  <2> QED
    BY <2>1, <2>3, <2>5, <2>6, <2>7 DEF AheadInv
<1>5. ASSUME UNCHANGED <<pipe, written, offered>>,
             main' \in {"sleep", "spawn"} => main \in {"sleep", "spawn"}
      PROVE  AheadInv'
  BY <1>5 DEF AheadInv, Before, Offers, Failed
<1> QED
  BY <1>1, <1>2, <1>3, <1>4, <1>5
     DEF Next, Follow, ReadOut, vars, childVars, Log, Exit, SpawnFailure, Wait, Join, Wake,
         LockSubscriber, EndOfFile, EndOfStderr

LEMMA InOrderStep ==
  TypeOK /\ OfferedSeq /\ AheadInv /\ InOrder /\ [Next]_vars => InOrder'
<1> SUFFICES ASSUME TypeOK, OfferedSeq, AheadInv, InOrder, [Next]_vars
             PROVE  InOrder'
  OBVIOUS
<1>1. CASE offered' = offered
  BY <1>1 DEF InOrder, Offers, Failed
<1>2. ASSUME NEW x, offered' = Append(offered, x), x # Failure => Before(x.entry)
      PROVE  InOrder'
  <2>1. /\ Len(offered) \in Nat /\ Len(offered') = Len(offered) + 1
        /\ \A i \in 1..Len(offered) : offered'[i] = offered[i]
        /\ offered'[Len(offered) + 1] = x
    BY <1>2, AppendAny DEF OfferedSeq
  <2> SUFFICES ASSUME NEW i \in 1..Len(offered'), NEW j \in 1..Len(offered'), i < j,
                      offered'[i] # Failure, offered'[j] # Failure
               PROVE  \/ offered'[i].entry < offered'[j].entry
                      \/ /\ offered'[i].entry = offered'[j].entry
                         /\ \E k \in i..j : offered'[k] = Failure
    BY DEF InOrder, Offers, Failed
  <2>2. i \in 1..Len(offered) /\ offered'[i] = offered[i]
    BY <2>1
  <2>3. CASE j \in 1..Len(offered)
    <3>1. \/ offered[i].entry < offered[j].entry
          \/ offered[i].entry = offered[j].entry /\ \E k \in i..j : offered[k] = Failure
      BY <2>1, <2>2, <2>3 DEF InOrder, Offers, Failed
    <3>2. \A k \in i..j : offered'[k] = offered[k]
      BY <2>1, <2>2, <2>3
    <3> QED
      BY <2>1, <2>2, <2>3, <3>1, <3>2
  <2>4. CASE j = Len(offered) + 1
    <3>1. \/ offered[i].entry < x.entry
          \/ offered[i].entry = x.entry /\ \E k \in 1..Len(offered) : i < k /\ offered[k] = Failure
      BY <1>2, <2>1, <2>2, <2>4 DEF Before, Offers, Failed
    <3>2. \A k \in 1..Len(offered) : i < k => k \in i..j /\ offered'[k] = offered[k]
      BY <2>1, <2>2, <2>4
    <3> QED
      BY <2>1, <2>2, <2>4, <3>1, <3>2
  <2> QED
    BY <2>1, <2>3, <2>4
<1>3. ASSUME Read, pipe # <<>>, NEW severity, NEW attrs,
             offered' = Append(offered, Event(Head(pipe), severity, attrs))
      PROVE  InOrder'
  <2>1. PICK h : h = Head(pipe) /\ Before(h)
    <3>1. 1 \in 1..Len(pipe) /\ Head(pipe) = pipe[1]
      BY <1>3, PipeFacts
    <3> QED
      BY <3>1 DEF AheadInv
  <2>2. PICK y : y = Event(h, severity, attrs) /\ y.entry = h
    BY EventFields
  <2> QED
    BY <1>2, <1>3, <2>1, <2>2
<1> QED
  BY <1>1, <1>2, <1>3, OfferMoves

\* Events are offered in the order of the journal, and an entry is only offered
\* again when the end of a journalctl has been reported in between: no line is
\* read twice, however often journalctl is started again.
THEOREM EventsInOrder == Spec => []InOrder
<1>1. Init => RestInv /\ InOrder
  BY DEF Init, RestInv, InOrder, Offers
<1>2. Init => AheadInv
  BY DEF Init, AheadInv, Before, Offers
<1> QED
  BY <1>1, <1>2, TypeInit, TypeStep, RestStep, AheadStep, InOrderStep, PTL DEF Spec

=============================================================================
