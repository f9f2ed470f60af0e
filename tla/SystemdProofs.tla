----------------------------- MODULE SystemdProofs ----------------------------
(***************************************************************************)
(* Proofs about SystemdDbus, for any units, any states and any number of   *)
(* changes on the bus.                                                     *)
(***************************************************************************)
EXTENDS SystemdDbus, SequenceTheorems, TLAPS

\* The signal waits in the queue q.
Pending(q, name, u) == \E i \in 1..Len(q) : q[i] = Signal(name, u)

\* Every removal of u in q is followed by a signal that u is there again.
Revived(q, u) ==
  \A i \in 1..Len(q) : q[i] = Signal("UnitRemoved", u)
    => \E j \in (i + 1)..Len(q) : q[j] = Signal("UnitNew", u)

\* The watcher has not got the list of units yet.
Early == {"subscribe", "matchNew", "matchRemoved", "list"}

\* The match rules for UnitNew and UnitRemoved are there before the list is asked for.
RulesInv ==
  /\ "UnitRemoved" \in rules => "UnitNew" \in rules
  /\ pc \notin {"subscribe", "matchNew", "ended"} => "UnitNew" \in rules
  /\ pc \notin {"subscribe", "matchNew", "matchRemoved", "ended"} => "UnitRemoved" \in rules

\* A known unit has a match rule, and the watcher asks for the status of a unit
\* only when its rule is there.
KnownInv ==
  /\ \A u \in Units : units[u] # Absent => u \notin Ignored /\ matches[u] > 0 /\ pc \notin Early
  /\ pc \in {"listStatus", "addStatus"}
       => unit \in Units \ Ignored /\ units[unit] = Absent /\ matches[unit] > 0
  /\ pc = "checkStatus" => unit \in Units /\ units[unit] # Absent
  /\ state = units

\* u is about to be known.
Awaited(u) ==
  \/ Pending(inbox, "UnitNew", u)
  \/ pc \in {"listing", "listStatus"} /\ u \in listing
  \/ pc \in {"listStatus", "addStatus"} /\ unit = u

\* The status of u is about to be asked for again, or u to be forgotten.
Checked(u) ==
  \/ Pending(inbox, "PropertiesChanged", u)
  \/ Pending(inbox, "UnitRemoved", u)
  \/ pc = "checkStatus" /\ unit = u

\* The signals that wait leave no doubt that a unit of the bus is there.
Signalled(u) ==
  /\ Pending(inbox, "UnitRemoved", u) => "UnitNew" \in rules
  /\ bus[u] # Absent => Revived(inbox, u)

\* Wherever the watcher differs from the bus about u, what is under way corrects it.
Corrected(u) ==
  /\ Signalled(u)
  /\ units[u] # Absent /\ bus[u] = Absent => Pending(inbox, "UnitRemoved", u)
  /\ units[u] = Absent /\ bus[u] # Absent /\ u \notin failed \cup Ignored /\ pc \notin Early
       => Awaited(u)
  /\ units[u] # Absent /\ bus[u] # Absent /\ u \notin failed /\ units[u] # StateOf(bus[u])
       => Checked(u)

\* An ended watcher tracks nothing.
TrackInv == pc # "ended" => KnownInv /\ \A u \in Units : Corrected(u)

-----------------------------------------------------------------------------
(* The queue of signals.                                                   *)

LEMMA SignalType ==
  ASSUME NEW name \in {"UnitNew", "UnitRemoved", "PropertiesChanged"}, NEW u \in Units
  PROVE  Signal(name, u) \in Signals
BY DEF Signal, Signals

LEMMA SignalsDiffer ==
  ASSUME NEW n, NEW u, NEW m, NEW v
  PROVE  Signal(n, u) = Signal(m, v) <=> n = m /\ u = v
<1>1. Signal(n, u).name = n /\ Signal(n, u).unit = u /\ Signal(m, v).name = m /\ Signal(m, v).unit = v
  BY DEF Signal
<1> QED
  BY <1>1

\* A signal that arrives joins those that wait.
LEMMA Arrives ==
  ASSUME NEW q \in Seq(Signals), NEW n, NEW v, Signal(n, v) \in Signals, NEW m, NEW u
  PROVE  Pending(Append(q, Signal(n, v)), m, u) <=> Pending(q, m, u) \/ (m = n /\ u = v)
<1> DEFINE s == Signal(n, v)
           r == Append(q, s)
<1>1. Len(q) \in Nat /\ Len(r) = Len(q) + 1
  BY AppendProperties
<1>2. (\A i \in 1..Len(q) : r[i] = q[i]) /\ r[Len(q) + 1] = s
  BY AppendProperties
<1>3. s = Signal(m, u) <=> m = n /\ u = v
  BY SignalsDiffer
<1> HIDE DEF s, r
<1>4. ASSUME Pending(q, m, u)
      PROVE  Pending(r, m, u)
  <2>1. PICK i \in 1..Len(q) : q[i] = Signal(m, u)
    BY <1>4 DEF Pending
  <2> QED
    BY <1>1, <1>2, <2>1 DEF Pending
<1>5. ASSUME m = n, u = v
      PROVE  Pending(r, m, u)
  BY <1>1, <1>2, <1>3, <1>5 DEF Pending
<1>6. ASSUME Pending(r, m, u), ~(m = n /\ u = v)
      PROVE  Pending(q, m, u)
  <2>1. PICK i \in 1..Len(r) : r[i] = Signal(m, u)
    BY <1>6 DEF Pending
  <2>2. i # Len(q) + 1
    BY <1>2, <1>3, <1>6, <2>1
  <2>3. i \in 1..Len(q)
    BY <1>1, <2>1, <2>2
  <2> QED
    BY <1>2, <2>1, <2>3 DEF Pending
<1> QED
  BY <1>4, <1>5, <1>6 DEF r, s

\* A unit that appears is revived; other units are if they were.
LEMMA ArrivalRevives ==
  ASSUME NEW q \in Seq(Signals), NEW n, NEW v, Signal(n, v) \in Signals, NEW u,
         (n = "UnitNew" /\ u = v) \/ (Revived(q, u) /\ ~(n = "UnitRemoved" /\ u = v))
  PROVE  Revived(Append(q, Signal(n, v)), u)
<1> DEFINE s == Signal(n, v)
           r == Append(q, s)
           k == Len(q) + 1
<1>1. Len(q) \in Nat /\ Len(r) = k
  BY AppendProperties
<1>2. (\A i \in 1..Len(q) : r[i] = q[i]) /\ r[k] = s
  BY AppendProperties
<1>3. s # Signal("UnitRemoved", u)
  BY SignalsDiffer
<1>4. n = "UnitNew" /\ u = v => s = Signal("UnitNew", u)
  OBVIOUS
<1> HIDE DEF s, r
<1> SUFFICES ASSUME NEW i \in 1..Len(r), r[i] = Signal("UnitRemoved", u)
             PROVE  \E j \in (i + 1)..Len(r) : r[j] = Signal("UnitNew", u)
  BY DEF Revived, r, s
<1>5. i # k
  BY <1>2, <1>3
<1>6. i \in 1..Len(q) /\ q[i] = Signal("UnitRemoved", u)
  BY <1>1, <1>2, <1>5
<1>7. CASE n = "UnitNew" /\ u = v
  <2>1. k \in (i + 1)..Len(r) /\ r[k] = Signal("UnitNew", u)
    BY <1>1, <1>2, <1>4, <1>6, <1>7
  <2> QED
    BY <2>1
<1>8. CASE Revived(q, u)
  <2>1. PICK j \in (i + 1)..Len(q) : q[j] = Signal("UnitNew", u)
    BY <1>6, <1>8 DEF Revived
  <2>2. j \in (i + 1)..Len(r) /\ j \in 1..Len(q)
    BY <1>1, <1>6, <2>1
  <2> QED
    BY <1>2, <2>1, <2>2
<1> QED
  BY <1>7, <1>8

\* The first signal is taken: the others still wait, a unit stays revived, and
\* one that is revived after the removal that was first is there again.
LEMMA Taken ==
  ASSUME NEW q \in Seq(Signals), q # <<>>, NEW m, NEW u
  PROVE  /\ Pending(Tail(q), m, u) => Pending(q, m, u)
         /\ Pending(q, m, u) /\ Head(q) # Signal(m, u) => Pending(Tail(q), m, u)
         /\ Revived(q, u) => Revived(Tail(q), u)
         /\ Revived(q, u) /\ Head(q) = Signal("UnitRemoved", u) => Pending(Tail(q), "UnitNew", u)
<1> DEFINE r == Tail(q)
<1>1. /\ Len(q) \in Nat \ {0} /\ Len(r) = Len(q) - 1
      /\ \A i \in 1..Len(r) : r[i] = q[i + 1]
      /\ q[1] = Head(q)
  BY HeadTailProperties
<1> HIDE DEF r
<1>2. ASSUME Pending(r, m, u)
      PROVE  Pending(q, m, u)
  <2>1. PICK i \in 1..Len(r) : r[i] = Signal(m, u)
    BY <1>2 DEF Pending
  <2>2. i + 1 \in 1..Len(q) /\ q[i + 1] = Signal(m, u)
    BY <1>1, <2>1
  <2> QED
    BY <2>2 DEF Pending
<1>3. ASSUME NEW n, NEW i \in 2..Len(q), q[i] = Signal(n, u)
      PROVE  i - 1 \in 1..Len(r) /\ r[i - 1] = Signal(n, u)
  BY <1>1, <1>3
<1>4. ASSUME Pending(q, m, u), Head(q) # Signal(m, u)
      PROVE  Pending(r, m, u)
  <2>1. PICK i \in 1..Len(q) : q[i] = Signal(m, u)
    BY <1>4 DEF Pending
  <2>2. i \in 2..Len(q)
    BY <1>1, <1>4, <2>1
  <2> QED
    BY <1>3, <2>1, <2>2 DEF Pending
<1>5. ASSUME Revived(q, u)
      PROVE  Revived(r, u)
  <2> SUFFICES ASSUME NEW i \in 1..Len(r), r[i] = Signal("UnitRemoved", u)
               PROVE  \E j \in (i + 1)..Len(r) : r[j] = Signal("UnitNew", u)
    BY DEF Revived
  <2>1. i + 1 \in 1..Len(q) /\ q[i + 1] = Signal("UnitRemoved", u)
    BY <1>1
  <2>2. PICK j \in (i + 1 + 1)..Len(q) : q[j] = Signal("UnitNew", u)
    BY <1>5, <2>1 DEF Revived
  <2>3. j \in 2..Len(q) /\ j - 1 \in (i + 1)..Len(r)
    BY <1>1, <2>2
  <2> QED
    BY <1>3, <2>2, <2>3
<1>6. ASSUME Revived(q, u), Head(q) = Signal("UnitRemoved", u)
      PROVE  Pending(r, "UnitNew", u)
  <2>1. 1 \in 1..Len(q) /\ q[1] = Signal("UnitRemoved", u)
    BY <1>1, <1>6
  <2>2. PICK j \in (1 + 1)..Len(q) : q[j] = Signal("UnitNew", u)
    BY <1>6, <2>1 DEF Revived
  <2>3. j \in 2..Len(q)
    BY <2>2
  <2> QED
    BY <1>3, <2>2, <2>3 DEF Pending
<1> QED
  BY <1>2, <1>4, <1>5, <1>6 DEF r

-----------------------------------------------------------------------------
(* Types.                                                                  *)

LEMMA DeliverType ==
  ASSUME inbox \in Seq(Signals), NEW u \in Units,
         NEW name \in {"UnitNew", "UnitRemoved", "PropertiesChanged"}, Deliver(name, u)
  PROVE  inbox' \in Seq(Signals)
BY SignalType, AppendProperties DEF Deliver

\* A state of a unit is no absence.
LEMMA StatesPresent == \A a : StateOf(a) \in States /\ StateOf(a) # Absent
BY SystemdAssumption DEF StateOf, States

LEMMA AskType ==
  ASSUME TypeOK, NEW u \in Units, Ask(u)
  PROVE  /\ bus' \in [Units -> ActiveStates \cup {"inactive", Absent}]
         /\ inbox' \in Seq(Signals)
<1>1. bus' \in [Units -> ActiveStates \cup {"inactive", Absent}]
  BY DEF Ask, TypeOK
<1>2. inbox' \in Seq(Signals)
  BY DeliverType DEF Ask, TypeOK
<1> QED
  BY <1>1, <1>2

\* The answer about a unit is stored with the type of a state.
LEMMA UpdateType ==
  ASSUME TypeOK, unit \in Units, UpdateUnit
  PROVE  /\ bus' \in [Units -> ActiveStates \cup {"inactive", Absent}]
         /\ inbox' \in Seq(Signals)
         /\ units' \in [Units -> States \cup {Absent}]
         /\ state' \in [Units -> States \cup {Absent}]
         /\ failed' \subseteq Units
<1>1. Ask(unit) /\ units' = [units EXCEPT ![unit] = StateOf(bus'[unit])]
      /\ state' = [state EXCEPT ![unit] = StateOf(bus'[unit])] /\ failed' = failed \ {unit}
  BY DEF UpdateUnit
<1>2. StateOf(bus'[unit]) \in States
  BY StatesPresent
<1> QED
  BY <1>1, <1>2, AskType DEF TypeOK

\* The message that is taken is of a unit, and the rest has its type.
LEMMA TakesType ==
  ASSUME inbox \in Seq(Signals), NEW name, NEW u, Takes(name, u)
  PROVE  inbox' \in Seq(Signals) /\ inbox # <<>> /\ Head(inbox) = Signal(name, u)
BY HeadTailProperties DEF Takes

LEMMA TypeStep ==
  ASSUME TypeOK, pc # "ended" => KnownInv, [Next]_vars
  PROVE  TypeOK'
<1> USE SystemdAssumption
<1>1. CASE UNCHANGED vars
  BY <1>1 DEF TypeOK, vars, busVars, ruleVars
<1>2. ASSUME NEW u \in Units, NEW a \in ActiveStates \cup {Absent}, BusChange(u, a)
      PROVE  TypeOK'
  <2>1. inbox' \in Seq(Signals)
    <3>1. PICK name \in {"UnitNew", "UnitRemoved", "PropertiesChanged"} : Deliver(name, u)
      BY <1>2 DEF BusChange
    <3> QED
      BY <3>1, DeliverType DEF TypeOK
  <2>2. bus' \in [Units -> ActiveStates \cup {"inactive", Absent}] /\ changes' \in 0..MaxEvents
    BY <1>2 DEF BusChange, TypeOK
  <2> QED
    BY <1>2, <2>1, <2>2 DEF BusChange, TypeOK, ruleVars
<1>3. CASE Subscribe \/ AddMatches \/ ListUnits \/ Listed \/ StartFailure
  BY <1>3 DEF Subscribe, AddMatches, ListUnits, Listed, StartFailure, TypeOK, busVars, ruleVars
<1>4. CASE ListedStatus \/ AddStatus \/ CheckStatus
  <2>1. unit \in Units /\ UpdateUnit
    BY <1>4 DEF KnownInv, ListedStatus, AddStatus, CheckStatus
  <2> QED
    BY <1>4, <2>1, UpdateType DEF ListedStatus, AddStatus, CheckStatus, TypeOK, ruleVars
<1>5. ASSUME NEW u \in Units, ListedUnit(u)
      PROVE  TypeOK'
  BY <1>5 DEF ListedUnit, Watch, TypeOK, busVars
<1>6. CASE Emit
  BY <1>6 DEF Emit, TypeOK, busVars, ruleVars
<1>7. ASSUME NEW u \in Units, UnitNew(u)
      PROVE  TypeOK'
  <2>1. inbox' \in Seq(Signals)
    BY <1>7, TakesType DEF UnitNew, TypeOK
  <2> QED
    BY <1>7, <2>1 DEF UnitNew, Watch, TypeOK, busVars
<1>8. ASSUME NEW u \in Units, UnitRemoved(u)
      PROVE  TypeOK'
  <2>1. inbox' \in Seq(Signals)
    BY <1>8, TakesType DEF UnitRemoved, TypeOK
  <2>2. matches' \in [Units -> Nat]
    <3>1. units[u] # Absent => matches[u] - 1 \in Nat
      BY <1>8 DEF KnownInv, UnitRemoved, Takes, TypeOK
    <3>2. UNCHANGED matches \/ (units[u] # Absent /\ matches' = [matches EXCEPT ![u] = @ - 1])
      BY <1>8 DEF UnitRemoved
    <3> QED
      BY <3>1, <3>2 DEF TypeOK
  <2>3. /\ units' \in [Units -> States \cup {Absent}]
        /\ state' \in [Units -> States \cup {Absent}]
    BY <1>8 DEF UnitRemoved, TypeOK
  <2>4. failed' \subseteq Units
    BY <1>8 DEF UnitRemoved, TypeOK
  <2>5. pc' \in {"loop", "emit"} /\ UNCHANGED <<bus, changes, rules, listing, unit, sent>>
    BY <1>8 DEF UnitRemoved, Takes, busVars
  <2> QED
    BY <2>1, <2>2, <2>3, <2>4, <2>5 DEF TypeOK
<1>9. ASSUME NEW u \in Units, PropertiesChanged(u)
      PROVE  TypeOK'
  <2>1. inbox' \in Seq(Signals)
    BY <1>9, TakesType DEF PropertiesChanged, TypeOK
  <2> QED
    BY <1>9, <2>1 DEF PropertiesChanged, TypeOK, busVars, ruleVars
<1>10. CASE StatusFailure
  <2>1. unit \in Units
    BY <1>10 DEF StatusFailure, KnownInv
  <2> QED
    BY <1>10, <2>1 DEF StatusFailure, TypeOK, busVars, ruleVars
<1> QED
  BY <1>1, <1>2, <1>3, <1>4, <1>5, <1>6, <1>7, <1>8, <1>9, <1>10 DEF Next, Start, Process

\* The match rules are added before the list is asked for.
LEMMA RulesStep ==
  ASSUME TypeOK, RulesInv, [Next]_vars
  PROVE  RulesInv'
<1>1. CASE UNCHANGED vars
  BY <1>1 DEF RulesInv, vars, ruleVars
<1>2. ASSUME NEW u \in Units, NEW a \in ActiveStates \cup {Absent}, BusChange(u, a)
      PROVE  RulesInv'
  BY <1>2 DEF BusChange, RulesInv, ruleVars
<1>3. CASE Subscribe \/ ListUnits \/ Listed \/ StartFailure \/ Emit
  BY <1>3 DEF Subscribe, ListUnits, Listed, StartFailure, Emit, RulesInv, ruleVars
<1>a. CASE AddMatches
  BY <1>a DEF AddMatches, RulesInv
<1>4. CASE ListedStatus \/ AddStatus \/ CheckStatus \/ StatusFailure
  BY <1>4 DEF ListedStatus, AddStatus, CheckStatus, StatusFailure, RulesInv, ruleVars
<1>5. ASSUME NEW u \in Units, ListedUnit(u) \/ UnitNew(u) \/ UnitRemoved(u) \/ PropertiesChanged(u)
      PROVE  RulesInv'
  BY <1>5 DEF ListedUnit, UnitNew, UnitRemoved, PropertiesChanged, Takes, Watch, RulesInv, ruleVars
<1> QED
  BY <1>1, <1>2, <1>3, <1>4, <1>5, <1>a DEF Next, Start, Process

-----------------------------------------------------------------------------
(* The watcher and the bus.                                                *)

\* What is known, and what is asked for, has a match rule.
LEMMA KnownStep ==
  ASSUME TypeOK, KnownInv, pc # "ended", Next, pc' # "ended"
  PROVE  KnownInv'
<1> USE SystemdAssumption
<1>1. ASSUME NEW u \in Units, NEW a \in ActiveStates \cup {Absent}, BusChange(u, a)
      PROVE  KnownInv'
  BY <1>1 DEF BusChange, KnownInv, ruleVars
<1>2. CASE Subscribe \/ AddMatches \/ ListUnits \/ Listed \/ StartFailure \/ Emit
  BY <1>2 DEF Subscribe, AddMatches, ListUnits, Listed, StartFailure, Emit, KnownInv, Early, ruleVars
<1>3. CASE ListedStatus \/ AddStatus \/ CheckStatus
  <2>1. unit \in Units /\ unit \notin Ignored /\ matches[unit] > 0
    BY <1>3 DEF ListedStatus, AddStatus, CheckStatus, KnownInv
  <2>2. units' = [units EXCEPT ![unit] = StateOf(bus'[unit])] /\ state' = [state EXCEPT ![unit] = StateOf(bus'[unit])]
    BY <1>3 DEF ListedStatus, AddStatus, CheckStatus, UpdateUnit
  <2>3. UNCHANGED <<matches, unit>> /\ pc' \in {"listing", "loop", "emit"}
    BY <1>3 DEF ListedStatus, AddStatus, CheckStatus, ruleVars
  <2>4. \A u \in Units : u # unit => units'[u] = units[u]
    BY <2>2 DEF TypeOK
  <2>5. state' = units'
    BY <2>2 DEF KnownInv
  <2> QED
    BY <2>1, <2>3, <2>4, <2>5 DEF KnownInv, Early
<1>4. ASSUME NEW u \in Units, ListedUnit(u)
      PROVE  KnownInv'
  BY <1>4 DEF ListedUnit, Skips, Watch, KnownInv, Early, TypeOK
<1>5. ASSUME NEW u \in Units, UnitNew(u)
      PROVE  KnownInv'
  BY <1>5 DEF UnitNew, Takes, Skips, Watch, KnownInv, Early, TypeOK
<1>6. ASSUME NEW u \in Units, UnitRemoved(u)
      PROVE  KnownInv'
  <2>1. pc = "loop" /\ pc' \in {"loop", "emit"}
    BY <1>6 DEF UnitRemoved, Takes
  <2>2. \A w \in Units : w # u => units'[w] = units[w] /\ matches'[w] = matches[w]
    BY <1>6 DEF UnitRemoved, TypeOK
  <2>3. units'[u] = Absent /\ state' = units'
    BY <1>6 DEF UnitRemoved, KnownInv, TypeOK
  <2> QED
    BY <2>1, <2>2, <2>3 DEF KnownInv, Early
<1>7. ASSUME NEW u \in Units, PropertiesChanged(u)
      PROVE  KnownInv'
  BY <1>7 DEF PropertiesChanged, Takes, KnownInv, Early, ruleVars
<1>8. CASE StatusFailure
  BY <1>8 DEF StatusFailure, KnownInv, Early, ruleVars
<1> QED
  BY <1>1, <1>2, <1>3, <1>4, <1>5, <1>6, <1>7, <1>8 DEF Next, Start, Process

\* A unit of which the bus tells is signalled; of the others nothing new waits.
LEMMA DeliverSignals ==
  ASSUME TypeOK, RulesInv, NEW v \in Units,
         NEW name \in {"UnitNew", "UnitRemoved", "PropertiesChanged"}, Deliver(name, v), UNCHANGED rules,
         NEW u \in Units, Signalled(u),
         u # v => bus'[u] = bus[u],
         u = v => /\ name = "UnitRemoved" => bus'[u] = Absent
                  /\ name = "PropertiesChanged" => bus[u] # Absent
  PROVE  /\ Signalled(u)'
         /\ \A m : Pending(inbox, m, u) => Pending(inbox, m, u)'
<1>1. Signal(name, v) \in Signals
  BY SignalType
<1>2. inbox \in Seq(Signals)
  BY DEF TypeOK
<1>3. \A m : Pending(inbox, m, u) => Pending(inbox, m, u)'
  <2>1. CASE UNCHANGED inbox
    BY <2>1 DEF Pending
  <2>2. CASE inbox' = Append(inbox, Signal(name, v))
    BY <1>1, <1>2, <2>2, Arrives
  <2> QED
    BY <2>1, <2>2 DEF Deliver
<1>4. Pending(inbox, "UnitRemoved", u)' => "UnitNew" \in rules
  <2>1. CASE UNCHANGED inbox
    BY <2>1 DEF Pending, Signalled
  <2>2. CASE inbox' = Append(inbox, Signal(name, v)) /\ (name = "UnitRemoved" => "UnitRemoved" \in rules)
    <3>1. Pending(inbox, "UnitRemoved", u)'
            => Pending(inbox, "UnitRemoved", u) \/ ("UnitRemoved" = name /\ u = v)
      BY <1>1, <1>2, <2>2, Arrives
    <3> QED
      BY <2>2, <3>1 DEF Signalled, RulesInv
  <2> QED
    BY <2>1, <2>2 DEF Deliver
<1>5. ASSUME bus'[u] # Absent
      PROVE  Revived(inbox, u)'
  <2>1. CASE inbox' = Append(inbox, Signal(name, v))
    <3>1. (name = "UnitNew" /\ u = v) \/ (Revived(inbox, u) /\ ~(name = "UnitRemoved" /\ u = v))
      BY <1>5 DEF Signalled
    <3> QED
      BY <1>1, <1>2, <2>1, <3>1, ArrivalRevives
  <2>2. CASE UNCHANGED inbox
    <3>1. CASE Revived(inbox, u)
      BY <2>2, <3>1 DEF Revived
    <3>2. CASE u = v /\ name = "UnitNew"
      <4>1. CASE "UnitNew" \in rules
        <5>1. inbox' = Append(inbox, Signal(name, v))
          BY <3>2, <4>1 DEF Deliver
        <5> QED
          BY <1>1, <1>2, <3>2, <5>1, ArrivalRevives
      <4>2. CASE "UnitNew" \notin rules
        <5>1. ~Pending(inbox, "UnitRemoved", u)
          BY <4>2 DEF Signalled
        <5> QED
          BY <2>2, <5>1 DEF Pending, Revived
      <4> QED
        BY <4>1, <4>2
    <3> QED
      BY <1>5, <3>1, <3>2 DEF Signalled
  <2> QED
    BY <2>1, <2>2 DEF Deliver
<1> QED
  BY <1>3, <1>4, <1>5 DEF Signalled

\* A change on the bus is signalled, or the watcher does not look yet.
LEMMA ChangeCorrected ==
  ASSUME TypeOK, RulesInv, KnownInv, pc # "ended", NEW v \in Units,
         NEW a \in ActiveStates \cup {Absent}, BusChange(v, a),
         NEW u \in Units, Corrected(u)
  PROVE  Corrected(u)'
<1> USE SystemdAssumption
<1>1. /\ bus' = [bus EXCEPT ![v] = a] /\ bus[v] # a
      /\ UNCHANGED <<rules, matches, pc, listing, unit, units, state, failed>>
  BY DEF BusChange, ruleVars
<1>2. u # v => bus'[u] = bus[u]
  BY <1>1 DEF TypeOK
<1>3. bus'[v] = a
  BY <1>1 DEF TypeOK
<1>4. PICK name \in {"UnitNew", "UnitRemoved", "PropertiesChanged"} :
        /\ Deliver(name, v)
        /\ name = "UnitNew" => bus[v] = Absent
        /\ name = "UnitRemoved" => bus[v] # Absent /\ a = Absent
        /\ name = "PropertiesChanged" => bus[v] # Absent /\ a # Absent
  <2>1. CASE bus[v] = Absent
    BY <1>1, <2>1 DEF BusChange
  <2>2. CASE bus[v] # Absent /\ a = Absent
    BY <1>1, <2>2 DEF BusChange
  <2>3. CASE bus[v] # Absent /\ a # Absent
    BY <1>1, <2>3 DEF BusChange
  <2> QED
    BY <2>1, <2>2, <2>3
<1>5. Signalled(u)' /\ \A m : Pending(inbox, m, u) => Pending(inbox, m, u)'
  BY <1>1, <1>2, <1>3, <1>4, DeliverSignals DEF Corrected
<1>6. CASE u # v
  BY <1>1, <1>2, <1>5, <1>6 DEF Corrected, Awaited, Checked
<1>7. CASE u = v
  <2>1. name = "UnitNew" /\ "UnitNew" \in rules => Pending(inbox, "UnitNew", u)'
    BY <1>4, <1>7, SignalType, Arrives DEF Deliver, TypeOK
  <2>2. name = "UnitRemoved" /\ "UnitRemoved" \in rules => Pending(inbox, "UnitRemoved", u)'
    BY <1>4, <1>7, SignalType, Arrives DEF Deliver, TypeOK
  <2>3. name = "PropertiesChanged" /\ matches[u] > 0 => Pending(inbox, "PropertiesChanged", u)'
    BY <1>4, <1>7, SignalType, Arrives DEF Deliver, TypeOK
  <2>4. units[u] # Absent => matches[u] > 0 /\ pc \notin Early
    BY DEF KnownInv
  <2>5. (units[u] # Absent /\ bus[u] = Absent => Pending(inbox, "UnitRemoved", u))'
    BY <1>1, <1>3, <1>4, <1>7, <2>2, <2>4 DEF RulesInv, Early
  <2>6. (units[u] = Absent /\ bus[u] # Absent /\ u \notin failed \cup Ignored /\ pc \notin Early
          => Awaited(u))'
    <3>1. CASE name = "UnitNew"
      BY <1>1, <2>1, <3>1 DEF RulesInv, Early, Awaited
    <3>2. CASE name # "UnitNew"
      BY <1>1, <1>3, <1>4, <1>5, <1>7, <3>2 DEF Corrected, Awaited
    <3> QED
      BY <3>1, <3>2
  <2>7. (units[u] # Absent /\ bus[u] # Absent /\ u \notin failed /\ units[u] # StateOf(bus[u])
          => Checked(u))'
    <3>1. CASE name = "UnitNew"
      BY <1>1, <1>4, <1>5, <1>7, <3>1 DEF Corrected, Checked
    <3>2. CASE name = "PropertiesChanged"
      BY <1>1, <2>3, <2>4, <3>2 DEF Checked
    <3>3. CASE name = "UnitRemoved"
      BY <1>3, <1>4, <1>7, <3>3
    <3> QED
      BY <3>1, <3>2, <3>3
  <2> QED
    BY <1>5, <2>5, <2>6, <2>7 DEF Corrected
<1> QED
  BY <1>6, <1>7

\* An answer makes the watcher know what the bus knows of the unit, which the
\* question may have brought back.
LEMMA UpdateCorrected ==
  ASSUME TypeOK, RulesInv, KnownInv,
         ListedStatus \/ AddStatus \/ CheckStatus,
         NEW u \in Units, Corrected(u)
  PROVE  Corrected(u)'
<1> USE SystemdAssumption
<1>1. /\ Ask(unit) /\ unit \in Units /\ "UnitNew" \in rules
      /\ units' = [units EXCEPT ![unit] = StateOf(bus'[unit])]
      /\ failed' = failed \ {unit}
      /\ UNCHANGED <<rules, listing, unit>>
      /\ pc' \notin Early \cup {"listStatus", "addStatus", "checkStatus"}
      /\ pc = "listStatus" => pc' = "listing"
      /\ pc # "listing" /\ pc \notin Early
  BY DEF ListedStatus, AddStatus, CheckStatus, UpdateUnit, KnownInv, RulesInv, ruleVars, Early
<1>2. bus'[unit] # Absent /\ (u # unit => bus'[u] = bus[u])
  BY <1>1 DEF Ask, TypeOK, AllActiveStates
<1>3. Signalled(u)' /\ \A m : Pending(inbox, m, u) => Pending(inbox, m, u)'
  <2>1. CASE bus[unit] = Absent
    <3>1. Deliver("UnitNew", unit)
      BY <1>1, <2>1 DEF Ask
    <3> QED
      BY <1>1, <1>2, <3>1, DeliverSignals DEF Corrected
  <2>2. CASE bus[unit] # Absent
    <3>1. UNCHANGED <<bus, inbox>>
      BY <1>1, <2>2 DEF Ask, TypeOK
    <3> QED
      BY <1>1, <3>1 DEF Corrected, Signalled, Pending, Revived
  <2> QED
    BY <2>1, <2>2
<1>4. CASE u = unit
  <2>1. units'[u] = StateOf(bus'[u]) /\ units'[u] # Absent
    BY <1>1, <1>4, StatesPresent DEF TypeOK
  <2> QED
    BY <1>2, <1>3, <1>4, <2>1 DEF Corrected
<1>5. CASE u # unit
  <2>1. units'[u] = units[u] /\ (u \in failed <=> u \in failed')
    BY <1>1, <1>5 DEF TypeOK
  <2>2. Awaited(u) => Awaited(u)'
    BY <1>1, <1>3, <1>5 DEF Awaited
  <2>3. Checked(u) => Checked(u)'
    BY <1>1, <1>3, <1>5 DEF Checked
  <2> QED
    BY <1>1, <1>2, <1>3, <1>5, <2>1, <2>2, <2>3 DEF Corrected
<1> QED
  BY <1>4, <1>5

\* A signal that is taken: what it was to correct is under way, or it was about
\* nothing.
LEMMA TakeCorrected ==
  ASSUME TypeOK, RulesInv, KnownInv, NEW v \in Units,
         UnitNew(v) \/ UnitRemoved(v) \/ PropertiesChanged(v),
         NEW u \in Units, Corrected(u)
  PROVE  Corrected(u)'
<1> USE SystemdAssumption
<1>1. /\ pc = "loop" /\ inbox \in Seq(Signals) /\ inbox # <<>> /\ inbox' = Tail(inbox)
      /\ UNCHANGED <<bus, rules, listing>>
  BY DEF UnitNew, UnitRemoved, PropertiesChanged, Takes, TypeOK, busVars, ruleVars
<1>2. \A m : /\ Pending(inbox, m, u)' => Pending(inbox, m, u)
             /\ Pending(inbox, m, u) /\ Head(inbox) # Signal(m, u) => Pending(inbox, m, u)'
  BY <1>1, Taken
<1>3. Revived(inbox, u) => Revived(inbox, u)'
  BY <1>1, Taken
<1>4. Signalled(u)'
  BY <1>1, <1>2, <1>3 DEF Corrected, Signalled
<1>5. CASE UnitNew(v)
  <2>1. /\ Head(inbox) = Signal("UnitNew", v) /\ UNCHANGED <<units, state>>
        /\ failed \subseteq failed' /\ pc' \in {"loop", "addStatus"}
    BY <1>5 DEF UnitNew, Takes
  <2>2. \A m : (m # "UnitNew" \/ u # v) /\ Pending(inbox, m, u) => Pending(inbox, m, u)'
    BY <1>2, <2>1, SignalsDiffer
  <2>3. Checked(u) => Checked(u)'
    BY <1>1, <2>2 DEF Checked
  <2>4. (units[u] = Absent /\ bus[u] # Absent /\ u \notin failed \cup Ignored /\ pc \notin Early
          => Awaited(u))'
    <3>1. CASE u # v
      BY <1>1, <2>1, <2>2, <3>1 DEF Corrected, Awaited, Early
    <3>2. CASE u = v
      BY <1>5, <3>2 DEF UnitNew, Skips, Watch, Awaited
    <3> QED
      BY <3>1, <3>2
  <2> QED
    BY <1>1, <1>4, <2>1, <2>2, <2>3, <2>4 DEF Corrected
<1>6. CASE UnitRemoved(v)
  <2>1. /\ Head(inbox) = Signal("UnitRemoved", v) /\ units'[v] = Absent
        /\ (u # v => units'[u] = units[u]) /\ failed' = failed \ {v} /\ UNCHANGED unit
        /\ pc' \in {"loop", "emit"}
    BY <1>6 DEF UnitRemoved, Takes, TypeOK
  <2>2. \A m : (m # "UnitRemoved" \/ u # v) /\ Pending(inbox, m, u) => Pending(inbox, m, u)'
    BY <1>2, <2>1, SignalsDiffer
  <2>3. CASE u # v
    <3>1. Checked(u) => Checked(u)'
      BY <1>1, <2>2, <2>3 DEF Checked
    <3>2. Awaited(u) => Awaited(u)'
      BY <1>1, <2>2, <2>3 DEF Awaited
    <3>3. u \in failed <=> u \in failed'
      BY <2>1, <2>3
    <3> QED
      BY <1>1, <1>4, <2>1, <2>2, <2>3, <3>1, <3>2, <3>3 DEF Corrected, Early
  <2>4. CASE u = v
    <3>1. bus[u] # Absent => Pending(inbox, "UnitNew", u)'
      BY <1>1, <2>1, <2>4, Taken DEF Corrected, Signalled
    <3> QED
      BY <1>1, <1>4, <2>1, <2>4, <3>1 DEF Corrected, Awaited
  <2> QED
    BY <2>3, <2>4
<1>7. CASE PropertiesChanged(v)
  <2>1. /\ Head(inbox) = Signal("PropertiesChanged", v) /\ UNCHANGED <<units, state, failed>>
        /\ pc' \in {"loop", "checkStatus"}
        /\ units[v] # Absent => pc' = "checkStatus" /\ unit' = v
    BY <1>7 DEF PropertiesChanged, Takes
  <2>2. \A m : (m # "PropertiesChanged" \/ u # v) /\ Pending(inbox, m, u) => Pending(inbox, m, u)'
    BY <1>2, <2>1, SignalsDiffer
  <2>3. Awaited(u) => Awaited(u)'
    BY <1>1, <2>2 DEF Awaited
  <2>4. units[u] # Absent /\ Checked(u) => Checked(u)'
    BY <1>1, <2>1, <2>2 DEF Checked
  <2> QED
    BY <1>1, <1>4, <2>1, <2>2, <2>3, <2>4 DEF Corrected, Early
<1> QED
  BY <1>5, <1>6, <1>7

\* The other steps leave the bus, its signals and the known units alone.
LEMMA OtherCorrected ==
  ASSUME TypeOK, RulesInv, KnownInv, pc # "ended", pc' # "ended",
         \/ Subscribe \/ AddMatches \/ ListUnits \/ Listed \/ StartFailure \/ Emit \/ StatusFailure
         \/ \E v \in Units : ListedUnit(v),
         NEW u \in Units, Corrected(u)
  PROVE  Corrected(u)'
<1>1. UNCHANGED <<bus, inbox, units>> /\ rules \subseteq rules'
  BY DEF Subscribe, AddMatches, ListUnits, Listed, StartFailure, Emit, StatusFailure, ListedUnit,
         busVars, ruleVars
<1>2. Signalled(u)' /\ \A m : Pending(inbox, m, u) => Pending(inbox, m, u)'
  BY <1>1 DEF Corrected, Signalled, Pending, Revived
<1>3. CASE Subscribe \/ AddMatches \/ Listed \/ StartFailure \/ Emit
  <2>1. UNCHANGED <<failed, unit, listing>>
    BY <1>3 DEF Subscribe, AddMatches, Listed, StartFailure, Emit
  <2>2. pc' \notin Early => pc \notin Early
    BY <1>3 DEF Subscribe, AddMatches, Listed, StartFailure, Emit, Early
  <2>3. pc' \notin Early /\ Awaited(u) => Awaited(u)'
    BY <1>2, <1>3, <2>1 DEF Awaited, Subscribe, AddMatches, Listed, StartFailure, Emit, Early
  <2>4. Checked(u) => Checked(u)'
    BY <1>2, <1>3 DEF Checked, Subscribe, AddMatches, Listed, StartFailure, Emit
  <2> QED
    BY <1>1, <1>2, <2>1, <2>2, <2>3, <2>4 DEF Corrected
<1>4. CASE ListUnits
  <2>1. pc' = "listing" /\ (bus[u] # Absent => u \in listing') /\ pc = "list" /\ UNCHANGED failed
    BY <1>4 DEF ListUnits
  <2>2. units[u] = Absent
    BY <2>1 DEF KnownInv, Early
  <2> QED
    BY <1>1, <1>2, <2>1, <2>2 DEF Corrected, Awaited
<1>5. CASE StatusFailure
  <2>1. pc \in {"addStatus", "checkStatus"} /\ failed' = failed \cup {unit} /\ UNCHANGED <<unit, listing>>
        /\ pc' = "loop"
    BY <1>5 DEF StatusFailure
  <2>2. u \notin failed' /\ Awaited(u) => Awaited(u)'
    BY <1>2, <2>1 DEF Awaited
  <2>3. u \notin failed' /\ Checked(u) => Checked(u)'
    BY <1>2, <2>1 DEF Checked
  <2> QED
    BY <1>1, <1>2, <2>1, <2>2, <2>3 DEF Corrected, Early
<1>6. ASSUME NEW v \in Units, ListedUnit(v)
      PROVE  Corrected(u)'
  <2>1. /\ pc = "listing" /\ listing' = listing \ {v} /\ UNCHANGED failed
        /\ \/ Skips(v) /\ UNCHANGED <<pc, unit>>
           \/ pc' = "listStatus" /\ unit' = v
    BY <1>6 DEF ListedUnit, Watch
  <2>2. units[u] = Absent /\ u \notin Ignored /\ Awaited(u) => Awaited(u)'
    BY <1>2, <2>1 DEF Awaited, Skips
  <2>3. Checked(u) => Checked(u)'
    BY <1>2, <2>1 DEF Checked
  <2> QED
    BY <1>1, <1>2, <2>1, <2>2, <2>3 DEF Corrected, Early
<1> QED
  BY <1>3, <1>4, <1>5, <1>6

LEMMA TrackStep ==
  ASSUME TypeOK, RulesInv, TrackInv, [Next]_vars
  PROVE  TrackInv'
<1>1. CASE UNCHANGED vars
  BY <1>1 DEF vars, busVars, ruleVars, TrackInv, KnownInv, Corrected, Signalled, Awaited, Checked
<1>2. ASSUME Next, pc' # "ended"
      PROVE  TrackInv'
  <2>1. pc # "ended"
    BY <1>2 DEF Next, Start, Process, BusChange, Subscribe, AddMatches, ListUnits, Listed, StartFailure,
       Emit, ListedUnit, ListedStatus, AddStatus, CheckStatus, StatusFailure, UnitNew, UnitRemoved,
       PropertiesChanged, Takes
  <2>2. KnownInv /\ \A u \in Units : Corrected(u)
    BY <2>1 DEF TrackInv
  <2>3. KnownInv'
    BY <1>2, <2>1, <2>2, KnownStep
  <2>4. ASSUME NEW u \in Units
        PROVE  Corrected(u)'
    BY <1>2, <2>1, <2>2, ChangeCorrected, UpdateCorrected, TakeCorrected, OtherCorrected
       DEF Next, Start, Process
  <2> QED
    BY <2>3, <2>4 DEF TrackInv
<1> QED
  BY <1>1, <1>2 DEF TrackInv

-----------------------------------------------------------------------------
(* The theorems.                                                           *)

LEMMA Initially == Init => TypeOK /\ RulesInv /\ TrackInv
<1> USE SystemdAssumption
<1> SUFFICES ASSUME Init
             PROVE  TypeOK /\ RulesInv /\ TrackInv
  OBVIOUS
<1>1. TypeOK
  BY DEF Init, None, TypeOK, Signals
<1>2. RulesInv
  BY DEF Init, RulesInv
<1>3. KnownInv
  BY DEF Init, None, KnownInv
<1>4. ASSUME NEW u \in Units
      PROVE  Corrected(u)
  BY DEF Init, None, Corrected, Signalled, Pending, Revived, Early
<1> QED
  BY <1>1, <1>2, <1>3, <1>4 DEF TrackInv

LEMMA Following == Spec => [](TypeOK /\ RulesInv /\ TrackInv)
<1>1. TypeOK /\ RulesInv /\ TrackInv /\ [Next]_vars => (TypeOK /\ RulesInv /\ TrackInv)'
  BY TypeStep, RulesStep, TrackStep DEF TrackInv
<1> QED
  BY <1>1, Initially, PTL DEF Spec

\* Every variable of the watcher keeps its type; no match rule is removed that
\* is not there.
THEOREM SystemdTypes == Spec => []TypeOK
BY Following, PTL

\* However signals and answers cross, and whatever calls fail: once all signals
\* are processed the watcher knows the units of the bus with their states, but
\* for those that a call failed for.
THEOREM WatcherTracks == Spec => []Tracks
<1>1. TrackInv => Tracks
  <2> USE SystemdAssumption
  <2> SUFFICES ASSUME TrackInv, Quiet, NEW u \in Units \ failed
               PROVE  units[u] = True(u) /\ state[u] = True(u)
    BY DEF Tracks
  <2>1. pc = "loop" /\ KnownInv /\ Corrected(u) /\ \A m : ~Pending(inbox, m, u)
    BY DEF Quiet, TrackInv, Pending
  <2>2. ~Checked(u) /\ ~Awaited(u)
    BY <2>1 DEF Checked, Awaited
  <2> QED
    BY <2>1, <2>2 DEF Corrected, KnownInv, True, Early
<1> QED
  BY <1>1, Following, PTL

\* What has been sent of a unit is what the watcher holds of it, or nothing.
SentInv == pc \in {"loop", "addStatus", "checkStatus"} => \A u \in Units : sent[u] \in {state[u], Absent}

LEMMA SentStep ==
  ASSUME TypeOK, TrackInv, SentInv, [Next]_vars
  PROVE  SentInv'
<1>1. CASE UNCHANGED vars
  BY <1>1 DEF vars, SentInv
<1>2. ASSUME NEW u \in Units, NEW a \in ActiveStates \cup {Absent}, BusChange(u, a)
      PROVE  SentInv'
  BY <1>2 DEF BusChange, SentInv
<1>3. CASE Subscribe \/ AddMatches \/ ListUnits \/ Listed \/ StartFailure \/ Emit
  BY <1>3 DEF Subscribe, AddMatches, ListUnits, Listed, StartFailure, Emit, SentInv
<1>4. ASSUME NEW u \in Units, ListedUnit(u)
      PROVE  SentInv'
  BY <1>4 DEF ListedUnit, Watch, SentInv
<1>5. CASE ListedStatus \/ CheckStatus
  BY <1>5 DEF ListedStatus, CheckStatus, SentInv
<1>6. CASE AddStatus
  <2>1. /\ \A u \in Units : sent[u] \in {state[u], Absent}
        /\ state[unit] = Absent /\ unit \in Units
    BY <1>6 DEF AddStatus, SentInv, TrackInv, KnownInv
  <2>2. UNCHANGED sent /\ \A u \in Units : u # unit => state'[u] = state[u]
    BY <1>6 DEF AddStatus, UpdateUnit, TypeOK
  <2> QED
    BY <2>1, <2>2 DEF SentInv
<1>7. ASSUME NEW u \in Units, UnitNew(u) \/ PropertiesChanged(u)
      PROVE  SentInv'
  BY <1>7 DEF UnitNew, PropertiesChanged, Takes, Watch, SentInv
<1>8. ASSUME NEW u \in Units, UnitRemoved(u)
      PROVE  SentInv'
  BY <1>8 DEF UnitRemoved, Takes, SentInv
<1>9. CASE StatusFailure
  BY <1>9 DEF StatusFailure, SentInv
<1> QED
  BY <1>1, <1>2, <1>3, <1>4, <1>5, <1>6, <1>7, <1>8, <1>9 DEF Next, Start, Process

\* Once all signals are processed, the last snapshot shows no unit that is gone
\* and none in a state that is not its own, but for those that a call failed for.
THEOREM SnapshotsTrue == Spec => []SentIsTrue
<1>1. Init => SentInv
  BY DEF Init, SentInv
<1>2. TypeOK /\ TrackInv /\ SentInv /\ [Next]_vars => SentInv'
  BY SentStep
<1>3. Tracks /\ SentInv => SentIsTrue
  BY DEF Tracks, SentInv, SentIsTrue, Quiet
<1> QED
  BY <1>1, <1>2, <1>3, Following, WatcherTracks, PTL DEF Spec

=============================================================================
