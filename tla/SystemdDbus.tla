------------------------------ MODULE SystemdDbus -----------------------------
(***************************************************************************)
(* The watcher thread of the systemd source (src/systemd_dbus.rs): it asks *)
(* systemd for its units, follows their signals and sends a snapshot of    *)
(* the states of all units after a change.                                 *)
(*                                                                         *)
(* The thread blocks in each call to the bus and in sender.send, so these  *)
(* are its steps.  systemd goes on meanwhile, and its signals queue up in  *)
(* the connection while the thread waits for an answer: an answer is newer *)
(* than the signals that are processed after it.  A unit is its name and   *)
(* its object path, of which either determines the other.                  *)
(***************************************************************************)
EXTENDS Naturals, Sequences, FiniteSets

CONSTANTS
  Units,         \* the units systemd may have
  Ignored,       \* those of an ignored type
  ActiveStates,  \* the values of ActiveState that occur
  Absent,        \* no unit, no state
  MaxEvents      \* bound: how often the units of systemd change

AllActiveStates == {"active", "reloading", "activating", "inactive", "deactivating",
                    "failed", "maintenance"}

ASSUME SystemdAssumption ==
  /\ Ignored \subseteq Units
  /\ ActiveStates \subseteq AllActiveStates
  /\ Absent \notin Units \cup {"Active", "Inactive", "Error", "Unknown"} \cup AllActiveStates
  /\ MaxEvents \in Nat

VARIABLES
  bus,      \* systemd: the ActiveState of each unit, Absent if there is none
  changes,  \* how often it has changed
  inbox,    \* the signals received and not yet processed
  rules,    \* the match rules for UnitNew and UnitRemoved
  matches,  \* per unit, the number of its match rules for PropertiesChanged
  pc,       \* where the watcher is
  listing,  \* the units of the answer to ListUnits that are not yet processed
  unit,     \* the unit whose status is asked for
  units,    \* DBusState.units: the status of each known unit
  state,    \* DBusState.state
  sent,     \* the last snapshot sent
  failed    \* the units the watcher is not up to date with since a call failed

busVars == <<bus, changes>>
ruleVars == <<rules, matches>>
vars == <<busVars, inbox, ruleVars, pc, listing, unit, units, state, sent, failed>>

None == [u \in Units |-> Absent]

Init ==
  /\ bus \in [Units -> ActiveStates \cup {Absent}]
  /\ changes = 0
  /\ inbox = <<>>
  /\ rules = {}
  /\ matches = [u \in Units |-> 0]
  /\ pc = "subscribe"
  /\ listing = {}
  /\ unit = Absent
  /\ units = None
  /\ state = None
  /\ sent = None
  /\ failed = {}

-----------------------------------------------------------------------------
(* systemd and the bus.                                                    *)

Signal(name, u) == [name |-> name, unit |-> u]

\* The bus passes on the signals that a match rule asks for.
Deliver(name, u) ==
  inbox' = IF name \in rules \/ (name = "PropertiesChanged" /\ matches[u] > 0)
           THEN Append(inbox, Signal(name, u))
           ELSE inbox

\* A unit appears, changes or goes.
BusChange(u, a) ==
  /\ changes < MaxEvents
  /\ bus[u] # a
  /\ bus' = [bus EXCEPT ![u] = a]
  /\ changes' = changes + 1
  /\ Deliver(CASE bus[u] = Absent -> "UnitNew"
               [] a = Absent      -> "UnitRemoved"
               [] OTHER           -> "PropertiesChanged", u)
  /\ UNCHANGED <<ruleVars, pc, listing, unit, units, state, sent, failed>>

\* systemd is asked for the ActiveState of u: it loads a unit that is not there.
Ask(u) ==
  /\ bus' = [bus EXCEPT ![u] = IF @ = Absent THEN "inactive" ELSE @]
  /\ IF bus[u] = Absent THEN Deliver("UnitNew", u) ELSE UNCHANGED inbox

-----------------------------------------------------------------------------
(* watch_units up to its loop.  An error ends the watcher.                 *)

StateOf(a) ==
  CASE a \in {"active", "reloading", "activating"} -> "Active"
    [] a \in {"inactive", "deactivating"}          -> "Inactive"
    [] a = "failed"                                -> "Error"
    [] OTHER                                       -> "Unknown"

Subscribe ==
  /\ pc = "subscribe"
  /\ pc' = "matchNew"
  /\ UNCHANGED <<busVars, inbox, ruleVars, listing, unit, units, state, sent, failed>>

AddMatches ==
  /\ \/ pc = "matchNew" /\ rules' = rules \cup {"UnitNew"} /\ pc' = "matchRemoved"
     \/ pc = "matchRemoved" /\ rules' = rules \cup {"UnitRemoved"} /\ pc' = "list"
  /\ UNCHANGED <<busVars, inbox, matches, listing, unit, units, state, sent, failed>>

ListUnits ==
  /\ pc = "list"
  /\ listing' = {u \in Units : bus[u] # Absent}
  /\ pc' = "listing"
  /\ UNCHANGED <<busVars, inbox, ruleVars, unit, units, state, sent, failed>>

\* A call fails, or a unit's does.
StartFailure ==
  /\ pc \in {"subscribe", "matchNew", "matchRemoved", "list", "listStatus"}
     \/ (pc = "listing" /\ listing # {})
  /\ pc' = "ended"
  /\ UNCHANGED <<busVars, inbox, ruleVars, listing, unit, units, state, sent, failed>>

\* add_unit: a unit that is known or of an ignored type is passed over.
Skips(u) == units[u] # Absent \/ u \in Ignored

\* _update_unit, with the answer of get_unit_status.
UpdateUnit ==
  /\ Ask(unit)
  /\ units' = [units EXCEPT ![unit] = StateOf(bus'[unit])]
  /\ state' = [state EXCEPT ![unit] = StateOf(bus'[unit])]
  /\ failed' = failed \ {unit}

\* add_unit up to the answer to add_match.
Watch(u) ==
  /\ ~Skips(u)
  /\ matches' = [matches EXCEPT ![u] = @ + 1]
  /\ unit' = u

\* process_unit_tuple for the next unit of the listing.
ListedUnit(u) ==
  /\ pc = "listing"
  /\ u \in listing
  /\ listing' = listing \ {u}
  /\ \/ Skips(u) /\ UNCHANGED <<pc, matches, unit>>
     \/ Watch(u) /\ pc' = "listStatus"
  /\ UNCHANGED <<busVars, inbox, rules, units, state, sent, failed>>

ListedStatus ==
  /\ pc = "listStatus"
  /\ UpdateUnit
  /\ pc' = "listing"
  /\ UNCHANGED <<changes, ruleVars, listing, unit, sent>>

\* "initial state computed - send it"
Listed ==
  /\ pc = "listing"
  /\ listing = {}
  /\ pc' = "emit"
  /\ UNCHANGED <<busVars, inbox, ruleVars, listing, unit, units, state, sent, failed>>

\* sender.send() of a clone of state, when there is room.
Emit ==
  /\ pc = "emit"
  /\ sent' = state
  /\ pc' = "loop"
  /\ UNCHANGED <<busVars, inbox, ruleVars, listing, unit, units, state, failed>>

-----------------------------------------------------------------------------
(* process_message.  An error is reported, and the loop goes on.           *)

\* The next message is the signal of that name for u.
Takes(name, u) ==
  /\ pc = "loop"
  /\ inbox # <<>>
  /\ Head(inbox) = Signal(name, u)
  /\ inbox' = Tail(inbox)

\* add_unit; add_match may fail.
UnitNew(u) ==
  /\ Takes("UnitNew", u)
  /\ \/ Skips(u) /\ UNCHANGED <<pc, matches, unit, failed>>
     \/ Watch(u) /\ pc' = "addStatus" /\ UNCHANGED failed
     \/ ~Skips(u) /\ failed' = failed \cup {u} /\ UNCHANGED <<pc, matches, unit>>
  /\ UNCHANGED <<busVars, rules, listing, units, state, sent>>

\* The rest of add_unit: nothing is sent.
AddStatus ==
  /\ pc = "addStatus"
  /\ UpdateUnit
  /\ pc' = "loop"
  /\ UNCHANGED <<changes, ruleVars, listing, unit, sent>>

\* Mutant of UnitRemoved: the unit stays in units.
UnitRemovedByName(u) ==
  /\ Takes("UnitRemoved", u)
  /\ \/ units[u] = Absent /\ UNCHANGED <<pc, matches, state>>
     \/ /\ units[u] # Absent
        /\ matches' \in {matches, [matches EXCEPT ![u] = @ - 1]}
        /\ state' = [state EXCEPT ![u] = Absent]
        /\ pc' = "emit"
  /\ failed' = failed \ {u}
  /\ UNCHANGED <<busVars, rules, listing, unit, units, sent>>

\* Mutant of UnitRemoved: the match rule of an unknown unit is removed too.
UnitRemovedAnyway(u) ==
  /\ Takes("UnitRemoved", u)
  /\ matches' \in {matches, [matches EXCEPT ![u] = @ - 1]}
  /\ units' = [units EXCEPT ![u] = Absent]
  /\ state' = [state EXCEPT ![u] = Absent]
  /\ pc' = "emit"
  /\ failed' = failed \ {u}
  /\ UNCHANGED <<busVars, rules, listing, unit, sent>>

\* remove_unit; an error of remove_match is ignored.
UnitRemoved(u) ==
  /\ Takes("UnitRemoved", u)
  /\ \/ units[u] = Absent /\ UNCHANGED <<pc, matches, units, state>>
     \/ /\ units[u] # Absent
        /\ units' = [units EXCEPT ![u] = Absent]
        /\ matches' \in {matches, [matches EXCEPT ![u] = @ - 1]}
        /\ state' = [state EXCEPT ![u] = Absent]
        /\ pc' = "emit"
  /\ failed' = failed \ {u}
  /\ UNCHANGED <<busVars, rules, listing, unit, sent>>

\* check_unit: only a known unit is asked about.
PropertiesChanged(u) ==
  /\ Takes("PropertiesChanged", u)
  /\ \/ units[u] = Absent /\ UNCHANGED <<pc, unit>>
     \/ units[u] # Absent /\ pc' = "checkStatus" /\ unit' = u
  /\ UNCHANGED <<busVars, ruleVars, listing, units, state, sent, failed>>

\* Mutant of CheckStatus: nothing is sent, as by add_unit.
CheckStatusSilent ==
  /\ pc = "checkStatus"
  /\ UpdateUnit
  /\ pc' = "loop"
  /\ UNCHANGED <<changes, ruleVars, listing, unit, sent>>

\* The rest of check_unit, up to the send.
CheckStatus ==
  /\ pc = "checkStatus"
  /\ UpdateUnit
  /\ pc' = "emit"
  /\ UNCHANGED <<changes, ruleVars, listing, unit, sent>>

\* The status of a unit cannot be got.
StatusFailure ==
  /\ pc \in {"addStatus", "checkStatus"}
  /\ failed' = failed \cup {unit}
  /\ pc' = "loop"
  /\ UNCHANGED <<busVars, inbox, ruleVars, listing, unit, units, state, sent>>

-----------------------------------------------------------------------------
Start == Subscribe \/ AddMatches \/ ListUnits \/ ListedStatus \/ Listed \/ StartFailure

Process ==
  \/ \E u \in Units : UnitNew(u) \/ UnitRemoved(u) \/ PropertiesChanged(u)
  \/ AddStatus
  \/ CheckStatus
  \/ StatusFailure

Next ==
  \/ \E u \in Units, a \in ActiveStates \cup {Absent} : BusChange(u, a)
  \/ Start
  \/ \E u \in Units : ListedUnit(u)
  \/ Emit
  \/ Process

Spec == Init /\ [][Next]_vars

-----------------------------------------------------------------------------
(* Properties.                                                             *)

States == {"Active", "Inactive", "Error", "Unknown"}
Signals == [name: {"UnitNew", "UnitRemoved", "PropertiesChanged"}, unit: Units]

\* Every variable has its type; no match rule is removed that is not there.
TypeOK ==
  /\ bus \in [Units -> ActiveStates \cup {"inactive", Absent}]
  /\ changes \in 0..MaxEvents
  /\ inbox \in Seq(Signals)
  /\ rules \subseteq {"UnitNew", "UnitRemoved"}
  /\ matches \in [Units -> Nat]
  /\ pc \in {"subscribe", "matchNew", "matchRemoved", "list", "listing", "listStatus", "emit",
             "loop", "addStatus", "checkStatus", "ended"}
  /\ listing \subseteq Units
  /\ unit \in Units \cup {Absent}
  /\ units \in [Units -> States \cup {Absent}]
  /\ state \in [Units -> States \cup {Absent}]
  /\ sent \in [Units -> States \cup {Absent}]
  /\ failed \subseteq Units

\* Every signal is processed and no call is under way.
Quiet == pc = "loop" /\ inbox = <<>>

\* The state of u on the bus, as a client should see it.
True(u) == IF bus[u] = Absent \/ u \in Ignored THEN Absent ELSE StateOf(bus[u])

\* Once all signals are processed, the watcher knows exactly the units of the
\* bus, with their states, however signals and answers crossed; a failed call
\* costs the unit it was about and no other.
Tracks == Quiet => \A u \in Units \ failed : units[u] = True(u) /\ state[u] = True(u)

\* Once all signals are processed, no client sees a unit that is gone, or one
\* in a state that is not its own; again but for units that a call failed for.
SentIsTrue == Quiet => \A u \in Units \ failed : sent[u] \in {True(u), Absent}

\* "this update represents the entire latest state" (monitor.rs:255): once all
\* signals are processed and no call has failed, the last snapshot sent is it.
SentIsLatest == Quiet /\ failed = {} => \A u \in Units : sent[u] = True(u)

=============================================================================
