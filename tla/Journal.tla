-------------------------------- MODULE Journal -------------------------------
(***************************************************************************)
(* The journal source (src/journal.rs).  Its thread starts journalctl and  *)
(* two reader threads, waits for journalctl to end, joins the readers,     *)
(* reports that it ended and starts again.  The reader of stdout keeps the *)
(* event channel's sender locked, filters the lines and offers an event    *)
(* for each that passes.                                                   *)
(***************************************************************************)
EXTENDS Filter

CONSTANTS
  Entries,      \* the entries the journal may get: payloads, and Garbage
  Garbage,      \* a line that is no JSON object
  FilterLists,  \* the filters of the configurations
  MaxEntries,   \* bound: the length of the journal
  MaxSpawns     \* bound: how often journalctl is started

ASSUME JournalAssumption == MaxEntries \in Nat /\ MaxSpawns \in Nat

VARIABLES
  filters,     \* config.common.filters
  journal,     \* the entries of the journal
  child,       \* journalctl
  written,     \* how many entries of the journal journalctl has passed
  pipe,        \* the entries it has written and nobody has read, as indices
  spawns,      \* how often it has been started
  main,        \* where run_thread is
  reader,      \* the thread that reads stdout
  errReader,   \* the thread that reads stderr
  subscriber,  \* the mutex of the sender
  offered      \* what has been offered to the event channel

childVars == <<child, written, pipe, spawns>>
readerVars == <<reader, errReader, subscriber>>
vars == <<filters, journal, childVars, main, readerVars, offered>>

Failure == [kind |-> "failure"]
Event(k, severity, attrs) == [kind |-> "event", entry |-> k, severity |-> severity, attrs |-> attrs]

Init ==
  /\ filters \in FilterLists
  /\ journal = <<>>
  /\ child = "none"
  /\ written = 0
  /\ pipe = <<>>
  /\ spawns = 0
  /\ main = "spawn"
  /\ reader = "off"
  /\ errReader = "off"
  /\ subscriber = "free"
  /\ offered = <<>>

-----------------------------------------------------------------------------
(* The journal and journalctl.                                             *)

Log(e) ==
  /\ Len(journal) < MaxEntries
  /\ journal' = Append(journal, e)
  /\ UNCHANGED <<filters, childVars, main, readerVars, offered>>

\* The next entry is written to stdout, if anybody reads it.
Write ==
  /\ child = "running"
  /\ written < Len(journal)
  /\ reader # "panicked"
  /\ written' = written + 1
  /\ pipe' = Append(pipe, written + 1)
  /\ UNCHANGED <<filters, journal, child, spawns, main, readerVars, offered>>

\* journalctl ends; it does so when it writes and nobody reads.
Exit ==
  /\ child = "running"
  /\ child' = "exited"
  /\ UNCHANGED <<filters, journal, written, pipe, spawns, main, readerVars, offered>>

-----------------------------------------------------------------------------
(* run_thread and follow_journal.                                          *)

\* Mutant of LastLine: the journal is never empty.
BeforeLast == Len(journal) - 1

\* Mutant of LastLine: journalctl begins with all it has.
FromTheStart == 0

\* --lines=1: where journalctl begins, before the last entry.
LastLine == IF journal = <<>> THEN 0 ELSE Len(journal) - 1

\* journalctl and the readers are started.
Spawn ==
  /\ main = "spawn"
  /\ spawns < MaxSpawns
  /\ spawns' = spawns + 1
  /\ child' = "running"
  /\ written' = LastLine
  /\ pipe' = <<>>
  /\ reader' = "locking"
  /\ errReader' = "reading"
  /\ main' = "wait"
  /\ UNCHANGED <<filters, journal, subscriber, offered>>

SpawnFailure ==
  /\ main = "spawn"
  /\ spawns < MaxSpawns
  /\ spawns' = spawns + 1
  /\ main' = "report"
  /\ UNCHANGED <<filters, journal, child, written, pipe, readerVars, offered>>

\* child.wait()
Wait ==
  /\ main = "wait"
  /\ child = "exited"
  /\ main' = "join"
  /\ UNCHANGED <<filters, journal, childVars, readerVars, offered>>

\* Whatever the exit status, both readers are joined, one of them by a drop; the
\* result is an error.  Joining a reader that panicked panics.
Join ==
  /\ main = "join"
  /\ errReader = "ended"
  /\ \/ reader = "ended" /\ main' = "report"
     \/ reader = "panicked" /\ main' = "dead"
  /\ UNCHANGED <<filters, journal, childVars, readerVars, offered>>

Report ==
  /\ main = "report"
  /\ subscriber = "free"
  /\ offered' = Append(offered, Failure)
  /\ main' = "sleep"
  /\ UNCHANGED <<filters, journal, childVars, readerVars>>

\* The ten seconds are over.
Wake ==
  /\ main = "sleep"
  /\ main' = "spawn"
  /\ UNCHANGED <<filters, journal, childVars, readerVars, offered>>

-----------------------------------------------------------------------------
(* The readers.                                                            *)

LockSubscriber ==
  /\ reader = "locking"
  /\ subscriber = "free"
  /\ subscriber' = "held"
  /\ reader' = "reading"
  /\ UNCHANGED <<filters, journal, childVars, main, errReader, offered>>

\* The keys that name the source of an entry, the first that is a string wins.
Unknown == Json("Text", 99)

SourceOf(p) ==
  LET named(k) == k \in DOMAIN p /\ IsString(p[k])
  IN IF named("_SYSTEMD_UNIT") THEN p["_SYSTEMD_UNIT"]
     ELSE IF named("SYSLOG_IDENTIFIER") THEN p["SYSLOG_IDENTIFIER"]
     ELSE Unknown

\* The payload of an entry that passes the filters, if it does.
Passes(p) ==
  LET source == SourceOf(p)
      named == IF source = Unknown THEN p ELSE Insert(p, "SOURCE", source)
  IN Filtered(source, filters, named)

\* The next line is read and is no event, is offered, or makes get_severity panic.
Read ==
  LET k == Head(pipe)
      e == journal[k]
      offer(severity, attrs) == /\ offered' = Append(offered, Event(k, severity, attrs))
                                /\ UNCHANGED <<reader, subscriber>>
  IN
  /\ reader = "reading"
  /\ pipe # <<>>
  /\ pipe' = Tail(pipe)
  /\ \/ e = Garbage /\ offer(6, <<>>)
     \/ /\ e # Garbage
        /\ Passes(e) = {}
        /\ UNCHANGED <<reader, subscriber, offered>>
     \/ /\ e # Garbage
        /\ \E p \in Passes(e) :
             LET attrs == Without(p, {"MESSAGE"}) IN
             \/ ~SeverityPanics(attrs) /\ offer(GetSeverity(attrs), attrs)
             \/ /\ SeverityPanics(attrs)
                /\ reader' = "panicked"
                /\ subscriber' = "poisoned"
                /\ UNCHANGED offered
  /\ UNCHANGED <<filters, journal, child, written, spawns, main, errReader>>

\* Mutant of EndOfFile: the reader ends with journalctl, whatever it has left.
EndOfChild ==
  /\ reader = "reading"
  /\ child = "exited"
  /\ subscriber' = "free"
  /\ reader' = "ended"
  /\ UNCHANGED <<filters, journal, childVars, main, errReader, offered>>

\* Mutant of EndOfFile: the sender stays locked.
EndOfFileLocked ==
  /\ reader = "reading"
  /\ child = "exited"
  /\ pipe = <<>>
  /\ reader' = "ended"
  /\ UNCHANGED <<filters, journal, childVars, main, errReader, subscriber, offered>>

\* stdout is closed and read to its end.
EndOfFile ==
  /\ reader = "reading"
  /\ child = "exited"
  /\ pipe = <<>>
  /\ subscriber' = "free"
  /\ reader' = "ended"
  /\ UNCHANGED <<filters, journal, childVars, main, errReader, offered>>

EndOfStderr ==
  /\ errReader = "reading"
  /\ child = "exited"
  /\ errReader' = "ended"
  /\ UNCHANGED <<filters, journal, childVars, main, reader, subscriber, offered>>

-----------------------------------------------------------------------------
Follow == Spawn \/ SpawnFailure \/ Wait \/ Join \/ Report \/ Wake

ReadOut == LockSubscriber \/ Read \/ EndOfFile

Next ==
  \/ \E e \in Entries : Log(e)
  \/ Write
  \/ Exit
  \/ Follow
  \/ ReadOut
  \/ EndOfStderr

Spec == Init /\ [][Next]_vars

\* The operating system runs every thread.  journalctl need not end, nor write.
Fairness == WF_vars(Follow) /\ WF_vars(ReadOut) /\ WF_vars(EndOfStderr)

FairSpec == Spec /\ Fairness

-----------------------------------------------------------------------------
(* Properties.                                                             *)

\* Every variable has its type.
TypeOK ==
  /\ filters \in FilterLists
  /\ journal \in Seq(Entries)
  /\ child \in {"none", "running", "exited"}
  /\ written \in 0..Len(journal)
  /\ pipe \in Seq(1..Len(journal))
  /\ spawns \in 0..MaxSpawns
  /\ main \in {"spawn", "wait", "join", "report", "sleep", "dead"}
  /\ reader \in {"off", "locking", "reading", "ended", "panicked"}
  /\ errReader \in {"off", "reading", "ended"}
  /\ subscriber \in {"free", "held", "poisoned"}
  /\ \A i \in 1..Len(offered) :
       offered[i] # Failure =>
         /\ offered[i].entry \in 1..Len(journal)
         /\ offered[i].severity \in 0..7 \cup {NoOption}

Offers == 1..Len(offered)
Failed(i) == offered[i] = Failure

\* Events are offered in the order of the journal.  An entry is offered again
\* only by a later journalctl, after the end of the earlier has been reported.
InOrder ==
  \A i, j \in Offers : i < j /\ ~Failed(i) /\ ~Failed(j) =>
    \/ offered[i].entry < offered[j].entry
    \/ offered[i].entry = offered[j].entry /\ \E k \in i..j : Failed(k)

\* When the end of journalctl is reported, every line it wrote has been read.
ReadToTheEnd == main \in {"report", "sleep"} => pipe = <<>> /\ reader \in {"off", "ended"}

\* The attributes that start with an underscore never leave, wherever they are from.
NothingHidden == \A i \in Offers : ~Failed(i) => Hidden \cap DOMAIN offered[i].attrs = {}

\* An event is at least as severe as some filter asks for, by the PRIORITY that
\* its entry had in the journal.
SevereEnough ==
  \A i \in Offers :
    LET e == journal[offered[i].entry] IN
    /\ ~Failed(i)
    /\ e # Garbage
    /\ filters # <<>>
    /\ "PRIORITY" \in DOMAIN e
    /\ e["PRIORITY"].type = "Numeral"
    /\ e["PRIORITY"].n \in 0..7
    => \E k \in 1..Len(filters) : filters[k].level = NoOption \/ e["PRIORITY"].n <= filters[k].level

\* When journalctl has ended it is started again, unless its reader panicked.
FollowedAgain == child = "exited" /\ main = "wait" ~> main = "spawn" \/ reader = "panicked"

=============================================================================
