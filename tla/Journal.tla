------------------------------ MODULE Journal ------------------------------
(***************************************************************************)
(* The event journal (sqlite_journal_store.py) with its snapshots and the   *)
(* replay of a start (startup_replay.py), as startup_reconciliation.py uses *)
(* them: one process appends events and, at its start, rebuilds the state   *)
(* and commits a reconciliation event together with the snapshot that       *)
(* contains it.  Another process may rebuild at any time.                   *)
(*                                                                          *)
(* The state the reducer builds is the sequence of the events applied.      *)
(* Sequence numbers are shared by all cycles, so those of the cycle looked  *)
(* at have holes.                                                           *)
(***************************************************************************)
EXTENDS Integers, Sequences, FiniteSetsExt

CONSTANTS EventIds, MaxRebuilds   \* bound: rebuilds begun

VARIABLES
  journal,     \* event_journal: sequence number -> [id, ours]
  snapshots,   \* cycle_snapshots of the cycle: [last, state]
  replay,      \* process -> its rebuild
  rebuilds     \* what is left of the bound

journalVars == <<journal, snapshots, replay, rebuilds>>

Processes == {"runner", "reader"}
NoReplay == [stage |-> "idle", last |-> 0, state |-> <<>>, from |-> 0]

JournalInit ==
  /\ journal = <<>> /\ snapshots = {}
  /\ replay = [p \in Processes |-> NoReplay]
  /\ rebuilds = MaxRebuilds

Used(id) == \E i \in 1..Len(journal) : journal[i].id = id

\* load_events_after: the numbers of the cycle's events after n
EventsAfter(n) == {i \in (n + 1)..Len(journal) : journal[i].ours}

\* The loop of rebuild: the events of a log with these numbers, applied to a state
\* in order.
ApplyEvents(log, state, numbers) ==
  LET after[i \in 0..Len(log)] ==
        IF i = 0 THEN state
        ELSE IF i \in numbers THEN Append(after[i - 1], log[i].id) ELSE after[i - 1]
  IN  after[Len(log)]

\* append_event: an event of this or of another cycle; a used ID is refused.
AppendEvent ==
  /\ replay["runner"] = NoReplay
  /\ \E id \in EventIds, ours \in BOOLEAN :
       ~Used(id) /\ journal' = Append(journal, [id |-> id, ours |-> ours])
  /\ UNCHANGED <<snapshots, replay, rebuilds>>

\* load_latest_snapshot
LoadLatestSnapshot(p) ==
  /\ replay[p] = NoReplay /\ rebuilds > 0
  /\ rebuilds' = rebuilds - 1
  /\ LET start == IF snapshots = {} THEN [last |-> 0, state |-> <<>>]
                  ELSE CHOOSE s \in snapshots : \A t \in snapshots : t.last <= s.last
     IN  replay' = [replay EXCEPT ![p] = [stage |-> "loaded", last |-> start.last,
                                          state |-> start.state, from |-> Len(journal)]]
  /\ UNCHANGED <<journal, snapshots>>

\* rebuild, after its second read: the later events are applied in order
ApplyLaterEvents(p) ==
  /\ replay[p].stage = "loaded"
  /\ LET r     == replay[p]
         later == EventsAfter(r.last)
     IN  replay' = [replay EXCEPT ![p] =
                      [stage |-> "rebuilt", last |-> Max(later \cup {r.last}),
                       state |-> ApplyEvents(journal, r.state, later), from |-> r.from]]
  /\ UNCHANGED <<journal, snapshots, rebuilds>>

StoredUnchanged(r) == r.last
\* The number stored with a snapshot is that of the event inserted with it.
StoredSequence(r) == Len(journal) + 1

\* append_event_and_snapshot, as reconcile calls it: the event and the state it
\* leads to are committed together, or neither is when the ID is taken.
AppendEventAndSnapshot ==
  /\ replay["runner"].stage = "rebuilt"
  /\ \E id \in EventIds :
       IF Used(id) THEN UNCHANGED <<journal, snapshots>>
       ELSE /\ journal' = Append(journal, [id |-> id, ours |-> TRUE])
            /\ snapshots' = snapshots \cup
                 {[last |-> StoredSequence(replay["runner"]),
                   state |-> Append(replay["runner"].state, id)]}
  /\ replay' = [replay EXCEPT !["runner"] = NoReplay]
  /\ UNCHANGED rebuilds

\* The reader is done with its result, or a process dies before it commits.
Leave(p) ==
  /\ replay[p] # NoReplay
  /\ replay' = [replay EXCEPT ![p] = NoReplay]
  /\ UNCHANGED <<journal, snapshots, rebuilds>>

JournalNext ==
  \/ AppendEvent \/ AppendEventAndSnapshot
  \/ \E p \in Processes : LoadLatestSnapshot(p) \/ ApplyLaterEvents(p) \/ Leave(p)

JournalSpec == JournalInit /\ [][JournalNext]_journalVars

\* What a start rebuilds is the state after every event up to the number it reports,
\* each applied once and in order, and no event committed before the rebuild began is
\* missing, also when events and snapshots are committed between its two reads
\* (StartupReplayService.rebuild, _append_event_and_snapshot).
ReplayIsExact ==
  \A p \in Processes :
    replay[p].stage = "rebuilt" =>
      LET upTo == {i \in EventsAfter(0) : i <= replay[p].last}
      IN  /\ replay[p].state = ApplyEvents(journal, <<>>, upTo)
          /\ \A i \in 1..replay[p].from : journal[i].ours => i <= replay[p].last
============================================================================
