----------------------------- MODULE RunStream -----------------------------
(***************************************************************************)
(* The event stream of one run: the bounded in-process bridge              *)
(* (harness/streaming/bridge.py), the journal every event is persisted to  *)
(* (harness/observability/run_journal_bridge.py), the run's producer and   *)
(* a cancel request that publish to them, and the clients that read,       *)
(* reconnect and remember what they saw (frontend-sdk/src/client.ts).      *)
(*                                                                         *)
(* The id of an event is its number in the order of publishing.  A stream  *)
(* of the bridge retains the ids lo..hi; a client keeps hold of the stream *)
(* it subscribed to when the bridge drops it or opens another.  The bridge *)
(* and the journal are one event loop's: an action is what happens between *)
(* two awaits.                                                             *)
(***************************************************************************)
EXTENDS Integers, Sequences, SequencesExt

CONSTANTS
  Readers,      \* clients
  Deltas,       \* how many events come before the outcome
  Maxsize,      \* queue_maxsize of the bridge
  Budget,       \* MAX_STREAM_RECONNECT_ATTEMPTS
  MaxCuts,      \* bound: connections of a reader that the network cuts
  Cancellable,  \* may the run be cancelled?
  Crashes       \* may the process die once, and be started again?

ASSUME StreamAssumption ==
  /\ Deltas \in Nat \ {0} /\ Maxsize \in Nat \ {0}
  /\ Budget \in Nat /\ MaxCuts \in Nat
  /\ {Cancellable, Crashes} \subseteq BOOLEAN

VARIABLES
  kinds,     \* the kind of every event published, by id
  streams,   \* the bridge's streams, oldest first
  current,   \* the one the bridge has for the run, or 0
  timer,     \* the one whose cleanup is scheduled, or 0
  hasty,     \* history: a cleanup did not outlast what was under way
  journal,   \* the ids in the journal, in its order
  terminal,  \* the journal's run record has a final status
  stray,     \* appends whose publisher was cancelled while they ran
  producer,  \* [pc, pending, cancelled]: the run's producer
  notice,    \* [pc, id]: the request that cancels the run and publishes run.interrupt
  crashed,   \* the process has died
  reader     \* [Readers -> ReaderState]

bridgeVars == <<kinds, streams, current, timer, hasty>>
journalVars == <<journal, terminal, stray>>
publisherVars == <<producer, notice, crashed>>
vars == <<bridgeVars, journalVars, publisherVars, reader>>

Kinds == {"delta", "notice", "outcome", "closed"}
Terminals == {"outcome", "closed"}
Published == Len(kinds)

Off == [pc |-> "off", last |-> 0, seen |-> {}, done |-> 0, behind |-> FALSE, tries |-> 0, cuts |-> 0,
        todo |-> <<>>, closes |-> FALSE, yielded |-> {}, from |-> 0, ended |-> "no", stream |-> 0]

Init ==
  /\ kinds = <<>> /\ streams = <<>> /\ current = 0 /\ timer = 0 /\ hasty = FALSE
  /\ journal = <<>> /\ terminal = FALSE /\ stray = {}
  /\ producer = [pc |-> "running", pending |-> 0, cancelled |-> FALSE]
  /\ notice = [pc |-> "none", id |-> 0]
  /\ crashed = FALSE
  /\ reader = [r \in Readers |-> Off]

-----------------------------------------------------------------------------
(* The bridge. *)

\* _get_or_create_stream_locked
Index == IF current = 0 THEN Len(streams) + 1 ELSE current
Opened ==
  IF current = 0 THEN Append(streams, [lo |-> Published + 1, hi |-> Published, ended |-> FALSE])
  ELSE streams

\* _trim
Trimmed(lo, hi) == IF hi - lo + 1 > Maxsize THEN hi - Maxsize + 1 ELSE lo

With(s, id, kind) ==
  [lo |-> Trimmed(s.lo, id), hi |-> id, ended |-> s.ended \/ kind = "closed"]

\* publish: the event goes to the bridge; the journal's turn is next.
Bridged(kind) ==
  /\ kinds' = Append(kinds, kind)
  /\ streams' = [Opened EXCEPT ![Index] = With(@, Published + 1, kind)]
  /\ current' = Index
  /\ timer' = IF kind = "closed" /\ timer = 0 THEN Index ELSE timer
  /\ UNCHANGED hasty

\* Variant: the id is not looked up.
ResumeAt_Live(s, id) == s.hi + 1

\* _resolve_start_offset
ResumeAt(s, id) == IF id \in s.lo .. s.hi THEN id + 1 ELSE s.lo

\* What cleanup_delay_seconds is meant to outlast.
UnderWay ==
  \/ producer.pc # "ended" \/ notice.pc \notin {"none", "done"}
  \/ \E r \in Readers : reader[r].pc = "checking"

\* The grace window of an ended stream is over, however short it was.
Cleanup ==
  /\ timer # 0
  /\ timer' = 0 /\ hasty' = (hasty \/ UnderWay)
  /\ current' = IF current = timer THEN 0 ELSE current
  /\ UNCHANGED <<kinds, streams, journalVars, publisherVars, reader>>

-----------------------------------------------------------------------------
(* Publishing: JournaledStreamBridge.publish by the producer and by the request *)
(* that cancels the run.  pending is the event the journal has yet to take.     *)

Quiet == producer.pending = 0 /\ ~producer.cancelled
Publish(kind, pc) ==
  /\ Bridged(kind)
  /\ producer' = [producer EXCEPT !.pc = pc, !.pending = Published + 1]
  /\ UNCHANGED <<journalVars, notice, crashed, reader>>

EmitDelta ==
  /\ producer.pc = "running" /\ Quiet /\ Published < Deltas
  /\ Publish("delta", "running")

\* set_status persists the run's final status before the outcome is published.
Settle ==
  /\ producer.pc = "running" /\ Quiet /\ Published > 0
  /\ terminal' = TRUE
  /\ producer' = [producer EXCEPT !.pc = "settled"]
  /\ UNCHANGED <<bridgeVars, journal, stray, notice, crashed, reader>>

EmitOutcome == producer.pc = "settled" /\ Quiet /\ Publish("outcome", "reported")

\* _close_run_stream
EmitClosed == producer.pc = "reported" /\ Quiet /\ Publish("closed", "closing")

\* publish_end opens a stream when the bridge has none.
End ==
  /\ producer.pc = "closing" /\ Quiet
  /\ streams' = [Opened EXCEPT ![Index].ended = TRUE]
  /\ current' = Index
  /\ timer' = IF timer = 0 THEN Index ELSE timer
  /\ producer' = [producer EXCEPT !.pc = "ended"]
  /\ UNCHANGED <<kinds, hasty, journalVars, notice, crashed, reader>>

\* The journal has the event; the producer goes on.
Journaled ==
  /\ producer.pending # 0
  /\ journal' = Append(journal, producer.pending)
  /\ producer' = [producer EXCEPT !.pending = 0]
  /\ UNCHANGED <<bridgeVars, terminal, stray, notice, crashed, reader>>

\* RunManager.cancel: the run is interrupted and its task cancelled ...
Cancel ==
  /\ Cancellable /\ notice.pc = "none" /\ producer.pc = "running"
  /\ notice' = [notice EXCEPT !.pc = "persisting"]
  /\ producer' = [producer EXCEPT !.cancelled = TRUE]
  /\ UNCHANGED <<bridgeVars, journalVars, crashed, reader>>

\* ... the status persisted ...
Persist ==
  /\ notice.pc = "persisting"
  /\ terminal' = TRUE
  /\ notice' = [notice EXCEPT !.pc = "publishing"]
  /\ UNCHANGED <<bridgeVars, journal, stray, producer, crashed, reader>>

\* ... and run.interrupt published.
EmitNotice ==
  /\ notice.pc = "publishing"
  /\ Bridged("notice")
  /\ notice' = [pc |-> "journaling", id |-> Published + 1]
  /\ UNCHANGED <<journalVars, producer, crashed, reader>>

NoticeJournaled ==
  /\ notice.pc = "journaling"
  /\ journal' = Append(journal, notice.id)
  /\ notice' = [notice EXCEPT !.pc = "done"]
  /\ UNCHANGED <<bridgeVars, terminal, stray, producer, crashed, reader>>

\* The cancellation reaches the producer; an append it waits for is left to itself.
Interrupted ==
  /\ producer.cancelled
  /\ terminal' = TRUE
  /\ stray' = stray \union ({producer.pending} \ {0})
  /\ producer' = [pc |-> "reported", pending |-> 0, cancelled |-> FALSE]
  /\ UNCHANGED <<bridgeVars, journal, notice, crashed, reader>>

\* An executor that had begun an append completes it.
StrayLands(id) ==
  /\ id \in stray
  /\ stray' = stray \ {id}
  /\ journal' = Append(journal, id)
  /\ UNCHANGED <<bridgeVars, terminal, publisherVars, reader>>

-----------------------------------------------------------------------------
(* A client and the subscription it has open. *)

SetReader(r, s) == reader' = [reader EXCEPT ![r] = s]
Connected(r) == reader[r].pc \in {"replaying", "checking", "live"}

\* A client drops what it has seen on any of its connections.
Got(s, id) ==
  IF id \in s.seen THEN s
  ELSE [s EXCEPT !.seen = @ \union {id}, !.last = id,
                 !.done = IF @ = 0 /\ kinds[id] \in Terminals THEN id ELSE @]

\* The connection ends: a client that had no terminal event resumes the run.
Eof(s) ==
  [s EXCEPT !.pc = IF s.done # 0 THEN "complete"
                   ELSE IF s.tries < Budget THEN "off" ELSE "incomplete",
            !.tries = IF s.tries < Budget THEN @ + 1 ELSE @]

\* _journal_replay_start: behind the client's last event, or from the start.
ReplayFrom(last) ==
  IF \E i \in DOMAIN journal : journal[i] = last
  THEN 1 + CHOOSE i \in DOMAIN journal : journal[i] = last
  ELSE 1

Connect(r) ==
  /\ reader[r].pc = "off" /\ Published > 0
  /\ SetReader(r, [reader[r] EXCEPT
       !.pc = "replaying", !.yielded = {}, !.from = reader[r].last,
       !.todo = SubSeq(journal, ReplayFrom(reader[r].last), Len(journal)),
       !.closes = journal # <<>> /\ kinds[Last(journal)] = "closed"])
  /\ UNCHANGED <<bridgeVars, journalVars, publisherVars>>

Replay(r) ==
  LET s == reader[r] IN
  /\ s.pc = "replaying" /\ s.todo # <<>>
  /\ SetReader(r, Got([s EXCEPT !.todo = Tail(@), !.from = Head(s.todo),
                                !.yielded = @ \union {Head(s.todo)}], Head(s.todo)))
  /\ UNCHANGED <<bridgeVars, journalVars, publisherVars>>

\* The history is replayed: it had run.closed, or the bridge is asked.
Replayed(r) ==
  LET s == reader[r] IN
  /\ s.pc = "replaying" /\ s.todo = <<>>
  /\ SetReader(r, IF s.closes THEN Eof(s)
                  ELSE [s EXCEPT !.pc = "checking",
                                 !.ended = IF current = 0 THEN "none"
                                           ELSE IF streams[current].ended THEN "yes" ELSE "no"])
  /\ UNCHANGED <<bridgeVars, journalVars, publisherVars>>

\* Variant: the bridge is not asked.
Over_Terminal(s) == terminal

\* Variant: only a stream that has ended is over, not one the bridge has dropped.
Over_Kept(s) == terminal /\ s.ended = "yes"

\* The run is over, and the bridge had nothing more to come.
Over(s) == terminal /\ s.ended # "no"

EndReplay(r) ==
  /\ reader[r].pc = "checking" /\ Over(reader[r])
  /\ SetReader(r, Eof(reader[r]))
  /\ UNCHANGED <<bridgeVars, journalVars, publisherVars>>

\* InMemoryStreamBridge.subscribe up to its loop.
Attach(r) ==
  LET s == reader[r]
      at == ResumeAt(Opened[Index], s.from) IN
  /\ s.pc = "checking" /\ ~Over(s)
  /\ streams' = Opened /\ current' = Index
  /\ SetReader(r, [s EXCEPT !.pc = "live", !.stream = Index, !.from = at,
                            !.behind = @ \/ Opened[Index].lo > s.from + 1])
  /\ UNCHANGED <<kinds, timer, hasty, journalVars, publisherVars>>

\* The next retained event; those the stream has dropped in between are lost.
Follow(r) ==
  LET s == reader[r]
      b == streams[s.stream]
      id == IF s.from < b.lo THEN b.lo ELSE s.from
      moved == [s EXCEPT !.from = id + 1, !.behind = @ \/ s.from < b.lo,
                         !.yielded = @ \union {id}] IN
  /\ s.pc = "live" /\ id <= b.hi
  /\ SetReader(r, IF id \in s.yielded THEN moved ELSE Got(moved, id))
  /\ UNCHANGED <<bridgeVars, journalVars, publisherVars>>

StreamEnds(r) ==
  LET s == reader[r]  b == streams[s.stream] IN
  /\ s.pc = "live" /\ s.from > b.hi /\ b.ended
  /\ SetReader(r, Eof(s))
  /\ UNCHANGED <<bridgeVars, journalVars, publisherVars>>

\* A client may stop at the first terminal event, as the SDK does.
Stop(r) ==
  /\ Connected(r) /\ reader[r].done # 0
  /\ SetReader(r, [reader[r] EXCEPT !.pc = "complete"])
  /\ UNCHANGED <<bridgeVars, journalVars, publisherVars>>

Cut(r) ==
  /\ Connected(r) /\ reader[r].cuts < MaxCuts
  /\ SetReader(r, Eof([reader[r] EXCEPT !.cuts = @ + 1]))
  /\ UNCHANGED <<bridgeVars, journalVars, publisherVars>>

-----------------------------------------------------------------------------
\* The process dies and is started again: the journal is all there is.
Crash ==
  /\ Crashes /\ ~crashed /\ producer.pc # "ended"
  /\ crashed' = TRUE
  /\ current' = 0 /\ timer' = 0
  /\ stray' = {}
  /\ producer' = [pc |-> "dead", pending |-> 0, cancelled |-> FALSE]
  /\ notice' = [notice EXCEPT !.pc = IF @ = "none" THEN @ ELSE "done"]
  /\ reader' = [r \in Readers |-> IF Connected(r) THEN Eof(reader[r]) ELSE reader[r]]
  /\ UNCHANGED <<kinds, streams, hasty, journal, terminal>>

ProducerStep ==
  EmitDelta \/ Settle \/ EmitOutcome \/ EmitClosed \/ End \/ Journaled \/ Interrupted
RequestStep == Persist \/ EmitNotice \/ NoticeJournaled
ReaderStep(r) ==
  Connect(r) \/ Replay(r) \/ Replayed(r) \/ EndReplay(r) \/ Attach(r) \/ Follow(r) \/ StreamEnds(r)

Next ==
  \/ ProducerStep \/ Cancel \/ RequestStep \/ \E id \in stray : StrayLands(id)
  \/ Cleanup \/ Crash
  \/ \E r \in Readers : ReaderStep(r) \/ Stop(r) \/ Cut(r)

Spec == Init /\ [][Next]_vars

\* The event loop runs what is ready and the journal answers.
Fairness ==
  /\ WF_vars(ProducerStep) /\ WF_vars(RequestStep)
  /\ \A r \in Readers : WF_vars(ReaderStep(r))
FairSpec == Spec /\ Fairness

-----------------------------------------------------------------------------
(* Properties. *)

MaxId == Deltas + 3
Ids == 1..MaxId
ReaderState ==
  [pc : {"off", "replaying", "checking", "live", "complete", "incomplete"},
   last : 0..MaxId, seen : SUBSET Ids, done : 0..MaxId, behind : BOOLEAN,
   tries : 0..Budget, cuts : 0..MaxCuts, todo : Seq(Ids), closes : BOOLEAN,
   yielded : SUBSET Ids, from : 0..(MaxId + 1), ended : {"no", "yes", "none"},
   stream : 0..Len(streams)]

TypeOK ==
  /\ kinds \in Seq(Kinds) /\ Published <= MaxId
  /\ \A i \in DOMAIN streams : /\ streams[i].lo \in 1..(MaxId + 1) /\ streams[i].hi \in 0..MaxId
                               /\ streams[i].hi - streams[i].lo < Maxsize
                               /\ streams[i].ended \in BOOLEAN
  /\ current \in 0..Len(streams) /\ timer \in 0..Len(streams)
  /\ journal \in Seq(Ids) /\ stray \subseteq Ids /\ IsInjective(journal)
  /\ {terminal, hasty, crashed} \subseteq BOOLEAN
  /\ producer \in [pc : {"running", "settled", "reported", "closing", "ended", "dead"},
                   pending : 0..MaxId, cancelled : BOOLEAN]
  /\ notice \in [pc : {"none", "persisting", "publishing", "journaling", "done"}, id : 0..MaxId]
  /\ reader \in [Readers -> ReaderState]

\* A client that has a terminal event has every event before it, however it was
\* cut off, reconnected and moved between the journal's replay and the bridge,
\* unless it fell behind the retained buffer.  A run that is cancelled is left
\* out: it has two publishers, and the journal takes their events in any order.
CompleteMeansAll ==
  notice.pc = "none" => \A r \in Readers :
    reader[r].done # 0 /\ ~reader[r].behind => 1 .. reader[r].done \subseteq reader[r].seen

\* A client takes events in the order they were published, across connections,
\* under the same two conditions.
TakenInOrder ==
  notice'.pc = "none" => \A r \in Readers :
    reader'[r].behind \/ \A new \in reader'[r].seen \ reader[r].seen, old \in reader[r].seen : new > old
InOrder == [][TakenInOrder]_vars

\* Unless the process died or the run was cancelled, a client gives up only
\* because the network cut it off: the server ends at most one of its
\* connections before it had a terminal event.
IncompleteNeedsCuts ==
  \A r \in Readers :
    reader[r].pc = "incomplete" => reader[r].cuts >= Budget \/ crashed \/ notice.pc # "none"

\* Whoever reads a stream of the bridge, whether the run is cancelled or not, reads
\* one that has ended, or the one the producer will end (publish_end, subscribe).
SubscribersServed ==
  \A r \in Readers : reader[r].pc = "live" =>
    \/ streams[reader[r].stream].ended
    \/ (reader[r].stream = current /\ producer.pc # "ended")
    \/ crashed \/ hasty

\* Every client that connects gets to an end, complete or not, unless the
\* process died or a stream was cleaned up under it: nobody waits on a stream
\* of the bridge that nobody will end.
ReadersEnd ==
  \A r \in Readers :
    reader[r].pc = "replaying" ~> reader[r].pc \in {"complete", "incomplete"} \/ crashed \/ hasty
=============================================================================
