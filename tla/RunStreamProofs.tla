--------------------------- MODULE RunStreamProofs ---------------------------
(****************************************************************************)
(* Proofs about RunStream for any clients, any number of events, any size   *)
(* of the buffer and any cuts: what a client has of a run that is not       *)
(* cancelled, whether its process dies or not.  A client that never fell    *)
(* behind the buffer has the events 1..last, and whatever comes next, from  *)
(* the journal or from a stream, is at most last + 1.  Then why a client    *)
(* gives up: the server lets each down at most once.  And why none waits in *)
(* vain: a stream of the bridge has ended, or its producer will end it.     *)
(* Last, the sizes of the buffer, the journal and of what clients know.     *)
(****************************************************************************)
EXTENDS RunStream, SequenceTheorems, TLAPS

Positive == Nat \ {0}
Stream == [lo : Positive, hi : Nat, ended : BOOLEAN]
Client ==
    [pc : {"off", "replaying", "checking", "live", "complete", "incomplete"},
     last : Nat, seen : SUBSET Nat, done : Nat, behind : BOOLEAN, tries : Nat, cuts : Nat,
     todo : Seq(Positive), closes : BOOLEAN, yielded : SUBSET Nat, from : Nat,
     ended : {"no", "yes", "none"}, stream : Nat]

Producer ==
    [pc : {"running", "settled", "reported", "closing", "ended", "dead"},
     pending : Nat, cancelled : BOOLEAN]

(* The journal has the events in their order; the one it lacks is on its    *)
(* way, or was when the process died.                                       *)
JournalOK ==
    /\ kinds \in Seq(Kinds) /\ journal \in Seq(Positive)
    /\ \A i \in 1..Len(journal) : journal[i] = i
    /\ producer \in Producer
    /\ ~producer.cancelled /\ stray = {}
    /\ producer.pending # 0 => producer.pending = Published /\ Published = Len(journal) + 1
    /\ producer.pending = 0 /\ producer.pc # "dead" => Published = Len(journal)

StreamsOK ==
    /\ streams \in Seq(Stream)
    /\ current \in 0..Len(streams)

(* What a client is about to replay: consecutive events, none beyond the    *)
(* one it needs.                                                            *)
TodoOK(s) ==
    /\ \A i \in 1..Len(s.todo) : s.todo[i] = s.todo[1] + i - 1
    /\ s.todo # <<>> => s.todo[1] <= s.last + 1

Gapless(s) ==
    /\ s.seen = 1..s.last /\ s.done <= s.last
    /\ s.yielded \subseteq s.seen
    /\ s.pc = "replaying" => TodoOK(s) /\ s.from <= s.last
    /\ s.pc = "checking" => s.from <= s.last
    /\ s.pc = "live" => s.from \in 1..(s.last + 1)

ReaderOK(r) ==
    /\ reader[r] \in Client
    /\ reader[r].pc = "live" => reader[r].stream \in 1..Len(streams)
    /\ ~reader[r].behind => Gapless(reader[r])

IInv ==
    /\ kinds \in Seq(Kinds)
    /\ notice \in [pc : {"none", "persisting", "publishing", "journaling", "done"}, id : Nat]
    /\ notice.pc = "none" =>
        /\ JournalOK
        /\ StreamsOK
        /\ reader \in [Readers -> Client]
        /\ \A r \in Readers : ReaderOK(r)

(* What a step may do to what a client has.                                 *)
Advances(r) ==
    /\ reader[r].behind => reader'[r].behind
    /\ ~reader'[r].behind =>
           \/ reader'[r].seen = reader[r].seen
           \/ reader'[r].seen = reader[r].seen \union {reader[r].last + 1}
----------------------------------------------------------------------------
(* Receiving an event, and the end of a connection.                         *)

LEMMA GotOK ==
    ASSUME NEW s \in Client, NEW id \in Positive
    PROVE  LET g == Got(s, id) IN
           /\ g \in Client
           /\ g.pc = s.pc /\ g.behind = s.behind /\ g.todo = s.todo
           /\ g.yielded = s.yielded /\ g.from = s.from /\ g.stream = s.stream
           /\ id \in s.seen => g.last = s.last /\ g.seen = s.seen /\ g.done = s.done
           /\ id \notin s.seen =>
                  g.last = id /\ g.seen = s.seen \union {id} /\ g.done \in {s.done, id}
  <1> DEFINE d == IF s.done = 0 /\ kinds[id] \in Terminals THEN id ELSE s.done
  <1>1. CASE id \in s.seen
    BY <1>1 DEF Got
  <1>2. CASE id \notin s.seen
    <2>1. Got(s, id) = [s EXCEPT !.seen = s.seen \union {id}, !.last = id, !.done = d]
      BY <1>2 DEF Got, Client
    <2>2. d \in {s.done, id}
      OBVIOUS
    <2>3. s.seen \union {id} \in SUBSET Nat /\ id \in Nat /\ d \in Nat
      BY DEF Client, Positive
    <2> DEFINE n == s.seen \union {id}
    <2> HIDE DEF d, n
    <2>4. [s EXCEPT !.seen = n, !.last = id, !.done = d] \in Client
      BY <2>3 DEF Client, n
    <2>5. /\ Got(s, id).last = id /\ Got(s, id).seen = n /\ Got(s, id).done = d
          /\ Got(s, id).pc = s.pc /\ Got(s, id).todo = s.todo /\ Got(s, id).yielded = s.yielded
          /\ Got(s, id).from = s.from /\ Got(s, id).stream = s.stream
      BY <2>1 DEF Client, n
    <2>6. Got(s, id).behind = s.behind
      BY <2>1 DEF Client, n
    <2> QED  BY <1>2, <2>1, <2>2, <2>4, <2>5, <2>6 DEF n
  <1> QED  BY <1>1, <1>2

LEMMA EofOK ==
    ASSUME NEW s \in Client
    PROVE  LET e == Eof(s) IN
           /\ e \in Client /\ e.pc \in {"complete", "off", "incomplete"}
           /\ e.behind = s.behind /\ e.last = s.last /\ e.seen = s.seen /\ e.done = s.done
           /\ e.yielded = s.yielded
  <1> DEFINE p == IF s.done # 0 THEN "complete"
                  ELSE IF s.tries < Budget THEN "off" ELSE "incomplete"
             n == IF s.tries < Budget THEN s.tries + 1 ELSE s.tries
  <1>1. p \in {"complete", "off", "incomplete"} /\ n \in Nat
    BY DEF Client
  <1>2. Eof(s) = [s EXCEPT !.pc = p, !.tries = n]
    BY DEF Eof, Client
  <1> HIDE DEF p, n
  <1>3. Eof(s) \in Client
    BY <1>1, <1>2 DEF Client
  <1>4. Eof(s).pc = p /\ Eof(s).last = s.last /\ Eof(s).seen = s.seen /\ Eof(s).done = s.done
        /\ Eof(s).yielded = s.yielded
    BY <1>2 DEF Client
  <1>5. Eof(s).behind = s.behind
    BY <1>2 DEF Client
  <1> QED  BY <1>1, <1>3, <1>4, <1>5

(* A client that has got an event it may get next has no gap.               *)
LEMMA NoGap ==
    ASSUME NEW s \in Client, NEW id \in Positive,
           s.seen = 1..s.last, s.done <= s.last, id <= s.last + 1
    PROVE  LET g == Got(s, id) IN
           /\ g.seen = 1..g.last /\ g.done <= g.last
           /\ id <= g.last /\ s.last <= g.last
           /\ g.seen = s.seen \/ g.seen = s.seen \union {s.last + 1}
           /\ id \in g.seen /\ s.seen \subseteq g.seen
  <1> DEFINE g == Got(s, id)
  <1>1. s.last \in Nat /\ s.done \in Nat
    BY DEF Client
  <1>2. CASE id \in s.seen
    BY <1>1, <1>2, GotOK
  <1>3. CASE id \notin s.seen
    <2>1. id = s.last + 1
      BY <1>1, <1>3 DEF Positive
    <2>2. g.last = id /\ g.seen = s.seen \union {id} /\ g.done \in {s.done, id}
      BY <1>3, GotOK
    <2>3. g.seen = 1..g.last
      <3> HIDE DEF g
      <3> QED  BY <1>1, <2>1, <2>2
    <2> QED  BY <1>1, <2>1, <2>2, <2>3
  <1> QED  BY <1>2, <1>3

(* Only one client moves, and no stream is dropped.                         *)
LEMMA OneMoves ==
    ASSUME IInv, notice.pc = "none", NEW r \in Readers, NEW s,
           SetReader(r, s), s \in Client,
           Len(streams) <= Len(streams'), streams' \in Seq(Stream),
           s.pc = "live" => s.stream \in 1..Len(streams'),
           ~s.behind => Gapless(s),
           reader[r].behind => s.behind,
           ~s.behind => \/ s.seen = reader[r].seen
                        \/ s.seen = reader[r].seen \union {reader[r].last + 1}
    PROVE  reader' \in [Readers -> Client] /\ \A q \in Readers : ReaderOK(q)' /\ Advances(q)
  <1>1. reader \in [Readers -> Client] /\ streams \in Seq(Stream)
    BY DEF IInv, StreamsOK
  <1>2. reader' \in [Readers -> Client] /\ reader'[r] = s
        /\ \A q \in Readers \ {r} : reader'[q] = reader[q]
    BY <1>1 DEF SetReader
  <1>3. Len(streams) \in Nat /\ Len(streams') \in Nat
    BY <1>1
  <1>4. ASSUME NEW q \in Readers PROVE ReaderOK(q)' /\ Advances(q)
    <2>1. CASE q = r
      BY <1>2, <2>1 DEF ReaderOK, Advances, Gapless, TodoOK
    <2>2. CASE q # r
      <3>1. ReaderOK(q) /\ reader'[q] = reader[q]
        BY <1>2, <2>2 DEF IInv
      <3>2. \A n \in 1..Len(streams) : n \in 1..Len(streams')
        BY <1>3
      <3> QED  BY <3>1, <3>2 DEF ReaderOK, Advances, Gapless, TodoOK
    <2> QED  BY <2>1, <2>2
  <1> QED  BY <1>2, <1>4


LEMMA OpenedOK ==
    ASSUME JournalOK, StreamsOK
    PROVE  /\ Opened \in Seq(Stream)
           /\ Index \in 1..Len(Opened) /\ Len(streams) <= Len(Opened) /\ Len(streams) \in Nat
           /\ Opened[Index] \in Stream
  <1> DEFINE new == [lo |-> Published + 1, hi |-> Published, ended |-> FALSE]
  <1>1. Published \in Nat
    BY DEF JournalOK, Published
  <1>2. new \in Stream
    BY <1>1 DEF Stream, Positive
  <1>3. streams \in Seq(Stream) /\ current \in 0..Len(streams) /\ Len(streams) \in Nat
    BY DEF StreamsOK
  <1>4. Opened = IF current = 0 THEN Append(streams, new) ELSE streams
    BY DEF Opened
  <1> HIDE DEF new
  <1>5. CASE current = 0
    <2>1. Opened = Append(streams, new) /\ Index = Len(streams) + 1
      BY <1>4, <1>5 DEF Index
    <2>2. Opened \in Seq(Stream) /\ Len(Opened) = Len(streams) + 1 /\ Opened[Len(streams) + 1] = new
      BY <1>2, <1>3, <2>1, AppendProperties
    <2> QED  BY <1>2, <1>3, <2>1, <2>2
  <1>6. CASE current # 0
    <2>1. Opened = streams /\ Index = current
      BY <1>4, <1>6 DEF Index
    <2> QED  BY <1>3, <1>6, <2>1
  <1> QED  BY <1>5, <1>6

----------------------------------------------------------------------------
(* The steps of a client.                                                   *)

(* The rest of the journal, from behind the last event or from its start.   *)
LEMMA RestOfJournal ==
    ASSUME JournalOK, NEW last \in Nat
    PROVE  LET T == SubSeq(journal, ReplayFrom(last), Len(journal)) IN
           /\ T \in Seq(Positive)
           /\ \A i \in 1..Len(T) : T[i] = T[1] + i - 1
           /\ T # <<>> => T[1] <= last + 1
           /\ \A i \in 1..Len(T) : T[i] \in 1..Len(journal)
           /\ \A j \in (last + 1)..Len(journal) : \E i \in 1..Len(T) : T[i] = j
  <1> DEFINE m == ReplayFrom(last)
             n == Len(journal)
             T == SubSeq(journal, m, n)
  <1>1. /\ journal \in Seq(Positive) /\ n \in Nat /\ DOMAIN journal = 1..n
        /\ \A i \in 1..n : journal[i] = i
    BY DEF JournalOK
  <1>2. m \in 1..(last + 1) /\ m \in Int
    <2>1. CASE \E i \in DOMAIN journal : journal[i] = last
      <3>1. (CHOOSE i \in DOMAIN journal : journal[i] = last) = last
        BY <1>1, <2>1
      <3>2. m = 1 + last
        BY <2>1, <3>1 DEF ReplayFrom
      <3> HIDE DEF m
      <3> QED  BY <3>2
    <2>2. CASE ~\E i \in DOMAIN journal : journal[i] = last
      <3>1. m = 1
        BY <2>2 DEF ReplayFrom
      <3> HIDE DEF m
      <3> QED  BY <3>1
    <2> QED  BY <2>1, <2>2
  <1>3. \A i \in m..n : journal[i] \in Positive /\ journal[i] = i
    BY <1>1, <1>2
  <1> HIDE DEF m, n
  <1>4. /\ T \in Seq(Positive) /\ Len(T) = IF m <= n THEN n - m + 1 ELSE 0
        /\ \A i \in 1..(n - m + 1) : T[i] = journal[m + i - 1]
    BY <1>1, <1>2, <1>3, SubSeqProperties
  <1>5. \A i \in 1..Len(T) : T[i] = m + i - 1
    BY <1>1, <1>2, <1>3, <1>4
  <1> HIDE DEF T
  <1>6. \A i \in 1..Len(T) : T[i] = T[1] + i - 1
    <2> SUFFICES ASSUME NEW i \in 1..Len(T) PROVE T[i] = T[1] + i - 1
      OBVIOUS
    <2>1. Len(T) \in Nat /\ i \in Int /\ 1 \in 1..Len(T)
      BY <1>4
    <2>2. T[i] = m + i - 1 /\ T[1] = m + 1 - 1
      BY <1>5, <2>1
    <2> QED  BY <1>2, <2>1, <2>2
  <1>7. T # <<>> => 1 \in 1..Len(T)
    BY <1>4
  <1>8. T # <<>> => T[1] <= last + 1
    BY <1>2, <1>5, <1>7
  <1>9. \A i \in 1..Len(T) : T[i] \in 1..n
    BY <1>1, <1>2, <1>4, <1>5
  <1>10. ASSUME NEW j \in (last + 1)..n PROVE \E i \in 1..Len(T) : T[i] = j
    <2>1. j - m + 1 \in 1..Len(T)
      BY <1>1, <1>2, <1>4
    <2>2. T[j - m + 1] = j
      BY <1>2, <1>5, <2>1
    <2> QED  BY <2>1, <2>2
  <1> QED  BY <1>4, <1>6, <1>8, <1>9, <1>10 DEF T, m, n

LEMMA ConnectSteps ==
    ASSUME IInv, notice.pc = "none", NEW r \in Readers, Connect(r)
    PROVE  reader' \in [Readers -> Client] /\ \A q \in Readers : ReaderOK(q)' /\ Advances(q)
  <1> DEFINE s == reader[r]
             T == SubSeq(journal, ReplayFrom(s.last), Len(journal))
             c == journal # <<>> /\ kinds[Last(journal)] = "closed"
             n == [s EXCEPT !.pc = "replaying", !.yielded = {}, !.from = s.last,
                            !.todo = T, !.closes = c]
  <1>1. s \in Client /\ ReaderOK(r) /\ JournalOK /\ StreamsOK
    BY DEF IInv
  <1>2. /\ T \in Seq(Positive) /\ \A i \in 1..Len(T) : T[i] = T[1] + i - 1
        /\ T # <<>> => T[1] <= s.last + 1
    BY <1>1, RestOfJournal DEF Client
  <1>3. SetReader(r, n) /\ streams' = streams
    BY DEF Connect, bridgeVars
  <1>4. c \in BOOLEAN /\ {} \in SUBSET Nat
    OBVIOUS
  <1> HIDE DEF T, c
  <1>5. n \in Client
    BY <1>1, <1>2, <1>4 DEF Client
  <1>6. /\ n.pc = "replaying" /\ n.yielded = {} /\ n.from = s.last /\ n.todo = T
        /\ n.last = s.last /\ n.seen = s.seen /\ n.done = s.done
    BY <1>1 DEF Client
  <1>7. n.behind = s.behind
    BY <1>1 DEF Client
  <1>8. ~n.behind => Gapless(n)
    <2> HIDE DEF n
    <2>1. s.last \in Nat
      BY <1>1 DEF Client
    <2> QED  BY <1>1, <1>2, <1>6, <1>7, <2>1 DEF ReaderOK, Gapless, TodoOK
  <1> HIDE DEF n
  <1> QED  BY <1>1, <1>3, <1>5, <1>6, <1>7, <1>8, OneMoves DEF StreamsOK

LEMMA ReplaySteps ==
    ASSUME IInv, notice.pc = "none", NEW r \in Readers, Replay(r)
    PROVE  reader' \in [Readers -> Client] /\ \A q \in Readers : ReaderOK(q)' /\ Advances(q)
  <1> DEFINE s == reader[r]
             h == Head(s.todo)
             T == Tail(s.todo)
             y == s.yielded \union {h}
             a == [s EXCEPT !.todo = T, !.from = h, !.yielded = y]
             n == Got(a, h)
  <1>1. s \in Client /\ ReaderOK(r) /\ StreamsOK
    BY DEF IInv
  <1>2. s.pc = "replaying" /\ s.todo # <<>> /\ SetReader(r, n) /\ streams' = streams
    BY <1>1 DEF Replay, bridgeVars, Client
  <1>3. /\ s.todo \in Seq(Positive) /\ h \in Positive /\ h = s.todo[1] /\ T \in Seq(Positive)
        /\ Len(T) = Len(s.todo) - 1 /\ Len(s.todo) \in Positive
        /\ \A i \in 1..Len(T) : T[i] = s.todo[i + 1]
    BY <1>1, <1>2 DEF Client, Positive
  <1>4. y \in SUBSET Nat /\ h \in Nat
    BY <1>1, <1>3 DEF Client, Positive
  <1> HIDE DEF h, T, y
  <1>5. a \in Client
    BY <1>1, <1>3, <1>4 DEF Client
  <1>6. /\ a.pc = "replaying" /\ a.yielded = y /\ a.from = h /\ a.todo = T
        /\ a.last = s.last /\ a.seen = s.seen /\ a.done = s.done
    BY <1>1, <1>2 DEF Client
  <1>7. a.behind = s.behind
    BY <1>1 DEF Client
  <1> HIDE DEF a
  <1>8. /\ n \in Client /\ n.pc = "replaying" /\ n.behind = s.behind /\ n.todo = T
        /\ n.yielded = y /\ n.from = h
    BY <1>3, <1>5, <1>6, <1>7, GotOK
  <1>9. ASSUME ~s.behind
        PROVE  Gapless(n) /\ (n.seen = s.seen \/ n.seen = s.seen \union {s.last + 1})
    <2>1. /\ s.seen = 1..s.last /\ s.done <= s.last /\ s.yielded \subseteq s.seen
          /\ h <= s.last + 1 /\ \A i \in 1..Len(s.todo) : s.todo[i] = s.todo[1] + i - 1
      BY <1>1, <1>2, <1>3, <1>9 DEF ReaderOK, Gapless, TodoOK
    <2>2. /\ n.seen = 1..n.last /\ n.done <= n.last /\ h <= n.last /\ h \in n.seen
          /\ s.seen \subseteq n.seen
          /\ n.seen = s.seen \/ n.seen = s.seen \union {s.last + 1}
      <3>1. a.seen = 1..a.last /\ a.done <= a.last /\ h <= a.last + 1
        BY <1>6, <2>1
      <3>2. /\ n.seen = 1..n.last /\ n.done <= n.last /\ h <= n.last /\ h \in n.seen
            /\ a.seen \subseteq n.seen
            /\ n.seen = a.seen \/ n.seen = a.seen \union {a.last + 1}
        BY <1>3, <1>5, <3>1, NoGap
      <3> QED  BY <1>6, <3>2
    <2>3. \A i \in 1..Len(T) : T[i] = h + i
      BY <1>3, <2>1 DEF Positive
    <2>4. Len(T) \in Nat /\ (T # <<>> => Len(T) > 0)
      BY <1>3
    <2>5. Len(T) > 0 => T[1] = h + 1
      BY <2>3, <2>4
    <2>6. \A i \in 1..Len(T) : T[i] = T[1] + i - 1
      <3> SUFFICES ASSUME NEW i \in 1..Len(T) PROVE T[i] = T[1] + i - 1
        OBVIOUS
      <3>1. T[i] = h + i /\ T[1] = h + 1 /\ i \in Int
        BY <2>3, <2>4, <2>5
      <3> QED  BY <1>4, <3>1
    <2>7. T # <<>> => T[1] <= n.last + 1
      <3>1. n.last \in Nat
        BY <1>8 DEF Client
      <3> QED  BY <1>4, <2>2, <2>4, <2>5, <3>1
    <2> HIDE DEF n
    <2>8. n.yielded \subseteq n.seen
      BY <1>8, <2>1, <2>2 DEF y
    <2> QED  BY <1>8, <2>2, <2>6, <2>7, <2>8 DEF Gapless, TodoOK
  <1> HIDE DEF n
  <1> QED  BY <1>1, <1>2, <1>8, <1>9, OneMoves DEF StreamsOK

(* The end of a connection, whatever ended it.                              *)
LEMMA ConnectionEnds ==
    ASSUME IInv, notice.pc = "none", NEW r \in Readers, NEW c \in Nat,
           SetReader(r, Eof([reader[r] EXCEPT !.cuts = c])), UNCHANGED streams
    PROVE  reader' \in [Readers -> Client] /\ \A q \in Readers : ReaderOK(q)' /\ Advances(q)
  <1> DEFINE s == reader[r]
             a == [s EXCEPT !.cuts = c]
             n == Eof(a)
  <1>1. s \in Client /\ ReaderOK(r) /\ StreamsOK
    BY DEF IInv
  <1>2. /\ a \in Client /\ a.last = s.last /\ a.seen = s.seen /\ a.done = s.done
        /\ a.yielded = s.yielded
    BY <1>1 DEF Client
  <1>3. a.behind = s.behind
    BY <1>1 DEF Client
  <1> HIDE DEF a
  <1>4. /\ n \in Client /\ n.pc \in {"complete", "off", "incomplete"} /\ n.behind = s.behind
        /\ n.last = s.last /\ n.seen = s.seen /\ n.done = s.done /\ n.yielded = s.yielded
    BY <1>2, <1>3, EofOK
  <1>5. SetReader(r, n)
    BY DEF a
  <1> HIDE DEF n
  <1>6. ~n.behind => Gapless(n)
    BY <1>1, <1>4 DEF ReaderOK, Gapless
  <1> QED  BY <1>1, <1>4, <1>5, <1>6, OneMoves DEF StreamsOK

(* It ends without a cut.                                                   *)
LEMMA ServerEnds ==
    ASSUME IInv, notice.pc = "none", NEW r \in Readers,
           SetReader(r, Eof(reader[r])), UNCHANGED streams
    PROVE  reader' \in [Readers -> Client] /\ \A q \in Readers : ReaderOK(q)' /\ Advances(q)
  <1>1. reader[r] \in Client
    BY DEF IInv
  <1>2. reader[r].cuts \in Nat /\ [reader[r] EXCEPT !.cuts = reader[r].cuts] = reader[r]
    BY <1>1 DEF Client
  <1> QED  BY <1>2, ConnectionEnds

LEMMA ReplayedSteps ==
    ASSUME IInv, notice.pc = "none", NEW r \in Readers, Replayed(r)
    PROVE  reader' \in [Readers -> Client] /\ \A q \in Readers : ReaderOK(q)' /\ Advances(q)
  <1> DEFINE s == reader[r]
             e == IF current = 0 THEN "none" ELSE IF streams[current].ended THEN "yes" ELSE "no"
             n == [s EXCEPT !.pc = "checking", !.ended = e]
  <1>1. s \in Client /\ ReaderOK(r) /\ StreamsOK
    BY DEF IInv
  <1>2. s.pc = "replaying" /\ UNCHANGED streams
    BY DEF Replayed, bridgeVars
  <1>3. CASE s.closes
    <2>1. SetReader(r, Eof(reader[r]))
      BY <1>3 DEF Replayed
    <2> QED  BY <1>2, <2>1, ServerEnds
  <1>4. CASE ~s.closes
    <2>1. SetReader(r, n)
      BY <1>4 DEF Replayed
    <2>2. e \in {"no", "yes", "none"}
      OBVIOUS
    <2> HIDE DEF e
    <2>3. /\ n \in Client /\ n.pc = "checking" /\ n.last = s.last /\ n.seen = s.seen
          /\ n.done = s.done /\ n.yielded = s.yielded /\ n.from = s.from
      BY <1>1, <2>2 DEF Client
    <2>4. n.behind = s.behind
      BY <1>1 DEF Client
    <2> HIDE DEF n
    <2>5. ~n.behind => Gapless(n)
      BY <1>1, <1>2, <2>3, <2>4 DEF ReaderOK, Gapless
    <2> QED  BY <1>1, <1>2, <2>1, <2>3, <2>4, <2>5, OneMoves DEF StreamsOK
  <1> QED  BY <1>3, <1>4

LEMMA AttachSteps ==
    ASSUME IInv, notice.pc = "none", NEW r \in Readers, Attach(r)
    PROVE  /\ reader' \in [Readers -> Client] /\ \A q \in Readers : ReaderOK(q)' /\ Advances(q)
           /\ StreamsOK'
  <1> DEFINE s == reader[r]
             b == Opened[Index]
             at == ResumeAt(b, s.from)
             d == s.behind \/ b.lo > s.from + 1
             n == [s EXCEPT !.pc = "live", !.stream = Index, !.from = at, !.behind = d]
  <1>1. s \in Client /\ ReaderOK(r) /\ StreamsOK /\ JournalOK
    BY DEF IInv
  <1>2. /\ s.pc = "checking" /\ streams' = Opened /\ current' = Index
        /\ SetReader(r, n)
    BY <1>1 DEF Attach, Client
  <1>3. /\ Opened \in Seq(Stream) /\ Index \in 1..Len(Opened) /\ Index \in Nat
        /\ Len(streams) <= Len(Opened) /\ b \in Stream
    BY <1>1, OpenedOK
  <1>4. b.lo \in Positive /\ s.from \in Nat /\ s.last \in Nat
    BY <1>1, <1>3 DEF Client, Stream
  <1>5. at \in {s.from + 1, b.lo}
    BY DEF ResumeAt
  <1>6. at \in Positive /\ at \in Nat /\ d \in BOOLEAN
    BY <1>4, <1>5 DEF Positive
  <1>7. ~d => ~s.behind /\ b.lo <= s.from + 1
    BY <1>4 DEF Positive
  <1> HIDE DEF at, d, b
  <1>8. /\ n \in Client /\ n.pc = "live" /\ n.stream = Index /\ n.from = at /\ n.last = s.last
        /\ n.seen = s.seen /\ n.done = s.done /\ n.yielded = s.yielded
    BY <1>1, <1>3, <1>6 DEF Client
  <1>9. n.behind = d
    BY <1>1 DEF Client
  <1> HIDE DEF n
  <1>10. ~n.behind => Gapless(n)
    <2> SUFFICES ASSUME ~d PROVE Gapless(n)
      BY <1>9
    <2>1. s.from <= s.last /\ Gapless(s)
      BY <1>1, <1>2, <1>7 DEF ReaderOK, Gapless
    <2>2. at \in 1..(s.last + 1)
      BY <1>4, <1>5, <1>6, <1>7, <2>1 DEF Positive
    <2> QED  BY <1>8, <2>1, <2>2 DEF Gapless
  <1>11. s.behind => n.behind
    BY <1>7, <1>9
  <1>12. reader' \in [Readers -> Client] /\ \A q \in Readers : ReaderOK(q)' /\ Advances(q)
    BY <1>2, <1>3, <1>8, <1>10, <1>11, OneMoves
  <1>13. StreamsOK'
    BY <1>2, <1>3 DEF StreamsOK
  <1> QED  BY <1>12, <1>13

LEMMA FollowSteps ==
    ASSUME IInv, notice.pc = "none", NEW r \in Readers, Follow(r)
    PROVE  reader' \in [Readers -> Client] /\ \A q \in Readers : ReaderOK(q)' /\ Advances(q)
  <1> DEFINE s == reader[r]
             b == streams[s.stream]
             id == IF s.from < b.lo THEN b.lo ELSE s.from
             d == s.behind \/ s.from < b.lo
             y == s.yielded \union {id}
             a == [s EXCEPT !.from = id + 1, !.behind = d, !.yielded = y]
             n == IF id \in s.yielded THEN a ELSE Got(a, id)
  <1>1. s \in Client /\ ReaderOK(r) /\ StreamsOK
    BY DEF IInv
  <1>2. s.pc = "live" /\ SetReader(r, n) /\ UNCHANGED streams
    BY <1>1 DEF Follow, bridgeVars, Client
  <1>3. b \in Stream /\ s.from \in Nat /\ s.last \in Nat
    BY <1>1, <1>2 DEF ReaderOK, StreamsOK, Client
  <1>4. b.lo \in Positive
    BY <1>3 DEF Stream
  <1>5. s.from \in Positive \/ s.behind
    BY <1>1, <1>2, <1>3 DEF ReaderOK, Gapless, Positive
  <1>6. id \in Nat /\ d \in BOOLEAN /\ (~d => ~s.behind /\ id = s.from)
    BY <1>3, <1>4 DEF Positive
  <1>7. id \in Positive
    BY <1>3, <1>4, <1>5 DEF Positive
  <1> HIDE DEF b, id, d
  <1>8. /\ a \in Client /\ a.pc = "live" /\ a.from = id + 1 /\ a.yielded = y /\ a.last = s.last
        /\ a.seen = s.seen /\ a.done = s.done /\ a.stream = s.stream
    <2>1. y \in SUBSET Nat /\ id + 1 \in Nat
      BY <1>1, <1>6 DEF Client
    <2> HIDE DEF y
    <2> QED  BY <1>1, <1>2, <1>6, <2>1 DEF Client
  <1>9. a.behind = d
    BY <1>1 DEF Client
  <1> HIDE DEF a
  <1>10. /\ n \in Client /\ n.pc = "live" /\ n.from = id + 1 /\ n.yielded = y
         /\ n.stream = s.stream /\ n.behind = d
    BY <1>7, <1>8, <1>9, GotOK
  <1>11. ASSUME ~d
         PROVE  Gapless(n) /\ (n.seen = s.seen \/ n.seen = s.seen \union {s.last + 1})
    <2>1. /\ s.seen = 1..s.last /\ s.done <= s.last /\ s.yielded \subseteq s.seen
          /\ s.from \in 1..(s.last + 1) /\ id = s.from
      BY <1>1, <1>2, <1>6, <1>11 DEF ReaderOK, Gapless
    <2>2. CASE id \in s.yielded
      <3>1. n = a /\ y = s.yielded
        BY <2>2
      <3>2. id <= s.last /\ id \in Positive
        BY <1>3, <1>7, <2>1, <2>2
      <3>3. n.from \in 1..(n.last + 1)
        BY <1>3, <1>8, <3>1, <3>2 DEF Positive
      <3> HIDE DEF n, y
      <3> QED  BY <1>8, <1>10, <2>1, <3>1, <3>3 DEF Gapless
    <2>3. CASE id \notin s.yielded
      <3>1. n = Got(a, id)
        BY <2>3
      <3>2. id <= s.last + 1
        BY <1>3, <2>1
      <3> HIDE DEF n
      <3>3. a.seen = 1..a.last /\ a.done <= a.last /\ id <= a.last + 1
        BY <1>8, <2>1, <3>2
      <3>4. /\ n.seen = 1..n.last /\ n.done <= n.last /\ id <= n.last /\ id \in n.seen
            /\ a.seen \subseteq n.seen
            /\ n.seen = a.seen \/ n.seen = a.seen \union {a.last + 1}
        BY <1>7, <1>8, <3>1, <3>3, NoGap
      <3>5. n.last \in Nat /\ n.from \in 1..(n.last + 1)
        BY <1>7, <1>10, <3>4 DEF Client, Positive
      <3> QED  BY <1>8, <1>10, <2>1, <3>4, <3>5 DEF Gapless
    <2> QED  BY <2>2, <2>3
  <1> HIDE DEF n
  <1>12. s.behind => d
    BY DEF d
  <1> QED  BY <1>1, <1>2, <1>10, <1>11, <1>12, OneMoves DEF ReaderOK, StreamsOK

LEMMA StopSteps ==
    ASSUME IInv, notice.pc = "none", NEW r \in Readers, Stop(r)
    PROVE  reader' \in [Readers -> Client] /\ \A q \in Readers : ReaderOK(q)' /\ Advances(q)
  <1> DEFINE s == reader[r]
             n == [s EXCEPT !.pc = "complete"]
  <1>1. s \in Client /\ ReaderOK(r) /\ StreamsOK
    BY DEF IInv
  <1>2. SetReader(r, n) /\ UNCHANGED streams
    BY DEF Stop, bridgeVars
  <1>3. /\ n \in Client /\ n.pc = "complete" /\ n.last = s.last /\ n.seen = s.seen
        /\ n.done = s.done /\ n.yielded = s.yielded
    BY <1>1 DEF Client
  <1>4. n.behind = s.behind
    BY <1>1 DEF Client
  <1> HIDE DEF n
  <1>5. ~n.behind => Gapless(n)
    BY <1>1, <1>3, <1>4 DEF ReaderOK, Gapless
  <1> QED  BY <1>1, <1>2, <1>3, <1>4, <1>5, OneMoves DEF StreamsOK

----------------------------------------------------------------------------
(* The steps of the bridge and of the publishers.                           *)

(* No client moves, and no stream is dropped.                               *)
LEMMA NobodyMoves ==
    ASSUME IInv, notice.pc = "none", UNCHANGED reader, Len(streams) <= Len(streams'),
           streams' \in Seq(Stream)
    PROVE  reader' \in [Readers -> Client] /\ \A q \in Readers : ReaderOK(q)' /\ Advances(q)
  <1>1. streams \in Seq(Stream) /\ Len(streams) \in Nat /\ Len(streams') \in Nat
    BY DEF IInv, StreamsOK
  <1>2. \A n \in 1..Len(streams) : n \in 1..Len(streams')
    BY <1>1
  <1>3. ASSUME NEW q \in Readers PROVE ReaderOK(q)' /\ Advances(q)
    <2>1. ReaderOK(q) /\ reader'[q] = reader[q]
      BY DEF IInv
    <2> QED  BY <1>2, <2>1 DEF ReaderOK, Advances, Gapless, TodoOK
  <1> QED  BY <1>3 DEF IInv

LEMMA BridgedOK ==
    ASSUME IInv, notice.pc = "none", NEW kind \in Kinds, Bridged(kind)
    PROVE  /\ kinds' \in Seq(Kinds) /\ Published' = Published + 1
           /\ StreamsOK' /\ Len(streams) <= Len(streams')
  <1> DEFINE b == Opened[Index]
             n == With(b, Published + 1, kind)
  <1>1. JournalOK /\ StreamsOK /\ kinds \in Seq(Kinds)
    BY DEF IInv
  <1>2. /\ Opened \in Seq(Stream) /\ Index \in 1..Len(Opened) /\ Len(streams) <= Len(Opened)
        /\ b \in Stream
    BY <1>1, OpenedOK
  <1>3. kinds' = Append(kinds, kind) /\ streams' = [Opened EXCEPT ![Index] = n] /\ current' = Index
    BY DEF Bridged
  <1>4. kinds' \in Seq(Kinds) /\ Published' = Published + 1 /\ Published \in Nat
    BY <1>1, <1>3 DEF Published
  <1>5. n \in Stream
    <2>1. b.lo \in Positive /\ b.ended \in BOOLEAN /\ Maxsize \in Nat
      BY <1>2, StreamAssumption DEF Stream
    <2>2. Trimmed(b.lo, Published + 1) \in Positive
      BY <1>4, <2>1 DEF Trimmed, Positive
    <2>3. (b.ended \/ kind = "closed") \in BOOLEAN
      OBVIOUS
    <2> QED  BY <1>4, <2>2, <2>3 DEF With, Stream
  <1> HIDE DEF n
  <1>6. streams' \in Seq(Stream) /\ Len(streams') = Len(Opened)
    BY <1>2, <1>3, <1>5
  <1>7. StreamsOK'
    BY <1>2, <1>3, <1>6 DEF StreamsOK
  <1> QED  BY <1>2, <1>4, <1>6, <1>7

(* The invariant and the advance of the clients after a step.               *)
Kept == IInv' /\ \A r \in Readers : Advances(r)

LEMMA PublishSteps ==
    ASSUME IInv, notice.pc = "none", NEW kind \in Kinds,
           NEW pc \in {"running", "reported", "closing"},
           producer.pc # "dead", Quiet, Publish(kind, pc)
    PROVE  notice'.pc = "none" /\ Kept
  <1>1. JournalOK
    BY DEF IInv
  <1>2. Bridged(kind) /\ UNCHANGED <<journal, stray, notice, reader>>
    BY DEF Publish, journalVars
  <1>3. /\ kinds' \in Seq(Kinds) /\ Published' = Published + 1
        /\ StreamsOK' /\ Len(streams) <= Len(streams')
    BY <1>2, BridgedOK
  <1>4. producer' = [producer EXCEPT !.pc = pc, !.pending = Published + 1]
    BY DEF Publish
  <1>5. Published = Len(journal) /\ Published \in Nat
    BY <1>1 DEF JournalOK, Quiet, Published
  <1>6. producer'.pending = Published + 1 /\ producer'.cancelled = producer.cancelled
    BY <1>1, <1>4 DEF JournalOK, Producer
  <1>7. producer' \in Producer
    <2>1. producer \in Producer /\ Published + 1 \in Nat
      BY <1>1, <1>5 DEF JournalOK
    <2> QED  BY <1>4, <2>1 DEF Producer
  <1>8. JournalOK'
    BY <1>1, <1>2, <1>3, <1>5, <1>6, <1>7 DEF JournalOK
  <1>9. reader' \in [Readers -> Client] /\ \A q \in Readers : ReaderOK(q)' /\ Advances(q)
    BY <1>2, <1>3, NobodyMoves DEF StreamsOK
  <1> QED  BY <1>2, <1>3, <1>8, <1>9 DEF IInv, Kept

(* A step of the producer, or of nobody's, that publishes nothing.          *)
LEMMA StreamsOnly ==
    ASSUME IInv, notice.pc = "none", UNCHANGED <<kinds, notice, reader>>,
           JournalOK', StreamsOK', Len(streams) <= Len(streams')
    PROVE  notice'.pc = "none" /\ Kept
  <1>1. reader' \in [Readers -> Client] /\ \A q \in Readers : ReaderOK(q)' /\ Advances(q)
    BY NobodyMoves DEF StreamsOK
  <1> QED  BY <1>1 DEF IInv, Kept

LEMMA ProducerSteps ==
    ASSUME IInv, notice.pc = "none", ProducerStep
    PROVE  notice'.pc = "none" /\ Kept
  <1>1. JournalOK /\ StreamsOK /\ Len(streams) \in Nat /\ Published \in Nat /\ Len(journal) \in Nat
    BY DEF IInv, JournalOK, StreamsOK, Published
  <1>2. CASE EmitDelta
    BY <1>2, PublishSteps DEF EmitDelta, Kinds
  <1>3. CASE Settle
    <2>1. producer' = [producer EXCEPT !.pc = "settled"] /\ producer.pc # "dead"
      BY <1>3 DEF Settle
    <2>2. producer'.pending = producer.pending /\ producer'.cancelled = producer.cancelled
      BY <1>1, <2>1 DEF JournalOK, Producer
    <2>3. producer' \in Producer
      BY <1>1, <2>1 DEF JournalOK, Producer
    <2>4. UNCHANGED <<kinds, streams, current, journal, stray, notice, reader>>
      BY <1>3 DEF Settle, bridgeVars
    <2>5. JournalOK'
      BY <1>1, <2>1, <2>2, <2>3, <2>4 DEF JournalOK, Published
    <2>6. StreamsOK'
      BY <1>1, <2>4 DEF StreamsOK
    <2> QED  BY <1>1, <2>4, <2>5, <2>6, StreamsOnly
  <1>4. CASE EmitOutcome
    BY <1>4, PublishSteps DEF EmitOutcome, Kinds
  <1>5. CASE EmitClosed
    BY <1>5, PublishSteps DEF EmitClosed, Kinds
  <1>6. CASE End
    <2> DEFINE n == [Opened[Index] EXCEPT !.ended = TRUE]
    <2>1. producer' = [producer EXCEPT !.pc = "ended"] /\ producer.pc # "dead"
      BY <1>6 DEF End
    <2>2. producer'.pending = producer.pending /\ producer'.cancelled = producer.cancelled
      BY <1>1, <2>1 DEF JournalOK, Producer
    <2>3. producer' \in Producer
      BY <1>1, <2>1 DEF JournalOK, Producer
    <2>4. UNCHANGED <<kinds, journal, stray, notice, reader>>
      BY <1>6 DEF End, journalVars
    <2>5. JournalOK'
      BY <1>1, <2>1, <2>2, <2>3, <2>4 DEF JournalOK, Published
    <2>6. /\ Opened \in Seq(Stream) /\ Index \in 1..Len(Opened) /\ Len(streams) <= Len(Opened)
          /\ Opened[Index] \in Stream
      BY <1>1, OpenedOK
    <2>7. streams' = [Opened EXCEPT ![Index] = n] /\ current' = Index
      BY <1>6 DEF End
    <2>8. n \in Stream
      BY <2>6 DEF Stream
    <2> HIDE DEF n
    <2>9. streams' \in Seq(Stream) /\ Len(streams') = Len(Opened)
      BY <2>6, <2>7, <2>8
    <2>10. StreamsOK' /\ Len(streams) <= Len(streams')
      BY <2>6, <2>7, <2>9 DEF StreamsOK
    <2> QED  BY <2>4, <2>5, <2>10, StreamsOnly
  <1>7. CASE Journaled
    <2>1. /\ journal' = Append(journal, producer.pending) /\ producer.pending # 0
          /\ producer' = [producer EXCEPT !.pending = 0]
          /\ UNCHANGED <<kinds, streams, current, stray, notice, reader>>
      BY <1>7 DEF Journaled, bridgeVars
    <2>2. producer.pending = Published /\ Published = Len(journal) + 1 /\ journal \in Seq(Positive)
      BY <1>1, <2>1 DEF JournalOK
    <2>3. /\ journal' \in Seq(Positive) /\ Len(journal') = Published
          /\ \A i \in 1..Len(journal') : journal'[i] = i
      BY <1>1, <2>1, <2>2 DEF JournalOK, Positive
    <2>4. producer'.pending = 0 /\ producer'.cancelled = producer.cancelled
      BY <1>1, <2>1 DEF JournalOK, Producer
    <2>5. producer' \in Producer
      BY <1>1, <2>1 DEF JournalOK, Producer
    <2>6. JournalOK'
      BY <1>1, <2>1, <2>3, <2>4, <2>5 DEF JournalOK, Published
    <2>7. StreamsOK'
      BY <1>1, <2>1 DEF StreamsOK
    <2> QED  BY <1>1, <2>1, <2>6, <2>7, StreamsOnly
  <1>8. CASE Interrupted
    BY <1>1, <1>8 DEF Interrupted, JournalOK
  <1> QED  BY <1>2, <1>3, <1>4, <1>5, <1>6, <1>7, <1>8 DEF ProducerStep

LEMMA CrashSteps ==
    ASSUME IInv, notice.pc = "none", Crash
    PROVE  notice'.pc = "none" /\ Kept
  <1>1. JournalOK /\ StreamsOK /\ Len(streams) \in Nat /\ reader \in [Readers -> Client]
    BY DEF IInv, StreamsOK
  <1>2. /\ UNCHANGED <<kinds, streams, journal>> /\ current' = 0 /\ stray' = {}
        /\ producer' = [pc |-> "dead", pending |-> 0, cancelled |-> FALSE]
        /\ reader' = [r \in Readers |-> IF Connected(r) THEN Eof(reader[r]) ELSE reader[r]]
    BY DEF Crash
  <1>3. notice' \in [pc : {"none", "persisting", "publishing", "journaling", "done"}, id : Nat]
        /\ notice'.pc = "none"
    BY DEF Crash, IInv
  <1>4. JournalOK' /\ StreamsOK'
    BY <1>1, <1>2 DEF JournalOK, StreamsOK, Published, Producer
  <1>5. ASSUME NEW r \in Readers
        PROVE  reader'[r] \in Client /\ ReaderOK(r)' /\ Advances(r)
    <2> DEFINE s == reader[r]  n == Eof(s)
    <2>1. s \in Client /\ ReaderOK(r)
      BY DEF IInv
    <2>2. CASE Connected(r)
      <3>1. reader'[r] = n
        BY <1>2, <2>2
      <3>2. /\ n \in Client /\ n.pc \in {"complete", "off", "incomplete"} /\ n.behind = s.behind
            /\ n.last = s.last /\ n.seen = s.seen /\ n.done = s.done /\ n.yielded = s.yielded
        BY <2>1, EofOK
      <3> HIDE DEF n
      <3>3. ~n.behind => Gapless(n)
        BY <2>1, <3>2 DEF ReaderOK, Gapless
      <3> QED  BY <3>1, <3>2, <3>3 DEF ReaderOK, Gapless, TodoOK, Advances
    <2>3. CASE ~Connected(r)
      <3>1. reader'[r] = reader[r]
        BY <1>2, <2>3
      <3> QED  BY <1>2, <2>1, <3>1 DEF ReaderOK, Gapless, TodoOK, Advances
    <2> QED  BY <2>2, <2>3
  <1>6. reader' \in [Readers -> Client]
    BY <1>2, <1>5
  <1> QED  BY <1>2, <1>3, <1>4, <1>5, <1>6 DEF IInv, Kept

----------------------------------------------------------------------------
LEMMA InitOK ==
    Init => IInv
  <1> SUFFICES ASSUME Init PROVE IInv
    OBVIOUS
  <1>1. kinds \in Seq(Kinds) /\ Published = 0
    BY DEF Init, Published
  <1>2. notice \in [pc : {"none", "persisting", "publishing", "journaling", "done"}, id : Nat]
    BY DEF Init
  <1>3. JournalOK /\ StreamsOK
    BY <1>1 DEF Init, JournalOK, StreamsOK, Producer
  <1>4. Off \in Client /\ Off.pc = "off" /\ ~Off.behind /\ Off.seen = {} /\ Off.last = 0
        /\ Off.done = 0 /\ Off.yielded = {}
    BY DEF Off, Client
  <1>5. Gapless(Off)
    <2>1. {} = 1..0
      OBVIOUS
    <2> QED  BY <1>4, <2>1 DEF Gapless
  <1>6. reader = [r \in Readers |-> Off]
    BY DEF Init
  <1> HIDE DEF Init
  <1>7. \A r \in Readers : reader[r] \in Client /\ ReaderOK(r)
    BY <1>4, <1>5, <1>6 DEF ReaderOK
  <1>8. reader \in [Readers -> Client]
    BY <1>6, <1>7
  <1> QED  BY <1>1, <1>2, <1>3, <1>7, <1>8 DEF IInv

(* A client's steps leave the bridge's events and the publishers alone.     *)
LEMMA ReaderSteps ==
    ASSUME IInv, notice.pc = "none", NEW r \in Readers,
           ReaderStep(r) \/ Stop(r) \/ Cut(r)
    PROVE  notice'.pc = "none" /\ Kept
  <1>1. UNCHANGED <<kinds, journal, stray, producer, notice>>
    BY DEF ReaderStep, Stop, Cut, Connect, Replay, Replayed, EndReplay, Attach, Follow, StreamEnds,
           bridgeVars, journalVars, publisherVars
  <1>2. JournalOK'
    BY <1>1 DEF IInv, JournalOK, Published
  <1>3. /\ reader' \in [Readers -> Client] /\ \A q \in Readers : ReaderOK(q)' /\ Advances(q)
        /\ StreamsOK'
    <2>1. CASE Attach(r)
      BY <2>1, AttachSteps
    <2>2. CASE ~Attach(r)
      <3>1. StreamsOK' /\ UNCHANGED streams
        BY <2>2 DEF ReaderStep, Stop, Cut, Connect, Replay, Replayed, EndReplay, Follow,
                    StreamEnds, bridgeVars, StreamsOK, IInv
      <3>2. CASE Connect(r)
        BY <3>1, <3>2, ConnectSteps
      <3>3. CASE Replay(r)
        BY <3>1, <3>3, ReplaySteps
      <3>4. CASE Replayed(r)
        BY <3>1, <3>4, ReplayedSteps
      <3>5. CASE EndReplay(r) \/ StreamEnds(r)
        <4>1. SetReader(r, Eof(reader[r]))
          BY <3>5 DEF EndReplay, StreamEnds
        <4> QED  BY <3>1, <4>1, ServerEnds
      <3>6. CASE Follow(r)
        BY <3>1, <3>6, FollowSteps
      <3>7. CASE Stop(r)
        BY <3>1, <3>7, StopSteps
      <3>8. CASE Cut(r)
        <4>1. reader[r] \in Client
          BY DEF IInv
        <4>2. reader[r].cuts + 1 \in Nat
          BY <4>1 DEF Client
        <4>3. SetReader(r, Eof([reader[r] EXCEPT !.cuts = reader[r].cuts + 1]))
          BY <3>8 DEF Cut
        <4> QED  BY <3>1, <4>2, <4>3, ConnectionEnds
      <3> QED  BY <2>2, <3>2, <3>3, <3>4, <3>5, <3>6, <3>7, <3>8 DEF ReaderStep
    <2> QED  BY <2>1, <2>2
  <1> QED  BY <1>1, <1>2, <1>3 DEF IInv, Kept

LEMMA Steps ==
    ASSUME IInv, [Next]_vars
    PROVE  /\ IInv'
           /\ notice'.pc = "none" => notice.pc = "none" /\ \A r \in Readers : Advances(r)
  <1> DEFINE N == [pc : {"none", "persisting", "publishing", "journaling", "done"}, id : Nat]
  <1>1. kinds \in Seq(Kinds) /\ notice \in N /\ Published \in Nat
    BY DEF IInv, Published
  <1>2. CASE notice.pc = "none"
    <2>1. CASE ProducerStep
      BY <1>2, <2>1, ProducerSteps DEF Kept
    <2>2. CASE Cancel
      <3>1. notice' = [notice EXCEPT !.pc = "persisting"] /\ UNCHANGED kinds
        BY <2>2 DEF Cancel, bridgeVars
      <3>2. notice' \in N /\ notice'.pc = "persisting"
        BY <1>1, <3>1
      <3> QED  BY <1>1, <3>1, <3>2 DEF IInv
    <2>3. CASE \E id \in stray : StrayLands(id)
      BY <1>2, <2>3 DEF IInv, JournalOK
    <2>4. CASE Cleanup
      <3>1. /\ UNCHANGED <<kinds, streams, journal, stray, producer, notice, reader>>
            /\ current' \in {0, current}
        BY <2>4 DEF Cleanup, journalVars, publisherVars
      <3>2. JournalOK' /\ StreamsOK' /\ Len(streams) \in Nat
        BY <1>2, <3>1 DEF IInv, JournalOK, StreamsOK, Published
      <3> QED  BY <1>2, <3>1, <3>2, StreamsOnly DEF Kept
    <2>5. CASE Crash
      BY <1>2, <2>5, CrashSteps DEF Kept
    <2>6. ASSUME NEW r \in Readers, ReaderStep(r) \/ Stop(r) \/ Cut(r)
          PROVE  IInv' /\ \A q \in Readers : Advances(q)
      BY <1>2, <2>6, ReaderSteps DEF Kept
    <2>7. CASE UNCHANGED vars
      <3>1. UNCHANGED <<kinds, streams, current, journal, stray, producer, notice, reader>>
        BY <2>7 DEF vars, bridgeVars, journalVars, publisherVars
      <3>2. JournalOK' /\ StreamsOK' /\ Len(streams) \in Nat
        BY <1>2, <3>1 DEF IInv, JournalOK, StreamsOK, Published
      <3> QED  BY <1>2, <3>1, <3>2, StreamsOnly DEF Kept
    <2>8. ~RequestStep
      BY <1>2 DEF RequestStep, Persist, EmitNotice, NoticeJournaled
    <2> QED  BY <1>2, <2>1, <2>2, <2>3, <2>4, <2>5, <2>6, <2>7, <2>8 DEF Next
  <1>3. CASE notice.pc # "none"
    <2>1. kinds' \in Seq(Kinds)
      <3>1. ASSUME NEW kind \in Kinds, Bridged(kind) PROVE kinds' \in Seq(Kinds)
        BY <1>1, <3>1 DEF Bridged
      <3>2. CASE EmitDelta
        BY <3>1, <3>2 DEF EmitDelta, Publish, Kinds
      <3>3. CASE EmitOutcome
        BY <3>1, <3>3 DEF EmitOutcome, Publish, Kinds
      <3>4. CASE EmitClosed
        BY <3>1, <3>4 DEF EmitClosed, Publish, Kinds
      <3>5. CASE EmitNotice
        BY <3>1, <3>5 DEF EmitNotice, Kinds
      <3>6. CASE ~(EmitDelta \/ EmitOutcome \/ EmitClosed \/ EmitNotice)
        <4>1. UNCHANGED kinds
          BY <3>6 DEF Next, ProducerStep, RequestStep, ReaderStep, Settle, End, Journaled,
                      Interrupted, Cancel, Persist, NoticeJournaled, StrayLands, Cleanup, Crash,
                      Connect, Replay, Replayed, EndReplay, Attach, Follow, StreamEnds, Stop, Cut,
                      vars, bridgeVars
        <4> QED  BY <1>1, <4>1
      <3> QED  BY <3>2, <3>3, <3>4, <3>5, <3>6
    <2>2. notice' \in N /\ notice'.pc # "none"
      <3>1. CASE Persist
        BY <1>1, <3>1 DEF Persist
      <3>2. CASE EmitNotice
        <4>1. Published + 1 \in Nat
          BY <1>1
        <4> QED  BY <3>2, <4>1 DEF EmitNotice
      <3>3. CASE NoticeJournaled
        BY <1>1, <3>3 DEF NoticeJournaled
      <3>4. CASE Crash
        <4>1. notice' = [notice EXCEPT !.pc = "done"]
          BY <1>1, <1>3, <3>4 DEF Crash
        <4> QED  BY <1>1, <4>1
      <3>5. CASE ~(RequestStep \/ Crash)
        <4>1. UNCHANGED notice
          BY <1>3, <3>5
             DEF Next, ProducerStep, EmitDelta, EmitOutcome, EmitClosed, Publish,
                 ReaderStep, Settle, End, Journaled, Interrupted, Cancel,
                 StrayLands, Cleanup, Connect, Replay, Replayed, EndReplay, Attach, Follow,
                 StreamEnds, Stop, Cut, vars, publisherVars
        <4> QED  BY <1>1, <1>3, <4>1
      <3> QED  BY <3>1, <3>2, <3>3, <3>4, <3>5 DEF RequestStep
    <2> QED  BY <2>1, <2>2 DEF IInv
  <1> QED  BY <1>2, <1>3

(* Invariance: the reachable states satisfy IInv.                           *)
THEOREM Invariance ==
    Spec => []IInv
  <1>1. Init => IInv
    BY InitOK
  <1>2. IInv /\ [Next]_vars => IInv'
    BY Steps
  <1> QED  BY <1>1, <1>2, PTL DEF Spec

(* A client that has a terminal event of a run nobody cancelled has every   *)
(* event before it, unless it fell behind the buffer: for any number of     *)
(* clients, events, cuts and reconnections, any size of the buffer, and     *)
(* whether the process died or not (SSE stream of harness/streaming/sse.py  *)
(* over the journal's replay and the bridge).                               *)
THEOREM Complete ==
    Spec => []CompleteMeansAll
  <1>1. IInv => CompleteMeansAll
    <2> SUFFICES ASSUME IInv, notice.pc = "none", NEW r \in Readers,
                        reader[r].done # 0, ~reader[r].behind
                 PROVE  1 .. reader[r].done \subseteq reader[r].seen
      BY DEF CompleteMeansAll
    <2>1. reader[r] \in Client /\ Gapless(reader[r])
      BY DEF IInv, ReaderOK
    <2>2. reader[r].done \in Nat /\ reader[r].last \in Nat
          /\ reader[r].done <= reader[r].last /\ reader[r].seen = 1..reader[r].last
      BY <2>1 DEF Client, Gapless
    <2> QED  BY <2>2
  <1> QED  BY <1>1, Invariance, PTL

(* A client takes the events in their order, across its connections, on the *)
(* same conditions.                                                         *)
THEOREM Ordered ==
    Spec => InOrder
  <1>1. IInv /\ [Next]_vars => [TakenInOrder]_vars
    <2> SUFFICES ASSUME IInv, [Next]_vars, notice'.pc = "none", NEW r \in Readers,
                        ~reader'[r].behind,
                        NEW new \in reader'[r].seen \ reader[r].seen, NEW old \in reader[r].seen
                 PROVE  new > old
      BY DEF TakenInOrder
    <2>1. Advances(r) /\ notice.pc = "none"
      BY Steps
    <2>2. reader[r] \in Client /\ Gapless(reader[r])
      BY <2>1 DEF IInv, ReaderOK, Advances
    <2>3. reader[r].last \in Nat /\ reader[r].seen = 1..reader[r].last
          /\ new = reader[r].last + 1
      BY <2>1, <2>2 DEF Advances, Client, Gapless
    <2> QED  BY <2>3
  <1> QED  BY <1>1, Invariance, PTL DEF Spec, InOrder

----------------------------------------------------------------------------
(* Why a client gives up.  Until the process dies or the run is cancelled,  *)
(* the server ends a connection without a terminal event only after         *)
(* run.closed was published, and then the client's next connection finds    *)
(* the outcome in the journal.                                              *)

Closed == producer.pc \in {"closing", "ended"}

(* What the producer has published by the time it is at its place.          *)
PhaseOK ==
    /\ producer.pc \in {"running", "settled"} => \A i \in 1..Len(kinds) : kinds[i] \notin Terminals
    /\ producer.pc = "reported" => Len(kinds) > 0 /\ kinds[Len(kinds)] = "outcome"
    /\ Closed => /\ Len(kinds) > 1 /\ kinds[Len(kinds)] = "closed"
                 /\ kinds[Len(kinds) - 1] = "outcome"
    /\ \A i \in 1..Len(kinds) : kinds[i] = "closed" => i = Len(kinds) /\ Closed
    /\ producer.pc # "dead"

(* The bridge drops a stream only when run.closed has ended it.             *)
BridgeOK ==
    /\ \A i \in 1..Len(streams) : /\ streams[i].hi <= Len(kinds)
                                  /\ streams[i].ended => Closed
                                  /\ i # current => streams[i].ended
    /\ timer # 0 => timer \in 1..Len(streams) /\ streams[timer].ended
    /\ Len(kinds) > 0 => Len(streams) > 0

(* What client s has of the events k; what its connection is about to do,   *)
(* and how often it was let down, when c says that run.closed is published. *)
Took(s, k) ==
    /\ s.seen \subseteq 1..Len(k) /\ s.last \in s.seen \union {0}
    /\ s.done = 0 => \A i \in s.seen : k[i] \notin Terminals
OutcomeAhead(s, k) == \E i \in 1..Len(s.todo) : k[s.todo[i]] \in Terminals
Placed(s, k, c) ==
    /\ s.yielded \subseteq s.seen
    /\ s.pc = "replaying" =>
           /\ Len(k) > 0 /\ \A i \in 1..Len(s.todo) : s.todo[i] \in 1..Len(k)
           /\ s.closes /\ s.done = 0 => OutcomeAhead(s, k)
    /\ s.pc = "checking" /\ s.ended # "no" => c
Ends(s) == IF s.pc = "incomplete" THEN s.tries + 1 ELSE s.tries
Spent(s, k, c) ==
    /\ s.tries <= Budget
    /\ s.pc = "incomplete" => s.tries = Budget /\ s.done = 0
    /\ s.done = 0 => \/ Ends(s) <= s.cuts
                     \/ /\ Ends(s) = s.cuts + 1 /\ c
                        /\ s.pc \in {"off", "incomplete"} \/ (s.pc = "replaying" /\ OutcomeAhead(s, k))
Good(s, k, c) == Took(s, k) /\ Placed(s, k, c) /\ Spent(s, k, c)

XInv ==
    notice.pc = "none" /\ ~crashed =>
        PhaseOK /\ BridgeOK /\ \A r \in Readers : Good(reader[r], kinds, Closed)

(* A client that does nothing stays good while events are added and         *)
(* run.closed is published.                                                 *)
Extends(k, l) == Len(k) <= Len(l) /\ \A i \in 1..Len(k) : l[i] = k[i]

LEMMA Rests ==
    ASSUME NEW k \in Seq(Kinds), NEW l \in Seq(Kinds), Extends(k, l),
           NEW c \in BOOLEAN, NEW d \in BOOLEAN, c => d, NEW s \in Client, Good(s, k, c)
    PROVE  Good(s, l, d)
  <1>1. Len(k) \in Nat /\ Len(l) \in Nat /\ Len(k) <= Len(l)
    BY DEF Extends
  <1>2. \A i \in 1..Len(k) : i \in 1..Len(l) /\ l[i] = k[i]
    BY <1>1 DEF Extends
  <1>3. Took(s, l)
    BY <1>2 DEF Good, Took
  <1>4. s.pc = "replaying" => /\ Len(l) > 0 
                              /\ \A i \in 1..Len(s.todo) : s.todo[i] \in 1..Len(k)
    BY <1>1 DEF Good, Placed
  <1>5. s.pc = "replaying" /\ OutcomeAhead(s, k) => OutcomeAhead(s, l)
    BY <1>2, <1>4 DEF OutcomeAhead
  <1>6. Placed(s, l, d)
    BY <1>2, <1>4, <1>5 DEF Good, Placed
  <1>7. Spent(s, l, d)
    BY <1>5 DEF Good, Spent
  <1> QED  BY <1>3, <1>6, <1>7 DEF Good

(* Receiving an event, and the end of a connection.                         *)
LEMMA GotTook ==
    ASSUME NEW k, k = kinds, NEW s \in Client, NEW id \in 1..Len(k), Len(k) \in Nat, Took(s, k)
    PROVE  /\ Took(Got(s, id), k) /\ id \in Got(s, id).seen /\ s.seen \subseteq Got(s, id).seen
           /\ k[id] \in Terminals => Got(s, id).done # 0
           /\ Got(s, id).done = 0 => s.done = 0
           /\ Got(s, id).tries = s.tries /\ Got(s, id).cuts = s.cuts /\ Got(s, id).closes = s.closes
  <1> DEFINE d == IF s.done = 0 /\ kinds[id] \in Terminals THEN id ELSE s.done
             n == s.seen \union {id}
  <1>1. CASE id \in s.seen
    <2>1. Got(s, id) = s
      BY <1>1 DEF Got
    <2> QED  BY <1>1, <2>1 DEF Took
  <1>2. CASE id \notin s.seen
    <2>1. Got(s, id) = [s EXCEPT !.seen = n, !.last = id, !.done = d]
      BY <1>2 DEF Got, Client
    <2>2. id # 0 /\ (d = 0 => s.done = 0 /\ kinds[id] \notin Terminals)
      OBVIOUS
    <2> HIDE DEF d, n
    <2>3. /\ Got(s, id).seen = n /\ Got(s, id).last = id /\ Got(s, id).done = d
          /\ Got(s, id).tries = s.tries /\ Got(s, id).cuts = s.cuts
      BY <2>1 DEF Client
    <2>4. Got(s, id).closes = s.closes
      BY <2>1 DEF Client
    <2>5. Took(Got(s, id), k)
      BY <2>2, <2>3 DEF Took, n
    <2> QED  BY <2>2, <2>3, <2>4, <2>5 DEF n
  <1> QED  BY <1>1, <1>2

LEMMA EofGood ==
    ASSUME NEW s \in Client, NEW k, NEW c \in BOOLEAN,
           Took(s, k), s.yielded \subseteq s.seen, s.tries <= Budget,
           s.done = 0 => s.tries + 1 <= s.cuts \/ (s.tries = s.cuts /\ c)
    PROVE  Good(Eof(s), k, c)
  <1> DEFINE p == IF s.done # 0 THEN "complete"
                  ELSE IF s.tries < Budget THEN "off" ELSE "incomplete"
             n == IF s.tries < Budget THEN s.tries + 1 ELSE s.tries
             e == Eof(s)
  <1>1. Eof(s) = [s EXCEPT !.pc = p, !.tries = n]
    BY DEF Eof, Client
  <1>2. s.tries \in Nat /\ s.cuts \in Nat /\ Budget \in Nat
    BY StreamAssumption DEF Client
  <1>3. /\ p \in {"complete", "off", "incomplete"} /\ n \in Nat /\ n <= Budget
        /\ p = "incomplete" => n = Budget /\ s.done = 0
        /\ s.done = 0 => p \in {"off", "incomplete"}
        /\ p = "off" => n = s.tries + 1
        /\ p = "incomplete" => n = s.tries
    BY <1>2
  <1> HIDE DEF p, n
  <1>4. /\ e.pc = p /\ e.tries = n /\ e.last = s.last /\ e.seen = s.seen /\ e.done = s.done
        /\ e.yielded = s.yielded /\ e.cuts = s.cuts
    BY <1>1 DEF Client
  <1> HIDE DEF e
  <1>5. Took(e, k)
    BY <1>4 DEF Took
  <1>6. Placed(e, k, c)
    BY <1>3, <1>4 DEF Placed
  <1>7. Spent(e, k, c)
    <2>1. Ends(e) = IF p = "incomplete" THEN n + 1 ELSE n
      BY <1>4 DEF Ends
    <2>2. s.done = 0 => Ends(e) = s.tries + 1
      BY <1>3, <2>1
    <2> QED  BY <1>2, <1>3, <1>4, <2>2 DEF Spent
  <1> QED  BY <1>5, <1>6, <1>7 DEF Good, e

(* What the steps of a client start from.                                   *)
Calm == IInv /\ XInv /\ notice.pc = "none" /\ ~crashed

LEMMA CalmFacts ==
    ASSUME Calm, NEW r \in Readers
    PROVE  /\ JournalOK /\ StreamsOK /\ PhaseOK /\ BridgeOK /\ kinds \in Seq(Kinds)
           /\ reader[r] \in Client /\ Good(reader[r], kinds, Closed)
           /\ Closed \in BOOLEAN /\ Len(kinds) \in Nat /\ Len(journal) \in Nat
  BY DEF Calm, IInv, XInv, JournalOK, Closed

LEMMA ConnectGood ==
    ASSUME Calm, NEW r \in Readers, Connect(r)
    PROVE  \E n : SetReader(r, n) /\ Good(n, kinds, Closed)
  <1> DEFINE s == reader[r]
             T == SubSeq(journal, ReplayFrom(s.last), Len(journal))
             c == journal # <<>> /\ kinds[Last(journal)] = "closed"
             n == [s EXCEPT !.pc = "replaying", !.yielded = {}, !.from = s.last,
                            !.todo = T, !.closes = c]
  <1>1. /\ JournalOK /\ PhaseOK /\ s \in Client /\ Good(s, kinds, Closed)
        /\ Closed \in BOOLEAN /\ Len(kinds) \in Nat /\ Len(journal) \in Nat
    BY CalmFacts
  <1>2. s.last \in Nat
    BY <1>1 DEF Client
  <1>3. /\ T \in Seq(Positive)
        /\ \A i \in 1..Len(T) : T[i] \in 1..Len(journal)
        /\ \A j \in (s.last + 1)..Len(journal) : \E i \in 1..Len(T) : T[i] = j
    BY <1>1, <1>2, RestOfJournal
  <1>4. SetReader(r, n) /\ s.pc = "off" /\ Len(kinds) > 0
    BY DEF Connect, Published
  <1>5. c \in BOOLEAN /\ {} \in SUBSET Nat
    OBVIOUS
  <1>6. /\ \A i \in 1..Len(journal) : journal[i] = i
        /\ Len(journal) <= Len(kinds) /\ Len(journal) >= Len(kinds) - 1
    BY <1>1 DEF JournalOK, Published, PhaseOK
  <1>7. c => Len(journal) > 0 /\ kinds[Len(journal)] = "closed"
    <2> SUFFICES ASSUME c PROVE Len(journal) > 0 /\ kinds[Len(journal)] = "closed"
      OBVIOUS
    <2>1. journal \in Seq(Positive) /\ journal # <<>>
      BY <1>1 DEF JournalOK
    <2>2. Len(journal) > 0
      BY <2>1
    <2>3. Last(journal) = Len(journal)
      BY <1>1, <1>6, <2>2 DEF Last
    <2> QED  BY <2>2, <2>3
  <1> HIDE DEF T, c
  <1>8. /\ n.pc = "replaying" /\ n.yielded = {} /\ n.todo = T /\ n.last = s.last /\ n.seen = s.seen
        /\ n.done = s.done /\ n.tries = s.tries /\ n.cuts = s.cuts
    BY <1>1 DEF Client
  <1>9. n.closes = c
    BY <1>1 DEF Client
  <1> HIDE DEF n
  <1>10. Took(n, kinds)
    BY <1>1, <1>8 DEF Good, Took
  <1>11. ASSUME s.done = 0, NEW j \in 1..Len(journal), kinds[j] \in Terminals,
                \A i \in 1..Len(kinds) : i >= j => kinds[i] \in Terminals
         PROVE  OutcomeAhead(n, kinds)
    <2>1. s.last \in 1..Len(kinds) \/ s.last = 0
      BY <1>1 DEF Good, Took
    <2>2. s.last # 0 => kinds[s.last] \notin Terminals
      BY <1>1, <1>11 DEF Good, Took
    <2>3. s.last < j
      BY <1>1, <1>2, <1>11, <2>1, <2>2
    <2>4. j \in (s.last + 1)..Len(journal)
      BY <1>1, <1>2, <2>3
    <2>5. PICK i \in 1..Len(T) : T[i] = j
      BY <1>3, <2>4
    <2> QED  BY <1>8, <1>11, <2>5 DEF OutcomeAhead
  <1>12. ASSUME Closed, s.done = 0 PROVE OutcomeAhead(n, kinds)
    <2> DEFINE j == Len(kinds) - 1
    <2>1. kinds[j] = "outcome" /\ kinds[j + 1] = "closed" /\ j > 0 /\ j \in Int
      BY <1>1, <1>12 DEF PhaseOK
    <2>2. j \in 1..Len(journal)
      BY <1>1, <1>6, <2>1
    <2>3. \A i \in 1..Len(kinds) : i >= j => i = j \/ i = j + 1
      BY <1>1
    <2> HIDE DEF j
    <2> QED  BY <1>11, <1>12, <2>1, <2>2, <2>3 DEF Terminals
  <1>13. ASSUME c, s.done = 0 PROVE OutcomeAhead(n, kinds)
    <2>1. Len(journal) \in 1..Len(kinds)
      BY <1>1, <1>6, <1>7, <1>13
    <2>2. Closed
      BY <1>1, <1>7, <1>13, <2>1 DEF PhaseOK
    <2> QED  BY <1>12, <1>13, <2>2
  <1>14. Placed(n, kinds, Closed)
    <2>1. \A i \in 1..Len(n.todo) : n.todo[i] \in 1..Len(kinds)
      BY <1>1, <1>3, <1>6, <1>8
    <2> QED  BY <1>4, <1>8, <1>9, <1>13, <2>1 DEF Placed
  <1>15. Spent(n, kinds, Closed)
    <2>1. Ends(s) = s.tries /\ Ends(n) = s.tries
      BY <1>4, <1>8 DEF Ends
    <2> QED  BY <1>1, <1>4, <1>8, <1>12, <2>1 DEF Good, Spent
  <1> QED  BY <1>4, <1>10, <1>14, <1>15 DEF Good

LEMMA ReplayGood ==
    ASSUME Calm, NEW r \in Readers, Replay(r)
    PROVE  \E n : SetReader(r, n) /\ Good(n, kinds, Closed)
  <1> DEFINE s == reader[r]
             h == Head(s.todo)
             T == Tail(s.todo)
             y == s.yielded \union {h}
             a == [s EXCEPT !.todo = T, !.from = h, !.yielded = y]
             n == Got(a, h)
  <1>1. s \in Client /\ Good(s, kinds, Closed) /\ Len(kinds) \in Nat
    BY CalmFacts
  <1>2. s.pc = "replaying" /\ s.todo # <<>> /\ SetReader(r, n)
    BY <1>1 DEF Replay, Client
  <1>3. /\ s.todo \in Seq(Positive) /\ h \in Positive /\ h = s.todo[1] /\ T \in Seq(Positive)
        /\ Len(T) = Len(s.todo) - 1 /\ Len(s.todo) \in Positive
        /\ \A i \in 1..Len(T) : T[i] = s.todo[i + 1]
    BY <1>1, <1>2 DEF Client, Positive
  <1>4. h \in 1..Len(kinds) /\ \A i \in 1..Len(s.todo) : s.todo[i] \in 1..Len(kinds)
    <2>1. 1 \in 1..Len(s.todo)
      BY <1>3 DEF Positive
    <2> QED  BY <1>1, <1>2, <1>3, <2>1 DEF Good, Placed
  <1>5. y \in SUBSET Nat /\ h \in Nat
    BY <1>1, <1>3 DEF Client, Positive
  <1> HIDE DEF h, T, y
  <1>6. a \in Client
    BY <1>1, <1>3, <1>5 DEF Client
  <1>7. /\ a.pc = "replaying" /\ a.yielded = y /\ a.from = h /\ a.todo = T
        /\ a.last = s.last /\ a.seen = s.seen /\ a.done = s.done
        /\ a.tries = s.tries /\ a.cuts = s.cuts
    BY <1>1, <1>2 DEF Client
  <1>8. a.closes = s.closes
    BY <1>1 DEF Client
  <1> HIDE DEF a
  <1>9. Took(a, kinds)
    BY <1>1, <1>7 DEF Good, Took
  <1>10. /\ n.pc = "replaying" /\ n.todo = T /\ n.yielded = y
    BY <1>3, <1>6, <1>7, GotOK
  <1>11. /\ Took(n, kinds) /\ h \in n.seen /\ s.seen \subseteq n.seen
         /\ kinds[h] \in Terminals => n.done # 0
         /\ n.done = 0 => s.done = 0
         /\ n.tries = s.tries /\ n.cuts = s.cuts /\ n.closes = s.closes
    BY <1>1, <1>4, <1>6, <1>7, <1>8, <1>9, GotTook
  <1> HIDE DEF n
  <1>12. ASSUME n.done = 0, OutcomeAhead(s, kinds) PROVE OutcomeAhead(n, kinds)
    <2>1. PICK i \in 1..Len(s.todo) : kinds[s.todo[i]] \in Terminals
      BY <1>12 DEF OutcomeAhead
    <2>2. i # 1
      BY <1>3, <1>11, <1>12, <2>1
    <2>3. i - 1 \in 1..Len(T) /\ (i - 1) + 1 = i
      BY <1>3, <2>2 DEF Positive
    <2>4. T[i - 1] = s.todo[i]
      BY <1>3, <2>3
    <2> QED  BY <1>10, <2>1, <2>3, <2>4 DEF OutcomeAhead
  <1>13. Placed(n, kinds, Closed)
    <2>1. y \subseteq n.seen
      BY <1>1, <1>11 DEF Good, Placed, y
    <2>2. ASSUME NEW i \in 1..Len(T) PROVE T[i] \in 1..Len(kinds)
      <3>1. i + 1 \in 1..Len(s.todo)
        BY <1>3 DEF Positive
      <3> QED  BY <1>3, <1>4, <3>1
    <2> QED  BY <1>1, <1>2, <1>10, <1>11, <1>12, <2>1, <2>2 DEF Good, Placed
  <1>14. Spent(n, kinds, Closed)
    <2>1. Ends(s) = s.tries /\ Ends(n) = s.tries
      BY <1>2, <1>10, <1>11 DEF Ends
    <2> QED  BY <1>1, <1>2, <1>10, <1>11, <1>12, <2>1 DEF Good, Spent
  <1> QED  BY <1>2, <1>11, <1>13, <1>14 DEF Good

LEMMA ReplayedGood ==
    ASSUME Calm, NEW r \in Readers, Replayed(r)
    PROVE  \E n : SetReader(r, n) /\ Good(n, kinds, Closed)
  <1> DEFINE s == reader[r]
             e == IF current = 0 THEN "none" ELSE IF streams[current].ended THEN "yes" ELSE "no"
             n == [s EXCEPT !.pc = "checking", !.ended = e]
  <1>1. s \in Client /\ Good(s, kinds, Closed) /\ Closed \in BOOLEAN /\ BridgeOK /\ StreamsOK
    BY CalmFacts
  <1>2. s.pc = "replaying" /\ s.todo = <<>>
    BY DEF Replayed
  <1>3. ~OutcomeAhead(s, kinds)
    BY <1>2 DEF OutcomeAhead
  <1>4. s.tries \in Nat /\ s.cuts \in Nat /\ s.tries <= Budget /\ (s.done = 0 => s.tries <= s.cuts)
    BY <1>1, <1>2, <1>3 DEF Client, Good, Spent, Ends
  <1>5. CASE s.closes
    <2>1. s.done # 0
      BY <1>1, <1>2, <1>3, <1>5 DEF Good, Placed
    <2>2. Good(Eof(s), kinds, Closed)
      BY <1>1, <1>4, <2>1, EofGood DEF Good, Placed
    <2>3. SetReader(r, Eof(s))
      BY <1>5 DEF Replayed
    <2> QED  BY <2>2, <2>3
  <1>6. CASE ~s.closes
    <2>1. SetReader(r, n)
      BY <1>6 DEF Replayed
    <2>2. e # "no" => Closed
      <3>1. CASE current = 0
        <4>1. Len(streams) > 0 /\ Len(streams) \in Nat
          BY <1>1, <1>2 DEF Good, Placed, BridgeOK, StreamsOK
        <4>2. streams[1].ended
          BY <1>1, <3>1, <4>1 DEF BridgeOK
        <4> QED  BY <1>1, <4>1, <4>2 DEF BridgeOK
      <3>2. CASE current # 0
        BY <1>1, <3>2 DEF BridgeOK, StreamsOK
      <3> QED  BY <3>1, <3>2
    <2> HIDE DEF e
    <2>3. /\ n.pc = "checking" /\ n.ended = e /\ n.yielded = s.yielded /\ n.last = s.last
          /\ n.seen = s.seen /\ n.done = s.done /\ n.tries = s.tries /\ n.cuts = s.cuts
      BY <1>1 DEF Client
    <2> HIDE DEF n
    <2>4. Took(n, kinds) /\ Placed(n, kinds, Closed)
      BY <1>1, <2>2, <2>3 DEF Good, Took, Placed
    <2>5. Spent(n, kinds, Closed)
      BY <1>4, <2>3 DEF Spent, Ends
    <2> QED  BY <2>1, <2>4, <2>5 DEF Good
  <1> QED  BY <1>5, <1>6

(* The end of a connection that replayed all of its history.                *)
LEMMA EndGood ==
    ASSUME Calm, NEW r \in Readers, reader[r].pc \in {"checking", "live"}, Closed
    PROVE  Good(Eof(reader[r]), kinds, Closed)
  <1> DEFINE s == reader[r]
  <1>1. s \in Client /\ Good(s, kinds, Closed) /\ Closed \in BOOLEAN
    BY CalmFacts
  <1>2. s.tries \in Nat /\ s.cuts \in Nat /\ s.tries <= Budget /\ (s.done = 0 => s.tries <= s.cuts)
    BY <1>1 DEF Client, Good, Spent, Ends
  <1>3. Took(s, kinds) /\ s.yielded \subseteq s.seen
    BY <1>1 DEF Good, Placed
  <1>4. s.done = 0 => s.tries + 1 <= s.cuts \/ (s.tries = s.cuts /\ Closed)
    BY <1>2
  <1> QED  BY <1>1, <1>2, <1>3, <1>4, EofGood

LEMMA AttachGood ==
    ASSUME Calm, NEW r \in Readers, Attach(r)
    PROVE  \E n : SetReader(r, n) /\ Good(n, kinds, Closed)
  <1> DEFINE s == reader[r]
             at == ResumeAt(Opened[Index], s.from)
             d == s.behind \/ Opened[Index].lo > s.from + 1
             n == [s EXCEPT !.pc = "live", !.stream = Index, !.from = at, !.behind = d]
  <1>1. s \in Client /\ Good(s, kinds, Closed)
    BY CalmFacts
  <1>2. s.pc = "checking" /\ SetReader(r, n)
    BY <1>1 DEF Attach, Client
  <1> HIDE DEF at, d
  <1>3. /\ n.pc = "live" /\ n.yielded = s.yielded /\ n.last = s.last
        /\ n.seen = s.seen /\ n.done = s.done /\ n.tries = s.tries /\ n.cuts = s.cuts
    BY <1>1 DEF Client
  <1> HIDE DEF n
  <1>4. Took(n, kinds) /\ Placed(n, kinds, Closed)
    BY <1>1, <1>3 DEF Good, Took, Placed
  <1>5. Spent(n, kinds, Closed)
    BY <1>1, <1>2, <1>3 DEF Good, Spent, Ends
  <1> QED  BY <1>2, <1>4, <1>5 DEF Good

LEMMA FollowGood ==
    ASSUME Calm, NEW r \in Readers, Follow(r)
    PROVE  \E n : SetReader(r, n) /\ Good(n, kinds, Closed)
  <1> DEFINE s == reader[r]
             b == streams[s.stream]
             id == IF s.from < b.lo THEN b.lo ELSE s.from
             d == s.behind \/ s.from < b.lo
             y == s.yielded \union {id}
             a == [s EXCEPT !.from = id + 1, !.behind = d, !.yielded = y]
             n == IF id \in s.yielded THEN a ELSE Got(a, id)
  <1>1. /\ s \in Client /\ Good(s, kinds, Closed) /\ BridgeOK /\ StreamsOK
        /\ Len(kinds) \in Nat
    BY CalmFacts
  <1>2. s.pc = "live" /\ SetReader(r, n) /\ id <= b.hi
    BY <1>1 DEF Follow, Client
  <1>3. s.stream \in 1..Len(streams) /\ s.from \in Nat
    BY <1>1, <1>2 DEF Calm, IInv, ReaderOK, Client
  <1>4. b \in Stream /\ b.hi <= Len(kinds)
    BY <1>1, <1>3 DEF StreamsOK, BridgeOK
  <1>5. b.lo \in Nat /\ b.lo > 0 /\ b.hi \in Nat
    BY <1>4 DEF Stream, Positive
  <1> HIDE DEF b
  <1>6. id \in 1..Len(kinds)
    BY <1>1, <1>2, <1>3, <1>4, <1>5
  <1>7. id \in Positive /\ d \in BOOLEAN /\ id + 1 \in Nat /\ id \in Nat
    BY <1>3, <1>6 DEF Positive
  <1> HIDE DEF id, d
  <1>8. y \in SUBSET Nat
    BY <1>1, <1>7 DEF Client
  <1>9. y \subseteq s.seen \union {id}
    BY <1>1 DEF Good, Placed
  <1>10. id \in s.yielded => y \subseteq s.seen
    BY <1>1 DEF Good, Placed
  <1> HIDE DEF y
  <1>11. /\ a \in Client /\ a.pc = "live" /\ a.yielded = y /\ a.last = s.last
         /\ a.seen = s.seen /\ a.done = s.done /\ a.tries = s.tries /\ a.cuts = s.cuts
    BY <1>1, <1>2, <1>7, <1>8 DEF Client
  <1> HIDE DEF a
  <1>12. Took(a, kinds)
    BY <1>1, <1>11 DEF Good, Took
  <1>13. /\ n.pc = "live" /\ n.yielded = y /\ n.tries = s.tries /\ n.cuts = s.cuts
         /\ n.done = 0 => s.done = 0
         /\ Took(n, kinds) /\ y \subseteq n.seen
    <2>1. CASE id \in s.yielded
      BY <1>10, <1>11, <1>12, <2>1
    <2>2. CASE id \notin s.yielded
      <3>1. n = Got(a, id)
        BY <2>2
      <3> HIDE DEF n
      <3>2. n.pc = "live" /\ n.yielded = y
        BY <1>7, <1>11, <3>1, GotOK
      <3>3. /\ Took(n, kinds) /\ id \in n.seen /\ s.seen \subseteq n.seen
            /\ n.done = 0 => s.done = 0
            /\ n.tries = s.tries /\ n.cuts = s.cuts
        BY <1>1, <1>6, <1>11, <1>12, <3>1, GotTook
      <3> QED  BY <1>9, <3>2, <3>3
    <2> QED  BY <2>1, <2>2
  <1> HIDE DEF n
  <1>14. Placed(n, kinds, Closed)
    BY <1>13 DEF Placed
  <1>15. Spent(n, kinds, Closed)
    BY <1>1, <1>2, <1>13 DEF Good, Spent, Ends
  <1> QED  BY <1>2, <1>13, <1>14, <1>15 DEF Good

LEMMA StopGood ==
    ASSUME Calm, NEW r \in Readers, Stop(r)
    PROVE  \E n : SetReader(r, n) /\ Good(n, kinds, Closed)
  <1> DEFINE s == reader[r]
             n == [s EXCEPT !.pc = "complete"]
  <1>1. s \in Client /\ Good(s, kinds, Closed)
    BY CalmFacts
  <1>2. SetReader(r, n) /\ s.done # 0
    BY DEF Stop
  <1>3. /\ n.pc = "complete" /\ n.yielded = s.yielded /\ n.last = s.last /\ n.seen = s.seen
        /\ n.done = s.done /\ n.tries = s.tries
    BY <1>1 DEF Client
  <1> HIDE DEF n
  <1> QED  BY <1>1, <1>2, <1>3 DEF Good, Took, Placed, Spent

LEMMA CutGood ==
    ASSUME Calm, NEW r \in Readers, Cut(r)
    PROVE  \E n : SetReader(r, n) /\ Good(n, kinds, Closed)
  <1> DEFINE s == reader[r]
             m == s.cuts + 1
             a == [s EXCEPT !.cuts = m]
  <1>1. s \in Client /\ Good(s, kinds, Closed) /\ Closed \in BOOLEAN
    BY CalmFacts
  <1>2. SetReader(r, Eof(a)) /\ s.pc \in {"replaying", "checking", "live"}
    BY DEF Cut, Connected
  <1>3. s.tries \in Nat /\ s.cuts \in Nat
    BY <1>1 DEF Client
  <1>4. /\ s.tries <= Budget
        /\ s.done = 0 => s.tries <= s.cuts \/ (s.tries = s.cuts + 1 /\ Closed)
    BY <1>1, <1>2 DEF Good, Spent, Ends
  <1>5. /\ a \in Client /\ a.yielded = s.yielded /\ a.last = s.last /\ a.seen = s.seen
        /\ a.done = s.done /\ a.tries = s.tries /\ a.cuts = m
    <2>1. m \in Nat
      BY <1>3
    <2> HIDE DEF m
    <2>2. a \in Client
      BY <1>1, <2>1 DEF Client
    <2> QED  BY <1>1, <2>2 DEF Client
  <1> HIDE DEF a
  <1>6. Took(a, kinds) /\ a.yielded \subseteq a.seen
    BY <1>1, <1>5 DEF Good, Took, Placed
  <1>7. a.done = 0 => a.tries + 1 <= a.cuts \/ (a.tries = a.cuts /\ Closed)
    BY <1>3, <1>4, <1>5
  <1>8. Good(Eof(a), kinds, Closed)
    BY <1>1, <1>4, <1>5, <1>6, <1>7, EofGood
  <1> QED  BY <1>2, <1>8

(* The clients that do nothing.                                             *)
LEMMA OthersGood ==
    ASSUME Calm, kinds' \in Seq(Kinds), Extends(kinds, kinds'), Closed => Closed',
           NEW q \in Readers, reader'[q] = reader[q]
    PROVE  Good(reader'[q], kinds', Closed')
  <1>1. /\ kinds \in Seq(Kinds) /\ reader[q] \in Client /\ Good(reader[q], kinds, Closed)
        /\ Closed \in BOOLEAN
    BY CalmFacts
  <1>2. Closed' \in BOOLEAN
    BY DEF Closed
  <1> QED  BY <1>1, <1>2, Rests

(* Before run.closed there is at most one stream, and no cleanup to come.   *)
LEMMA OneStream ==
    ASSUME Calm, ~Closed
    PROVE  timer = 0 /\ \A i \in 1..Len(streams) : i = current
  BY DEF Calm, XInv, BridgeOK

LEMMA PublishGood ==
    ASSUME Calm, NEW kind \in Kinds, NEW pc, Publish(kind, pc),
           \/ producer.pc = "running" /\ kind = "delta" /\ pc = "running"
           \/ producer.pc = "settled" /\ kind = "outcome" /\ pc = "reported"
           \/ producer.pc = "reported" /\ kind = "closed" /\ pc = "closing"
    PROVE  /\ PhaseOK' /\ BridgeOK' /\ kinds' \in Seq(Kinds) /\ Extends(kinds, kinds')
           /\ Closed => Closed'
  <1> DEFINE P == Len(kinds)
             b == Opened[Index]
             n == With(b, P + 1, kind)
  <1>1. JournalOK /\ StreamsOK /\ PhaseOK /\ BridgeOK /\ kinds \in Seq(Kinds) /\ P \in Nat
    BY DEF Calm, IInv, XInv
  <1>2. /\ ~Closed /\ producer'.pc = pc /\ (Closed' <=> kind = "closed") /\ pc # "dead"
    BY <1>1 DEF Closed, Publish, JournalOK, Producer
  <1>3. /\ kinds' = Append(kinds, kind) /\ current' = Index
        /\ streams' = [Opened EXCEPT ![Index] = n]
        /\ timer' = IF kind = "closed" /\ timer = 0 THEN Index ELSE timer
    BY DEF Publish, Bridged, Published
  <1>4. /\ kinds' \in Seq(Kinds) /\ Len(kinds') = P + 1 /\ kinds'[P + 1] = kind
        /\ \A i \in 1..P : kinds'[i] = kinds[i]
    BY <1>1, <1>3
  <1>5. Extends(kinds, kinds')
    BY <1>1, <1>4 DEF Extends
  <1>6. PhaseOK'
    <2>1. \A i \in 1..P : kinds[i] # "closed"
      BY <1>1, <1>2 DEF PhaseOK
    <2>2. \A i \in 1..(P + 1) : i = P + 1 \/ i \in 1..P
      BY <1>1
    <2>3. \A i \in 1..Len(kinds)' : kinds'[i] = "closed" => i = Len(kinds)' /\ Closed'
      BY <1>2, <1>4, <2>1, <2>2
    <2>4. CASE kind = "delta"
      <3>1. producer'.pc = "running" /\ ~Closed'
        BY <1>2, <2>4
      <3>2. \A i \in 1..P : kinds[i] \notin Terminals
        BY <1>1, <2>4 DEF PhaseOK
      <3>3. \A i \in 1..Len(kinds)' : kinds'[i] \notin Terminals
        BY <1>4, <2>2, <2>4, <3>2 DEF Terminals
      <3> QED  BY <2>3, <3>1, <3>3 DEF PhaseOK
    <2>5. CASE kind = "outcome"
      <3>1. producer'.pc = "reported" /\ ~Closed'
        BY <1>2, <2>5
      <3> QED  BY <1>1, <1>4, <2>3, <2>5, <3>1 DEF PhaseOK
    <2>6. CASE kind = "closed"
      <3>1. producer'.pc = "closing" /\ producer.pc = "reported"
        BY <1>2, <2>6
      <3>2. P > 0 /\ kinds[P] = "outcome"
        BY <1>1, <3>1 DEF PhaseOK
      <3>3. Len(kinds)' > 1 /\ (P + 1) - 1 = P /\ kinds'[P] = "outcome"
        BY <1>1, <1>4, <3>2
      <3> QED  BY <1>4, <2>3, <2>6, <3>1, <3>3 DEF PhaseOK
    <2> QED  BY <2>4, <2>5, <2>6
  <1>7. BridgeOK'
    <2>1. /\ Opened \in Seq(Stream) /\ Index \in 1..Len(Opened) /\ b \in Stream
          /\ Len(Opened) \in Nat
      BY <1>1, OpenedOK
    <2>2. timer = 0 /\ \A i \in 1..Len(streams) : i = current
      BY <1>2, OneStream
    <2>3. \A i \in 1..Len(Opened) : i = Index
      <3>1. CASE current = 0
        <4>1. Len(streams) = 0
          BY <1>1, <2>2, <3>1 DEF StreamsOK
        <4>2. Len(Opened) = 1 /\ Index = 1
          BY <1>1, <3>1, <4>1 DEF Opened, Index, StreamsOK
        <4> QED  BY <4>2
      <3>2. CASE current # 0
        BY <2>2, <3>2 DEF Opened, Index
      <3> QED  BY <3>1, <3>2
    <2>4. ~b.ended
      <3>1. CASE current = 0
        <4>1. Opened = Append(streams, [lo |-> Published + 1, hi |-> Published, ended |-> FALSE])
              /\ Index = Len(streams) + 1
          BY <3>1 DEF Opened, Index
        <4> QED  BY <1>1, <4>1 DEF StreamsOK
      <3>2. CASE current # 0
        BY <1>1, <1>2, <3>2 DEF Opened, Index, BridgeOK, StreamsOK
      <3> QED  BY <3>1, <3>2
    <2>5. n.hi = P + 1 /\ (n.ended <=> kind = "closed")
      BY <2>4 DEF With
    <2> HIDE DEF n, b
    <2>6. Len(streams') = Len(Opened) /\ streams'[Index] = n
      BY <1>3, <2>1
    <2>7. \A i \in 1..Len(streams') : i = Index /\ streams'[i] = n
      BY <2>3, <2>6
    <2>8. timer' # 0 => kind = "closed" /\ timer' = Index
      BY <1>3, <2>2
    <2>9. Len(streams') > 0
      BY <2>1, <2>6
    <2>10. /\ \A i \in 1..Len(streams)' : /\ streams'[i].hi <= Len(kinds)'
                                          /\ streams'[i].ended => Closed'
                                          /\ i # current' => streams'[i].ended
           /\ timer' # 0 => timer' \in 1..Len(streams)' /\ streams'[timer'].ended
      BY <1>1, <1>2, <1>3, <1>4, <2>1, <2>5, <2>6, <2>7, <2>8
    <2> QED  BY <2>9, <2>10 DEF BridgeOK
  <1> QED  BY <1>2, <1>4, <1>5, <1>6, <1>7

(* The bridge with a stream for the run.                                    *)
LEMMA OpenedGood ==
    ASSUME Calm
    PROVE  /\ \A i \in 1..Len(Opened) : /\ Opened[i].hi <= Len(kinds)
                                        /\ Opened[i].ended => Closed
                                        /\ i # Index => Opened[i].ended
           /\ timer # 0 => timer \in 1..Len(Opened) /\ Opened[timer].ended
           /\ Len(Opened) > 0
  <1> DEFINE new == [lo |-> Published + 1, hi |-> Published, ended |-> FALSE]
  <1>1. JournalOK /\ StreamsOK /\ BridgeOK /\ Len(kinds) \in Nat /\ Published = Len(kinds)
    BY DEF Calm, IInv, XInv, JournalOK, Published
  <1>2. streams \in Seq(Stream) /\ Len(streams) \in Nat /\ current \in 0..Len(streams)
    BY <1>1 DEF StreamsOK
  <1>3. new \in Stream /\ new.hi = Len(kinds) /\ ~new.ended
    BY <1>1 DEF Stream, Positive
  <1> HIDE DEF new
  <1>4. CASE current = 0
    <2>1. Opened = Append(streams, new) /\ Index = Len(streams) + 1
      BY <1>4 DEF Opened, Index, new
    <2>2. /\ Len(Opened) = Len(streams) + 1 /\ Opened[Len(streams) + 1] = new
          /\ \A i \in 1..Len(streams) : Opened[i] = streams[i]
      BY <1>2, <1>3, <2>1
    <2>3. \A i \in 1..Len(Opened) : i = Index \/ i \in 1..Len(streams)
      BY <1>2, <2>1, <2>2
    <2>4. \A i \in 1..Len(streams) : /\ Opened[i].hi <= Len(kinds) /\ Opened[i].ended
                                     /\ Closed
      BY <1>1, <1>4, <2>2 DEF BridgeOK
    <2>5. Opened[Index].hi <= Len(kinds) /\ ~Opened[Index].ended
      BY <1>1, <1>3, <2>1, <2>2
    <2>6. timer # 0 => timer \in 1..Len(streams) /\ timer \in 1..Len(Opened)
      BY <1>1, <1>2, <2>2 DEF BridgeOK
    <2>7. Len(Opened) > 0
      BY <1>2, <2>2
    <2> QED  BY <2>3, <2>4, <2>5, <2>6, <2>7
  <1>5. CASE current # 0
    <2>1. Opened = streams /\ Index = current /\ Len(streams) > 0
      BY <1>2, <1>5 DEF Opened, Index
    <2> QED  BY <1>1, <2>1 DEF BridgeOK
  <1> QED  BY <1>4, <1>5

LEMMA AttachBridge ==
    ASSUME Calm, NEW r \in Readers, Attach(r)
    PROVE  BridgeOK'
  <1>1. streams' = Opened /\ current' = Index /\ UNCHANGED <<kinds, timer, producer>>
    BY DEF Attach, publisherVars
  <1>2. Closed' = Closed
    BY <1>1 DEF Closed
  <1> QED  BY <1>1, <1>2, OpenedGood DEF BridgeOK

LEMMA EndBridge ==
    ASSUME Calm, End
    PROVE  Closed /\ PhaseOK' /\ BridgeOK'
  <1> DEFINE n == [Opened[Index] EXCEPT !.ended = TRUE]
  <1>1. JournalOK /\ StreamsOK /\ PhaseOK
    BY DEF Calm, IInv, XInv
  <1>2. /\ producer.pc = "closing" /\ streams' = [Opened EXCEPT ![Index] = n] /\ current' = Index
        /\ timer' = IF timer = 0 THEN Index ELSE timer
        /\ UNCHANGED kinds
    BY DEF End
  <1>3. producer'.pc = "ended"
    BY <1>1 DEF End, JournalOK, Producer
  <1>4. Closed /\ Closed'
    BY <1>2, <1>3 DEF Closed
  <1>5. PhaseOK'
    BY <1>1, <1>2, <1>3, <1>4 DEF PhaseOK
  <1>6. Opened \in Seq(Stream) /\ Index \in 1..Len(Opened) /\ Opened[Index] \in Stream
    BY <1>1, OpenedOK
  <1>7. n.ended /\ n.hi = Opened[Index].hi
    BY <1>6 DEF Stream
  <1> HIDE DEF n
  <1>8. /\ Len(streams') = Len(Opened) /\ streams'[Index] = n
        /\ \A i \in 1..Len(Opened) : i # Index => streams'[i] = Opened[i]
    BY <1>2, <1>6
  <1>9. \A i \in 1..Len(streams)' : streams'[i].hi <= Len(kinds)' /\ streams'[i].ended
    BY <1>2, <1>6, <1>7, <1>8, OpenedGood
  <1>10. timer' # 0 => timer' \in 1..Len(streams)' /\ streams'[timer'].ended
    BY <1>2, <1>6, <1>7, <1>8, OpenedGood
  <1>11. Len(streams)' > 0
    BY <1>8, OpenedGood
  <1> QED  BY <1>4, <1>5, <1>9, <1>10, <1>11 DEF BridgeOK

LEMMA XInitOK ==
    Init => XInv
  <1> SUFFICES ASSUME Init PROVE XInv
    OBVIOUS
  <1>1. kinds = <<>> /\ streams = <<>> /\ timer = 0 /\ producer.pc = "running"
        /\ reader = [r \in Readers |-> Off]
    BY DEF Init
  <1>2. PhaseOK /\ BridgeOK
    BY <1>1 DEF PhaseOK, BridgeOK, Closed
  <1>3. Good(Off, kinds, Closed)
    BY StreamAssumption DEF Off, Good, Took, Placed, Spent, Ends
  <1> QED  BY <1>1, <1>2, <1>3 DEF XInv

LEMMA ReaderGood ==
    ASSUME Calm, NEW r \in Readers, ReaderStep(r) \/ Stop(r) \/ Cut(r)
    PROVE  XInv'
  <1>1. UNCHANGED <<kinds, producer, notice, crashed>>
    BY DEF ReaderStep, Stop, Cut, Connect, Replay, Replayed, EndReplay, Attach, Follow, StreamEnds,
           bridgeVars, publisherVars
  <1>2. Closed' = Closed /\ PhaseOK /\ BridgeOK /\ kinds \in Seq(Kinds) /\ Len(kinds) \in Nat
    BY <1>1, CalmFacts DEF Closed
  <1>3. PhaseOK'
    BY <1>1, <1>2 DEF PhaseOK
  <1>4. BridgeOK'
    <2>1. CASE Attach(r)
      BY <2>1, AttachBridge
    <2>2. CASE ~Attach(r)
      <3>1. UNCHANGED <<streams, current, timer>>
        BY <2>2 DEF ReaderStep, Stop, Cut, Connect, Replay, Replayed, EndReplay, Follow,
                    StreamEnds, bridgeVars
      <3> QED  BY <1>1, <1>2, <3>1 DEF BridgeOK
    <2> QED  BY <2>1, <2>2
  <1>5. \E n : SetReader(r, n) /\ Good(n, kinds, Closed)
    <2>1. CASE Connect(r)
      BY <2>1, ConnectGood
    <2>2. CASE Replay(r)
      BY <2>2, ReplayGood
    <2>3. CASE Replayed(r)
      BY <2>3, ReplayedGood
    <2>4. CASE EndReplay(r)
      <3>1. reader[r].pc = "checking" /\ reader[r].ended # "no" /\ SetReader(r, Eof(reader[r]))
        BY <2>4 DEF EndReplay, Over
      <3>2. Closed
        BY <3>1, CalmFacts DEF Good, Placed
      <3> QED  BY <3>1, <3>2, EndGood
    <2>5. CASE Attach(r)
      BY <2>5, AttachGood
    <2>6. CASE Follow(r)
      BY <2>6, FollowGood
    <2>7. CASE StreamEnds(r)
      <3>1. /\ reader[r].pc = "live" /\ streams[reader[r].stream].ended
            /\ SetReader(r, Eof(reader[r]))
        BY <2>7 DEF StreamEnds
      <3>2. reader[r].stream \in 1..Len(streams)
        BY <3>1 DEF Calm, IInv, ReaderOK
      <3>3. Closed
        BY <1>2, <3>1, <3>2 DEF BridgeOK
      <3> QED  BY <3>1, <3>3, EndGood
    <2>8. CASE Stop(r)
      BY <2>8, StopGood
    <2>9. CASE Cut(r)
      BY <2>9, CutGood
    <2> QED  BY <2>1, <2>2, <2>3, <2>4, <2>5, <2>6, <2>7, <2>8, <2>9 DEF ReaderStep
  <1>6. PICK n : SetReader(r, n) /\ Good(n, kinds, Closed)
    BY <1>5
  <1>7. Extends(kinds, kinds')
    BY <1>1, <1>2 DEF Extends
  <1>8. ASSUME NEW q \in Readers PROVE Good(reader'[q], kinds', Closed')
    <2>1. reader \in [Readers -> Client]
      BY DEF Calm, IInv
    <2>2. CASE q = r
      BY <1>1, <1>2, <1>6, <2>1, <2>2 DEF SetReader
    <2>3. CASE q # r
      <3>1. reader'[q] = reader[q]
        BY <1>6, <2>1, <2>3 DEF SetReader
      <3> QED  BY <1>1, <1>2, <1>7, <3>1, OthersGood
    <2> QED  BY <2>2, <2>3
  <1> QED  BY <1>3, <1>4, <1>8 DEF XInv

(* A step that leaves the clients and the events alone.                     *)
LEMMA QuietGood ==
    ASSUME Calm, UNCHANGED <<kinds, reader>>, Closed => Closed', PhaseOK', BridgeOK'
    PROVE  XInv'
  <1>1. kinds' \in Seq(Kinds) /\ Extends(kinds, kinds')
    BY DEF Calm, IInv, Extends
  <1>2. \A q \in Readers : Good(reader'[q], kinds', Closed')
    BY <1>1, OthersGood
  <1> QED  BY <1>2 DEF XInv

LEMMA XSteps ==
    ASSUME IInv, XInv, [Next]_vars
    PROVE  XInv'
  <1> SUFFICES ASSUME notice'.pc = "none", ~crashed' PROVE XInv'
    BY DEF XInv
  <1>1. notice.pc = "none"
    BY Steps
  <1>2. ~Crash
    BY DEF Crash
  <1>3. ~crashed
    <2>1. CASE ProducerStep \/ RequestStep
      BY <2>1 DEF ProducerStep, EmitDelta, EmitOutcome, EmitClosed, Publish, RequestStep, Persist,
                  EmitNotice, NoticeJournaled, Settle, End, Journaled, Interrupted
    <2>2. CASE Cancel \/ Cleanup \/ (\E id \in stray : StrayLands(id)) \/ UNCHANGED vars
      BY <2>2 DEF Cancel, Cleanup, StrayLands, vars, publisherVars
    <2>3. ASSUME NEW r \in Readers, ReaderStep(r) \/ Stop(r) \/ Cut(r) PROVE ~crashed
      BY <2>3 DEF ReaderStep, Connect, Replay, Replayed, EndReplay, Attach, Follow, StreamEnds,
                  Stop, Cut, publisherVars
    <2> QED  BY <1>2, <2>1, <2>2, <2>3 DEF Next
  <1>4. Calm
    BY <1>1, <1>3 DEF Calm
  <1>5. JournalOK /\ PhaseOK /\ BridgeOK
    BY <1>4 DEF Calm, IInv, XInv
  <1>6. ASSUME NEW kind \in Kinds, NEW pc, Publish(kind, pc),
               \/ producer.pc = "running" /\ kind = "delta" /\ pc = "running"
               \/ producer.pc = "settled" /\ kind = "outcome" /\ pc = "reported"
               \/ producer.pc = "reported" /\ kind = "closed" /\ pc = "closing"
        PROVE  XInv'
    <2>1. /\ PhaseOK' /\ BridgeOK' /\ kinds' \in Seq(Kinds) /\ Extends(kinds, kinds')
          /\ Closed => Closed'
      BY <1>4, <1>6, PublishGood
    <2>2. UNCHANGED reader
      BY <1>6 DEF Publish
    <2>3. \A q \in Readers : Good(reader'[q], kinds', Closed')
      BY <1>4, <2>1, <2>2, OthersGood
    <2> QED  BY <2>1, <2>3 DEF XInv
  <1>7. CASE EmitDelta
    BY <1>6, <1>7 DEF EmitDelta, Kinds
  <1>8. CASE Settle
    <2>1. /\ producer.pc = "running" /\ producer'.pc = "settled"
          /\ UNCHANGED <<kinds, streams, current, timer, reader>>
      BY <1>5, <1>8 DEF Settle, bridgeVars, JournalOK, Producer
    <2>2. ~Closed /\ ~Closed'
      BY <2>1 DEF Closed
    <2>3. PhaseOK' /\ BridgeOK'
      BY <1>5, <2>1, <2>2 DEF PhaseOK, BridgeOK
    <2> QED  BY <1>4, <2>1, <2>2, <2>3, QuietGood
  <1>9. CASE EmitOutcome
    BY <1>6, <1>9 DEF EmitOutcome, Kinds
  <1>10. CASE EmitClosed
    BY <1>6, <1>10 DEF EmitClosed, Kinds
  <1>11. CASE End
    <2>1. UNCHANGED <<kinds, reader>>
      BY <1>11 DEF End
    <2>2. PhaseOK' /\ BridgeOK' /\ Closed'
      <3>1. Closed /\ PhaseOK' /\ BridgeOK'
        BY <1>4, <1>11, EndBridge
      <3>2. producer'.pc = "ended"
        BY <1>5, <1>11 DEF End, JournalOK, Producer
      <3> QED  BY <3>1, <3>2 DEF Closed
    <2> QED  BY <1>4, <2>1, <2>2, QuietGood
  <1>12. CASE Journaled
    <2>1. producer'.pc = producer.pc /\ UNCHANGED <<kinds, streams, current, timer, reader>>
      BY <1>5, <1>12 DEF Journaled, bridgeVars, JournalOK, Producer
    <2>2. Closed' = Closed
      BY <2>1 DEF Closed
    <2>3. PhaseOK' /\ BridgeOK'
      BY <1>5, <2>1, <2>2 DEF PhaseOK, BridgeOK
    <2> QED  BY <1>4, <2>1, <2>2, <2>3, QuietGood
  <1>13. CASE Cleanup
    <2>1. /\ timer # 0 /\ timer' = 0 /\ current' = IF current = timer THEN 0 ELSE current
          /\ UNCHANGED <<kinds, streams, producer, reader>>
      BY <1>13 DEF Cleanup, publisherVars
    <2>2. Closed' = Closed
      BY <2>1 DEF Closed
    <2>3. PhaseOK' /\ BridgeOK'
      BY <1>5, <2>1, <2>2 DEF PhaseOK, BridgeOK
    <2> QED  BY <1>4, <2>1, <2>2, <2>3, QuietGood
  <1>14. ASSUME NEW r \in Readers, ReaderStep(r) \/ Stop(r) \/ Cut(r) PROVE XInv'
    BY <1>4, <1>14, ReaderGood
  <1>15. CASE UNCHANGED vars
    <2>1. UNCHANGED <<kinds, streams, current, timer, producer, reader>>
      BY <1>15 DEF vars, bridgeVars, publisherVars
    <2>2. Closed' = Closed
      BY <2>1 DEF Closed
    <2>3. PhaseOK' /\ BridgeOK'
      BY <1>5, <2>1, <2>2 DEF PhaseOK, BridgeOK
    <2> QED  BY <1>4, <2>1, <2>2, <2>3, QuietGood
  <1>16. ~Interrupted /\ ~RequestStep /\ ~(\E id \in stray : StrayLands(id))
    BY <1>1, <1>5 DEF Interrupted, RequestStep, Persist, EmitNotice, NoticeJournaled, JournalOK
  <1>17. ~Cancel
    <2>1. notice \in [pc : {"none", "persisting", "publishing", "journaling", "done"}, id : Nat]
      BY DEF IInv
    <2>2. Cancel => notice'.pc = "persisting"
      BY <2>1 DEF Cancel
    <2> QED  BY <2>2
  <1> QED  BY <1>2, <1>7, <1>8, <1>9, <1>10, <1>11, <1>12, <1>13, <1>14, <1>15, <1>16, <1>17
           DEF Next, ProducerStep

(* A client gives up only after as many cuts as its budget has              *)
(* reconnections (frontend-sdk/src/client.ts), unless the run was cancelled *)
(* or the process died: the server lets each client down at most once.      *)
THEOREM LetDownOnce ==
    Spec => []IncompleteNeedsCuts
  <1>1. Init => IInv /\ XInv
    BY InitOK, XInitOK
  <1>2. IInv /\ XInv /\ [Next]_vars => (IInv /\ XInv)'
    BY Steps, XSteps
  <1>3. IInv /\ XInv => IncompleteNeedsCuts
    <2> SUFFICES ASSUME IInv, XInv, NEW r \in Readers, reader[r].pc = "incomplete",
                        ~crashed, notice.pc = "none"
                 PROVE  reader[r].cuts >= Budget
      BY DEF IncompleteNeedsCuts
    <2>1. reader[r] \in Client /\ Spent(reader[r], kinds, Closed)
      BY DEF IInv, XInv, Good
    <2>2. reader[r].cuts \in Nat /\ Budget \in Nat
      BY <2>1, StreamAssumption DEF Client
    <2> QED  BY <2>1, <2>2 DEF Spent, Ends
  <1> QED  BY <1>1, <1>2, <1>3, PTL DEF Spec

----------------------------------------------------------------------------
(* Nobody reads a stream that nobody will end: of every run, cancelled or   *)
(* not, as long as the process lives and no cleanup was hasty.  The bridge  *)
(* drops a stream only after its end, and by then the record is final, so   *)
(* that a client that comes later is told that the run is over.             *)

Typed ==
    /\ kinds \in Seq(Kinds) /\ StreamsOK
    /\ journal \in Seq(Positive) /\ stray \subseteq Positive
    /\ producer \in Producer
    /\ notice \in [pc : {"none", "persisting", "publishing", "journaling", "done"}, id : Nat]
    /\ notice.pc = "journaling" => notice.id # 0
    /\ reader \in [Readers -> Client]
    /\ \A r \in Readers : reader[r].pc = "live" => reader[r].stream \in 1..Len(streams)

(* What holds besides SubscribersServed while the process lives and no      *)
(* cleanup was hasty.                                                       *)
ServerOK ==
    /\ producer.pc # "dead" /\ (producer.pc # "running" => terminal)
    /\ producer.pc = "ended" /\ current # 0 => streams[current].ended
    /\ producer.pc = "ended" /\ current = 0 => notice.pc \in {"none", "done"}

(* A client that asked the bridge knows it when the stream is gone.         *)
InformedOK(s) ==
    producer.pc = "ended" /\ current = 0 /\ s.pc = "checking" => s.ended # "no"
ServedOK(s) ==
    s.pc = "live" => streams[s.stream].ended \/ (s.stream = current /\ producer.pc # "ended")

SInv ==
    /\ Typed
    /\ ~crashed /\ ~hasty =>
         ServerOK /\ \A r \in Readers : InformedOK(reader[r]) /\ ServedOK(reader[r])

(* The bridge gets, or keeps, a stream for the run.                         *)
LEMMA OpenedTyped ==
    ASSUME kinds \in Seq(Kinds), StreamsOK
    PROVE  /\ Opened \in Seq(Stream) /\ Len(Opened) \in Nat /\ Len(streams) \in Nat
           /\ Index \in 1..Len(Opened) /\ Len(streams) <= Len(Opened)
           /\ \A i \in 1..Len(streams) : i \in 1..Len(Opened) /\ Opened[i] = streams[i]
           /\ current # 0 => Index = current
  <1> DEFINE new == [lo |-> Published + 1, hi |-> Published, ended |-> FALSE]
  <1>1. Published \in Nat
    BY DEF Published
  <1>2. new \in Stream
    BY <1>1 DEF Stream, Positive
  <1>3. streams \in Seq(Stream) /\ current \in 0..Len(streams) /\ Len(streams) \in Nat
    BY DEF StreamsOK
  <1>4. Opened = IF current = 0 THEN Append(streams, new) ELSE streams
    BY DEF Opened
  <1> HIDE DEF new
  <1>5. CASE current = 0
    <2>1. Opened = Append(streams, new) /\ Index = Len(streams) + 1
      BY <1>4, <1>5 DEF Index
    <2>2. /\ Opened \in Seq(Stream) /\ Len(Opened) = Len(streams) + 1
          /\ \A i \in 1..Len(streams) : Opened[i] = streams[i]
      BY <1>2, <1>3, <2>1, AppendProperties
    <2> QED  BY <1>2, <1>3, <1>5, <2>1, <2>2
  <1>6. CASE current # 0
    <2>1. Opened = streams /\ Index = current
      BY <1>4, <1>6 DEF Index
    <2> QED  BY <1>3, <1>6, <2>1
  <1> QED  BY <1>5, <1>6

(* What a step does to the bridge: streams stay, and stay ended, and the    *)
(* run's stream is dropped by nobody but the cleanup.                       *)
StreamsStay ==
    /\ StreamsOK' /\ Len(streams) \in Nat /\ Len(streams') \in Nat
    /\ \A i \in 1..Len(streams) : i \in 1..Len(streams') /\ (streams[i].ended => streams'[i].ended)
    /\ current # 0 => current' = current

LEMMA BridgedTyped ==
    ASSUME kinds \in Seq(Kinds), StreamsOK, NEW kind \in Kinds, Bridged(kind)
    PROVE  kinds' \in Seq(Kinds) /\ Published + 1 \in Positive /\ StreamsStay /\ current' # 0
  <1> DEFINE b == Opened[Index]
             n == With(b, Published + 1, kind)
  <1>1. /\ Opened \in Seq(Stream) /\ Len(Opened) \in Nat /\ Len(streams) \in Nat
        /\ Index \in 1..Len(Opened) /\ Len(streams) <= Len(Opened)
        /\ \A i \in 1..Len(streams) : i \in 1..Len(Opened) /\ Opened[i] = streams[i]
        /\ current # 0 => Index = current
    BY OpenedTyped
  <1>2. kinds' = Append(kinds, kind) /\ streams' = [Opened EXCEPT ![Index] = n] /\ current' = Index
    BY DEF Bridged
  <1>3. kinds' \in Seq(Kinds) /\ Published \in Nat /\ Published + 1 \in Positive
    BY <1>2 DEF Published, Positive
  <1>4. b \in Stream
    BY <1>1
  <1> HIDE DEF b
  <1>5. n \in Stream /\ (b.ended => n.ended)
    <2>1. b.lo \in Positive /\ b.ended \in BOOLEAN /\ Maxsize \in Nat
      BY <1>4, StreamAssumption DEF Stream
    <2>2. Trimmed(b.lo, Published + 1) \in Positive
      BY <1>3, <2>1 DEF Trimmed, Positive
    <2> DEFINE e == b.ended \/ kind = "closed"
               l == Trimmed(b.lo, Published + 1)
    <2>3. n = [lo |-> l, hi |-> Published + 1, ended |-> e]
      BY DEF With
    <2>4. e \in BOOLEAN /\ (b.ended => e)
      OBVIOUS
    <2> HIDE DEF e, l, n
    <2>5. n.ended = e
      BY <2>3
    <2>6. n \in Stream
      BY <1>3, <2>2, <2>3, <2>4 DEF Stream, Positive, l
    <2> QED  BY <2>4, <2>5, <2>6
  <1> HIDE DEF n
  <1>6. /\ streams' \in Seq(Stream) /\ Len(streams') = Len(Opened) /\ streams'[Index] = n
        /\ \A i \in 1..Len(Opened) : i # Index => streams'[i] = Opened[i]
    BY <1>1, <1>2, <1>5
  <1>7. \A i \in 1..Len(streams) : i \in 1..Len(streams') /\ (streams[i].ended => streams'[i].ended)
    <2> SUFFICES ASSUME NEW i \in 1..Len(streams)
                 PROVE  i \in 1..Len(streams') /\ (streams[i].ended => streams'[i].ended)
      OBVIOUS
    <2>1. i \in 1..Len(Opened) /\ i \in 1..Len(streams') /\ Opened[i] = streams[i]
      BY <1>1, <1>6
    <2>2. CASE i = Index
      BY <1>5, <1>6, <2>1, <2>2 DEF b
    <2>3. CASE i # Index
      BY <1>6, <2>1, <2>3
    <2> QED  BY <2>2, <2>3
  <1> QED  BY <1>1, <1>2, <1>3, <1>6, <1>7 DEF StreamsStay, StreamsOK

(* No client moves.                                                         *)
LEMMA StillServed ==
    ASSUME SInv, StreamsStay, UNCHANGED <<reader, hasty, crashed>>,
           kinds' \in Seq(Kinds), journal' \in Seq(Positive), stray' \subseteq Positive,
           producer' \in Producer,
           notice' \in [pc : {"none", "persisting", "publishing", "journaling", "done"}, id : Nat],
           notice'.pc = "journaling" => notice'.id # 0,
           ~crashed /\ ~hasty => ServerOK',
           producer'.pc = "ended" => current' # 0 \/ (producer.pc = "ended" /\ current = 0)
    PROVE  SInv'
  <1>1. /\ Typed /\ reader' = reader /\ hasty' = hasty /\ crashed' = crashed
    BY DEF SInv
  <1>2. Typed'
    <2>1. \A r \in Readers : reader'[r].pc = "live" => reader'[r].stream \in 1..Len(streams')
      BY <1>1 DEF Typed, StreamsStay
    <2> QED  BY <1>1, <2>1 DEF Typed, StreamsStay
  <1>3. ASSUME ~crashed, ~hasty, NEW r \in Readers
        PROVE  InformedOK(reader[r])' /\ ServedOK(reader[r])'
    <2>1. InformedOK(reader[r]) /\ ServedOK(reader[r]) /\ ServerOK'
      BY <1>3 DEF SInv
    <2>2. InformedOK(reader[r])'
      BY <1>1, <2>1 DEF InformedOK
    <2>3. ASSUME reader[r].pc = "live"
          PROVE  streams'[reader[r].stream].ended \/ (reader[r].stream = current' /\ producer'.pc # "ended")
      <3>1. reader[r].stream \in 1..Len(streams) /\ reader[r].stream # 0
        BY <1>1, <2>3 DEF Typed
      <3>2. CASE streams[reader[r].stream].ended
        BY <3>1, <3>2 DEF StreamsStay
      <3>3. CASE reader[r].stream = current
        <4>1. current' = reader[r].stream /\ current' # 0
          BY <3>1, <3>3 DEF StreamsStay
        <4> QED  BY <2>1, <4>1 DEF ServerOK
      <3> QED  BY <2>1, <2>3, <3>2, <3>3 DEF ServedOK
    <2> QED  BY <1>1, <2>2, <2>3 DEF ServedOK
  <1> QED  BY <1>1, <1>2, <1>3 DEF SInv

LEMMA NoStreamMoves ==
    ASSUME SInv, UNCHANGED <<streams, current>> PROVE StreamsStay
  BY DEF SInv, Typed, StreamsOK, StreamsStay

LEMMA PublishServed ==
    ASSUME SInv, NEW kind \in Kinds, NEW pc \in {"running", "reported", "closing"},
           producer.pc # "dead", pc # "running" => producer.pc # "running", Publish(kind, pc)
    PROVE  SInv'
  <1>1. /\ Typed /\ Bridged(kind)
        /\ UNCHANGED <<journal, terminal, stray, notice, crashed, reader, hasty>>
    BY DEF SInv, Publish, Bridged, journalVars
  <1>2. /\ kinds' \in Seq(Kinds) /\ Published + 1 \in Positive /\ StreamsStay /\ current' # 0
    BY <1>1, BridgedTyped DEF Typed
  <1>3. producer' = [producer EXCEPT !.pc = pc, !.pending = Published + 1]
    BY DEF Publish
  <1> DEFINE n == Published + 1
  <1>4. n \in Nat
    BY <1>2 DEF Positive
  <1> HIDE DEF n
  <1>5. producer' \in Producer /\ producer'.pc = pc
    BY <1>1, <1>3, <1>4 DEF Typed, Producer, n
  <1>6. ~crashed /\ ~hasty => ServerOK'
    BY <1>1, <1>5 DEF SInv, ServerOK
  <1> QED  BY <1>1, <1>2, <1>5, <1>6, StillServed DEF Typed

LEMMA EndServed ==
    ASSUME SInv, End
    PROVE  SInv'
  <1> DEFINE n == [Opened[Index] EXCEPT !.ended = TRUE]
  <1>1. /\ Typed /\ producer.pc = "closing" /\ producer' = [producer EXCEPT !.pc = "ended"]
        /\ streams' = [Opened EXCEPT ![Index] = n] /\ current' = Index
        /\ UNCHANGED <<kinds, journal, terminal, stray, notice, crashed, reader, hasty>>
    BY DEF SInv, End, journalVars
  <1>2. /\ Opened \in Seq(Stream) /\ Len(Opened) \in Nat /\ Len(streams) \in Nat
        /\ Index \in 1..Len(Opened) /\ Len(streams) <= Len(Opened)
        /\ \A i \in 1..Len(streams) : i \in 1..Len(Opened) /\ Opened[i] = streams[i]
        /\ current # 0 => Index = current
    BY <1>1, OpenedTyped DEF Typed
  <1>3. n \in Stream /\ n.ended
    <2>1. Opened[Index] \in Stream
      BY <1>2
    <2> QED  BY <2>1 DEF Stream
  <1> HIDE DEF n
  <1>4. /\ streams' \in Seq(Stream) /\ Len(streams') = Len(Opened) /\ streams'[Index] = n
        /\ \A i \in 1..Len(Opened) : i # Index => streams'[i] = Opened[i]
    BY <1>1, <1>2, <1>3
  <1>5. \A i \in 1..Len(streams) : i \in 1..Len(streams') /\ (streams[i].ended => streams'[i].ended)
    BY <1>2, <1>3, <1>4
  <1>6. StreamsStay /\ current' # 0
    BY <1>1, <1>2, <1>4, <1>5 DEF StreamsStay, StreamsOK
  <1>7. producer' \in Producer /\ producer'.pc = "ended"
    BY <1>1 DEF Typed, Producer
  <1>8. ~crashed /\ ~hasty => ServerOK'
    BY <1>1, <1>3, <1>4, <1>6, <1>7 DEF SInv, ServerOK
  <1> QED  BY <1>1, <1>6, <1>7, <1>8, StillServed DEF Typed

(* A producer that is not at its end leaves the bridge and the clients alone. *)
LEMMA BridgeAlone ==
    ASSUME SInv, UNCHANGED <<bridgeVars, crashed, reader>>,
           journal' \in Seq(Positive), stray' \subseteq Positive, producer' \in Producer,
           notice' \in [pc : {"none", "persisting", "publishing", "journaling", "done"}, id : Nat],
           notice'.pc = "journaling" => notice'.id # 0,
           producer'.pc \notin {"ended", "dead"}, producer'.pc # "running" => terminal'
    PROVE  SInv'
  <1>1. /\ Typed
        /\ UNCHANGED <<kinds, streams, current, hasty, crashed, reader>>
    BY DEF SInv, bridgeVars
  <1>2. StreamsStay
    BY <1>1, NoStreamMoves
  <1>3. ~crashed /\ ~hasty => ServerOK'
    BY <1>1 DEF SInv, ServerOK
  <1> QED  BY <1>1, <1>2, <1>3, StillServed DEF Typed

LEMMA PublishersServed ==
    ASSUME SInv, ProducerStep \/ Cancel \/ RequestStep \/ (\E id \in stray : StrayLands(id))
    PROVE  SInv'
  <1> USE DEF journalVars, publisherVars
  <1>0. /\ Typed /\ journal \in Seq(Positive) /\ stray \subseteq Positive
        /\ producer \in Producer
        /\ notice \in [pc : {"none", "persisting", "publishing", "journaling", "done"}, id : Nat]
        /\ notice.pc = "journaling" => notice.id # 0
    BY DEF SInv, Typed
  <1>1. CASE EmitDelta
    BY <1>1, PublishServed DEF EmitDelta, Kinds
  <1>2. CASE EmitOutcome
    BY <1>2, PublishServed DEF EmitOutcome, Kinds
  <1>3. CASE EmitClosed
    BY <1>3, PublishServed DEF EmitClosed, Kinds
  <1>4. CASE End
    BY <1>4, EndServed
  <1>5. CASE Settle
    <2>1. producer' = [producer EXCEPT !.pc = "settled"] /\ terminal' = TRUE
          /\ UNCHANGED <<bridgeVars, journal, stray, notice, crashed, reader>>
      BY <1>5 DEF Settle
    <2>2. producer' \in Producer /\ producer'.pc = "settled"
      BY <1>0, <2>1 DEF Producer
    <2> QED  BY <1>0, <2>1, <2>2, BridgeAlone
  <1>6. CASE Journaled
    <2>1. /\ producer' = [producer EXCEPT !.pending = 0]
          /\ journal' = Append(journal, producer.pending) /\ producer.pending # 0
          /\ UNCHANGED <<bridgeVars, terminal, stray, notice, crashed, reader>>
      BY <1>6 DEF Journaled
    <2>2. producer' \in Producer /\ producer'.pc = producer.pc /\ producer.pending \in Positive
      BY <1>0, <2>1 DEF Producer, Positive
    <2>3. journal' \in Seq(Positive)
      BY <1>0, <2>1, <2>2
    <2>5. ~crashed /\ ~hasty => ServerOK'
      BY <2>1, <2>2 DEF SInv, ServerOK, bridgeVars
    <2>6. StreamsStay
      BY <2>1, NoStreamMoves DEF bridgeVars
    <2> QED  BY <1>0, <2>1, <2>2, <2>3, <2>5, <2>6, StillServed DEF Typed, bridgeVars
  <1>7. CASE Interrupted
    <2>1. /\ producer' = [pc |-> "reported", pending |-> 0, cancelled |-> FALSE] /\ terminal' = TRUE
          /\ stray' = stray \union ({producer.pending} \ {0})
          /\ UNCHANGED <<bridgeVars, journal, notice, crashed, reader>>
      BY <1>7 DEF Interrupted
    <2>2. producer' \in Producer /\ producer'.pc = "reported" /\ stray' \subseteq Positive
      BY <1>0, <2>1 DEF Producer, Positive
    <2> QED  BY <1>0, <2>1, <2>2, BridgeAlone
  <1>8. CASE Cancel
    <2>1. /\ producer' = [producer EXCEPT !.cancelled = TRUE] /\ producer.pc = "running"
          /\ notice' = [notice EXCEPT !.pc = "persisting"]
          /\ UNCHANGED <<bridgeVars, journal, terminal, stray, crashed, reader>>
      BY <1>8 DEF Cancel
    <2>2. producer' \in Producer /\ producer'.pc = "running"
      BY <1>0, <2>1 DEF Producer
    <2>3. /\ notice' \in [pc : {"none", "persisting", "publishing", "journaling", "done"}, id : Nat]
          /\ notice'.pc = "persisting"
      BY <1>0, <2>1
    <2> QED  BY <1>0, <2>1, <2>2, <2>3, BridgeAlone
  <1>9. CASE Persist
    <2>1. /\ notice.pc = "persisting" /\ notice' = [notice EXCEPT !.pc = "publishing"]
          /\ terminal' = TRUE
          /\ UNCHANGED <<bridgeVars, journal, stray, producer, crashed, reader>>
      BY <1>9 DEF Persist
    <2>2. /\ notice' \in [pc : {"none", "persisting", "publishing", "journaling", "done"}, id : Nat]
          /\ notice'.pc = "publishing"
      BY <1>0, <2>1
    <2>3. ~crashed /\ ~hasty => ServerOK'
      BY <2>1, <2>2 DEF SInv, ServerOK, bridgeVars
    <2>4. StreamsStay
      BY <2>1, NoStreamMoves DEF bridgeVars
    <2> QED  BY <1>0, <2>1, <2>2, <2>3, <2>4, StillServed DEF Typed, bridgeVars
  <1>10. CASE EmitNotice
    <2>1. /\ notice.pc = "publishing" /\ Bridged("notice")
          /\ notice' = [pc |-> "journaling", id |-> Published + 1]
          /\ UNCHANGED <<journal, terminal, stray, producer, crashed, reader, hasty>>
      BY <1>10 DEF EmitNotice, Bridged
    <2>2. kinds' \in Seq(Kinds) /\ Published + 1 \in Positive /\ StreamsStay /\ current' # 0
      BY <1>0, <2>1, BridgedTyped DEF Typed, Kinds
    <2>3. /\ notice' \in [pc : {"none", "persisting", "publishing", "journaling", "done"}, id : Nat]
          /\ notice'.pc = "journaling" /\ notice'.id # 0
      <3> DEFINE n == Published + 1
      <3> HIDE DEF n
      <3>1. n \in Nat /\ n # 0 /\ notice' = [pc |-> "journaling", id |-> n]
        BY <2>1, <2>2 DEF Positive, n
      <3> QED  BY <3>1
    <2>4. ASSUME ~crashed, ~hasty PROVE ServerOK'
      <3>1. ServerOK
        BY <2>4 DEF SInv
      <3>2. producer.pc = "ended" => current # 0 /\ streams[current].ended
        BY <2>1, <3>1 DEF ServerOK
      <3>3. producer.pc = "ended" => streams'[current'].ended
        BY <1>0, <2>2, <3>2 DEF StreamsStay, Typed, StreamsOK
      <3> QED  BY <2>1, <2>2, <3>1, <3>3 DEF ServerOK
    <2> QED  BY <1>0, <2>1, <2>2, <2>3, <2>4, StillServed DEF Typed
  <1>11. CASE NoticeJournaled
    <2>1. /\ notice.pc = "journaling" /\ notice' = [notice EXCEPT !.pc = "done"]
          /\ journal' = Append(journal, notice.id)
          /\ UNCHANGED <<bridgeVars, terminal, stray, producer, crashed, reader>>
      BY <1>11 DEF NoticeJournaled
    <2>2. /\ notice' \in [pc : {"none", "persisting", "publishing", "journaling", "done"}, id : Nat]
          /\ notice'.pc = "done" /\ notice.id \in Positive
      BY <1>0, <2>1 DEF Positive
    <2>3. journal' \in Seq(Positive)
      BY <1>0, <2>1, <2>2
    <2>4. ~crashed /\ ~hasty => ServerOK'
      BY <2>1, <2>2 DEF SInv, ServerOK, bridgeVars
    <2>5. StreamsStay
      BY <2>1, NoStreamMoves DEF bridgeVars
    <2> QED  BY <1>0, <2>1, <2>2, <2>3, <2>4, <2>5, StillServed DEF Typed, bridgeVars
  <1>12. ASSUME NEW id \in stray, StrayLands(id) PROVE SInv'
    <2>1. /\ stray' = stray \ {id} /\ journal' = Append(journal, id) /\ id \in Positive
          /\ UNCHANGED <<bridgeVars, terminal, producer, notice, crashed, reader>>
      BY <1>0, <1>12 DEF StrayLands
    <2>2. journal' \in Seq(Positive) /\ stray' \subseteq Positive
      BY <1>0, <2>1
    <2>3. ~crashed /\ ~hasty => ServerOK'
      BY <2>1 DEF SInv, ServerOK, bridgeVars
    <2>4. StreamsStay
      BY <2>1, NoStreamMoves DEF bridgeVars
    <2> QED  BY <1>0, <2>1, <2>2, <2>3, <2>4, StillServed DEF Typed, bridgeVars
  <1> QED
    BY <1>1, <1>2, <1>3, <1>4, <1>5, <1>6, <1>7, <1>8, <1>9, <1>10, <1>11, <1>12
       DEF ProducerStep, RequestStep

(* One client moves; the bridge may open a stream for it.                   *)
LEMMA OneServed ==
    ASSUME SInv, NEW r \in Readers, NEW s \in Client, SetReader(r, s), StreamsStay,
           UNCHANGED <<kinds, hasty, journalVars, publisherVars>>,
           s.pc = "live" => s.stream \in 1..Len(streams'),
           ~crashed /\ ~hasty =>
               /\ producer.pc = "ended" /\ current' = 0 /\ s.pc = "checking" => s.ended # "no"
               /\ s.pc = "live" =>
                   streams'[s.stream].ended \/ (s.stream = current' /\ producer.pc # "ended")
               /\ producer.pc = "ended" => current' = current
    PROVE  SInv'
  <1>1. /\ Typed
        /\ UNCHANGED <<journal, terminal, stray, producer, notice, crashed>>
    BY DEF SInv, journalVars, publisherVars
  <1>2. reader' \in [Readers -> Client] /\ reader'[r] = s
        /\ \A q \in Readers \ {r} : reader'[q] = reader[q]
    BY <1>1 DEF SetReader, Typed
  <1>3. Typed'
    <2>1. \A q \in Readers : reader'[q].pc = "live" => reader'[q].stream \in 1..Len(streams')
      BY <1>1, <1>2 DEF Typed, StreamsStay
    <2> QED  BY <1>1, <1>2, <2>1 DEF Typed, StreamsStay
  <1>4. ASSUME ~crashed, ~hasty
        PROVE  ServerOK' /\ \A q \in Readers : InformedOK(reader[q])' /\ ServedOK(reader[q])'
    <2>1. ServerOK /\ (producer.pc = "ended" => current' = current)
      BY <1>4 DEF SInv
    <2>2. producer.pc = "ended" /\ current # 0 => streams'[current].ended
      BY <1>1, <2>1 DEF ServerOK, StreamsStay, Typed, StreamsOK
    <2>3. ServerOK'
      BY <1>1, <2>1, <2>2 DEF ServerOK
    <2>4. ASSUME NEW q \in Readers, q # r PROVE InformedOK(reader[q])' /\ ServedOK(reader[q])'
      <3>1. reader'[q] = reader[q] /\ InformedOK(reader[q]) /\ ServedOK(reader[q])
        BY <1>2, <1>4, <2>4 DEF SInv
      <3>2. InformedOK(reader[q])'
        BY <1>1, <2>1, <3>1 DEF InformedOK
      <3>3. ASSUME reader[q].pc = "live"
            PROVE  streams'[reader[q].stream].ended
                   \/ (reader[q].stream = current' /\ producer'.pc # "ended")
        <4>1. reader[q].stream \in 1..Len(streams) /\ reader[q].stream # 0
          BY <1>1, <3>3 DEF Typed
        <4>2. CASE streams[reader[q].stream].ended
          BY <4>1, <4>2 DEF StreamsStay
        <4>3. CASE reader[q].stream = current /\ producer.pc # "ended"
          BY <1>1, <4>1, <4>3 DEF StreamsStay
        <4> QED  BY <3>1, <3>3, <4>2, <4>3 DEF ServedOK
      <3> QED  BY <3>1, <3>2, <3>3 DEF ServedOK
    <2>5. InformedOK(reader[r])' /\ ServedOK(reader[r])'
      BY <1>1, <1>2, <1>4 DEF InformedOK, ServedOK
    <2> QED  BY <2>3, <2>4, <2>5
  <1> QED  BY <1>1, <1>3, <1>4 DEF SInv

(* A client moves that neither asks nor follows the bridge afterwards, or   *)
(* goes on following the same stream.                                       *)
LEMMA ClientOnly ==
    ASSUME SInv, NEW r \in Readers, NEW s \in Client, SetReader(r, s),
           UNCHANGED <<bridgeVars, journalVars, publisherVars>>,
           \/ s.pc \notin {"checking", "live"}
           \/ s.pc = "live" /\ reader[r].pc = "live" /\ s.stream = reader[r].stream
    PROVE  SInv'
  <1>1. UNCHANGED <<kinds, streams, current, hasty, producer>> /\ StreamsStay /\ Typed
    BY NoStreamMoves DEF bridgeVars, publisherVars, SInv
  <1>2. s.pc = "live" => s.stream \in 1..Len(streams')
    BY <1>1 DEF Typed
  <1>3. ~crashed /\ ~hasty =>
             /\ producer.pc = "ended" /\ current' = 0 /\ s.pc = "checking" => s.ended # "no"
             /\ s.pc = "live" =>
                   streams'[s.stream].ended \/ (s.stream = current' /\ producer.pc # "ended")
             /\ producer.pc = "ended" => current' = current
    BY <1>1 DEF SInv, ServedOK
  <1>4. UNCHANGED <<kinds, hasty, journalVars, publisherVars>>
    BY DEF bridgeVars
  <1> QED  BY <1>1, <1>2, <1>3, <1>4, OneServed

LEMMA ConnectServed ==
    ASSUME SInv, NEW r \in Readers, Connect(r)
    PROVE  SInv'
  <1> DEFINE m == ReplayFrom(reader[r].last)
             T == SubSeq(journal, m, Len(journal))
             c == journal # <<>> /\ kinds[Last(journal)] = "closed"
             s == [reader[r] EXCEPT !.pc = "replaying", !.yielded = {}, !.from = reader[r].last,
                                    !.todo = T, !.closes = c]
  <1>1. reader[r] \in Client /\ journal \in Seq(Positive) /\ DOMAIN journal = 1..Len(journal)
        /\ Len(journal) \in Nat
    BY DEF SInv, Typed
  <1>2. m \in Nat /\ m >= 1
    <2>1. CASE \E i \in DOMAIN journal : journal[i] = reader[r].last
      <3>1. (CHOOSE i \in DOMAIN journal : journal[i] = reader[r].last) \in 1..Len(journal)
        BY <1>1, <2>1
      <3>2. m = 1 + (CHOOSE i \in DOMAIN journal : journal[i] = reader[r].last)
        BY <2>1 DEF ReplayFrom
      <3> DEFINE i == CHOOSE i \in DOMAIN journal : journal[i] = reader[r].last
      <3> HIDE DEF m, i
      <3> QED  BY <1>1, <3>1, <3>2 DEF i
    <2>2. CASE ~\E i \in DOMAIN journal : journal[i] = reader[r].last
      <3>1. m = 1
        BY <2>2 DEF ReplayFrom
      <3> HIDE DEF m
      <3> QED  BY <3>1
    <2> QED  BY <2>1, <2>2
  <1> HIDE DEF m
  <1>3. T \in Seq(Positive)
    <2>1. \A i \in m..Len(journal) : journal[i] \in Positive
      BY <1>1, <1>2
    <2> QED  BY <1>1, <1>2, <2>1, SubSeqProperties
  <1>4. c \in BOOLEAN
    OBVIOUS
  <1>5. SetReader(r, s) /\ UNCHANGED <<bridgeVars, journalVars, publisherVars>>
    BY DEF Connect, m
  <1> HIDE DEF T, c
  <1>6. s \in Client /\ s.pc = "replaying"
    BY <1>1, <1>3, <1>4 DEF Client
  <1> HIDE DEF s
  <1> QED  BY <1>5, <1>6, ClientOnly

LEMMA EofServed ==
    ASSUME SInv, NEW r \in Readers, NEW s \in Client, SetReader(r, Eof(s)),
           UNCHANGED <<bridgeVars, journalVars, publisherVars>>
    PROVE  SInv'
  <1>1. Eof(s) \in Client /\ Eof(s).pc \in {"complete", "off", "incomplete"}
    BY EofOK
  <1> QED  BY <1>1, ClientOnly

LEMMA ReplayServed ==
    ASSUME SInv, NEW r \in Readers, Replay(r)
    PROVE  SInv'
  <1> DEFINE s == reader[r]
             id == Head(s.todo)
             t == Tail(s.todo)
             y == s.yielded \union {id}
             m == [s EXCEPT !.todo = t, !.from = id, !.yielded = y]
  <1>1. s \in Client /\ s.pc = "replaying" /\ s.todo # <<>> /\ s.todo \in Seq(Positive)
    BY DEF SInv, Typed, Replay, Client
  <1>2. id \in Positive /\ t \in Seq(Positive)
    BY <1>1, HeadTailProperties
  <1>3. y \in SUBSET Nat /\ id \in Nat
    BY <1>1, <1>2 DEF Client, Positive
  <1>4. SetReader(r, Got(m, id)) /\ UNCHANGED <<bridgeVars, journalVars, publisherVars>>
    BY DEF Replay
  <1> HIDE DEF id, t, y
  <1>5. m \in Client /\ m.pc = "replaying"
    BY <1>1, <1>2, <1>3 DEF Client
  <1> HIDE DEF m
  <1>6. Got(m, id) \in Client /\ Got(m, id).pc = "replaying"
    BY <1>2, <1>5, GotOK
  <1> QED  BY <1>4, <1>6, ClientOnly

LEMMA ReplayedServed ==
    ASSUME SInv, NEW r \in Readers, Replayed(r)
    PROVE  SInv'
  <1> DEFINE s == reader[r]
             e == IF current = 0 THEN "none" ELSE IF streams[current].ended THEN "yes" ELSE "no"
             n == [s EXCEPT !.pc = "checking", !.ended = e]
  <1>1. s \in Client /\ UNCHANGED <<bridgeVars, journalVars, publisherVars>>
    BY DEF SInv, Typed, Replayed
  <1>2. CASE s.closes
    <2>1. SetReader(r, Eof(s))
      BY <1>2 DEF Replayed
    <2> QED  BY <1>1, <2>1, EofServed
  <1>3. CASE ~s.closes
    <2>1. SetReader(r, n)
      BY <1>3 DEF Replayed
    <2>2. e \in {"no", "yes", "none"} /\ (current = 0 => e # "no")
      OBVIOUS
    <2> HIDE DEF e
    <2>3. n \in Client /\ n.pc = "checking" /\ n.ended = e
      BY <1>1, <2>2 DEF Client
    <2> HIDE DEF n
    <2>4. UNCHANGED <<kinds, streams, current, hasty, producer>> /\ StreamsStay
      BY <1>1, NoStreamMoves DEF bridgeVars, publisherVars
    <2> QED  BY <1>1, <2>1, <2>2, <2>3, <2>4, OneServed
  <1> QED  BY <1>2, <1>3

LEMMA AttachServed ==
    ASSUME SInv, NEW r \in Readers, Attach(r)
    PROVE  SInv'
  <1> DEFINE s == reader[r]
             at == ResumeAt(Opened[Index], s.from)
             b == s.behind \/ Opened[Index].lo > s.from + 1
             n == [s EXCEPT !.pc = "live", !.stream = Index, !.from = at, !.behind = b]
  <1>1. /\ s \in Client /\ s.pc = "checking" /\ ~Over(s) /\ Typed
        /\ streams' = Opened /\ current' = Index /\ SetReader(r, n)
        /\ UNCHANGED <<kinds, timer, hasty, journalVars, publisherVars>>
    BY DEF SInv, Typed, Attach
  <1>2. /\ Opened \in Seq(Stream) /\ Len(Opened) \in Nat /\ Len(streams) \in Nat
        /\ Index \in 1..Len(Opened) /\ Len(streams) <= Len(Opened)
        /\ \A i \in 1..Len(streams) : i \in 1..Len(Opened) /\ Opened[i] = streams[i]
        /\ current # 0 => Index = current
    BY <1>1, OpenedTyped DEF Typed
  <1>3. at \in Nat /\ b \in BOOLEAN
    <2>1. Opened[Index].lo \in Nat /\ Opened[Index].hi \in Nat /\ s.from \in Nat
      <3>1. Opened[Index] \in Stream
        BY <1>2
      <3> QED  BY <1>1, <3>1 DEF Stream, Positive, Client
    <2>2. b \in BOOLEAN
      BY <1>1 DEF Client
    <2> QED  BY <2>1, <2>2 DEF ResumeAt
  <1> HIDE DEF at, b
  <1>4. n \in Client /\ n.pc = "live" /\ n.stream = Index
    <2> DEFINE i == Index
    <2>1. i \in Nat
      BY <1>2
    <2> HIDE DEF i
    <2>2. /\ [s EXCEPT !.pc = "live", !.stream = i, !.from = at, !.behind = b] \in Client
          /\ [s EXCEPT !.pc = "live", !.stream = i, !.from = at, !.behind = b].pc = "live"
          /\ [s EXCEPT !.pc = "live", !.stream = i, !.from = at, !.behind = b].stream = i
      BY <1>1, <1>3, <2>1 DEF Client
    <2> QED  BY <2>2 DEF i
  <1> HIDE DEF n
  <1>5. StreamsStay
    BY <1>1, <1>2 DEF StreamsStay, StreamsOK
  <1>6. ASSUME ~crashed, ~hasty
        PROVE  producer.pc = "ended" => current' = current /\ streams'[Index].ended
    <2>1. ServerOK /\ InformedOK(s) /\ producer' = producer
      BY <1>1, <1>6 DEF SInv, publisherVars
    <2>2. producer.pc = "ended" => current # 0 /\ streams[current].ended
      BY <1>1, <2>1 DEF ServerOK, InformedOK, Over
    <2> QED  BY <1>1, <1>2, <2>2 DEF Typed, StreamsOK
  <1>7. ~crashed /\ ~hasty =>
             /\ producer.pc = "ended" /\ current' = 0 /\ n.pc = "checking" => n.ended # "no"
             /\ n.pc = "live" =>
                   streams'[n.stream].ended \/ (n.stream = current' /\ producer.pc # "ended")
             /\ producer.pc = "ended" => current' = current
    BY <1>1, <1>4, <1>6
  <1>8. n.pc = "live" => n.stream \in 1..Len(streams')
    BY <1>1, <1>2, <1>4
  <1> QED  BY <1>1, <1>4, <1>5, <1>7, <1>8, OneServed

LEMMA FollowServed ==
    ASSUME SInv, NEW r \in Readers, Follow(r)
    PROVE  SInv'
  <1> DEFINE s == reader[r]
             b == streams[s.stream]
             id == IF s.from < b.lo THEN b.lo ELSE s.from
             d == s.behind \/ s.from < b.lo
             n == id + 1
             y == s.yielded \union {id}
             m == [s EXCEPT !.from = n, !.behind = d, !.yielded = y]
  <1>1. /\ s \in Client /\ s.pc = "live" /\ Typed
        /\ SetReader(r, IF id \in s.yielded THEN m ELSE Got(m, id))
        /\ UNCHANGED <<bridgeVars, journalVars, publisherVars>>
    BY DEF SInv, Typed, Follow
  <1>2. b.lo \in Positive /\ s.from \in Nat /\ s.behind \in BOOLEAN
    <2>1. b \in Stream
      BY <1>1 DEF Typed, StreamsOK
    <2> QED  BY <1>1, <2>1 DEF Stream, Client
  <1>3. id \in Positive /\ n \in Nat /\ d \in BOOLEAN /\ y \in SUBSET Nat
    <2>1. id \in Positive
      BY <1>2 DEF Positive
    <2>2. s.yielded \in SUBSET Nat
      BY <1>1 DEF Client
    <2> HIDE DEF id, s, b
    <2> QED  BY <1>2, <2>1, <2>2 DEF Positive
  <1> HIDE DEF id, d, n, y
  <1>4. m \in Client /\ m.pc = "live" /\ m.stream = s.stream
    <2>1. s \in Client /\ s.pc = "live"
      BY <1>1
    <2> HIDE DEF s
    <2>2. m.pc = s.pc /\ m.stream = s.stream
      BY <2>1 DEF Client
    <2>3. m \in Client
      BY <2>1, <1>3 DEF Client
    <2> QED  BY <2>1, <2>2, <2>3
  <1> HIDE DEF m
  <1>5. Got(m, id) \in Client /\ Got(m, id).pc = "live" /\ Got(m, id).stream = s.stream
    BY <1>3, <1>4, GotOK
  <1>6. CASE id \in s.yielded
    BY <1>1, <1>4, <1>6, ClientOnly
  <1>7. CASE id \notin s.yielded
    BY <1>1, <1>5, <1>7, ClientOnly
  <1> QED  BY <1>6, <1>7

LEMMA ClientsServed ==
    ASSUME SInv, NEW r \in Readers, ReaderStep(r) \/ Stop(r) \/ Cut(r)
    PROVE  SInv'
  <1>1. reader[r] \in Client
    BY DEF SInv, Typed
  <1>2. CASE EndReplay(r) \/ StreamEnds(r)
    BY <1>1, <1>2, EofServed DEF EndReplay, StreamEnds
  <1>3. CASE Stop(r)
    <2> DEFINE s == [reader[r] EXCEPT !.pc = "complete"]
    <2>1. SetReader(r, s) /\ UNCHANGED <<bridgeVars, journalVars, publisherVars>>
      BY <1>3 DEF Stop
    <2>2. s \in Client /\ s.pc = "complete"
      BY <1>1 DEF Client
    <2> HIDE DEF s
    <2> QED  BY <2>1, <2>2, ClientOnly
  <1>4. CASE Cut(r)
    <2> DEFINE c == reader[r].cuts + 1
               s == [reader[r] EXCEPT !.cuts = c]
    <2>1. SetReader(r, Eof(s)) /\ UNCHANGED <<bridgeVars, journalVars, publisherVars>>
      BY <1>4 DEF Cut
    <2>2. c \in Nat
      BY <1>1 DEF Client
    <2> HIDE DEF c
    <2>3. s \in Client
      BY <1>1, <2>2 DEF Client
    <2> HIDE DEF s
    <2> QED  BY <2>1, <2>3, EofServed
  <1> QED  BY <1>2, <1>3, <1>4, ConnectServed, ReplayServed, ReplayedServed, AttachServed,
              FollowServed DEF ReaderStep

(* A cleanup that is not hasty finds the producer at its end and nobody on  *)
(* the way from the journal to the bridge.                                  *)
LEMMA CleanupServed ==
    ASSUME SInv, Cleanup
    PROVE  SInv'
  <1>1. /\ Typed /\ hasty' = (hasty \/ UnderWay)
        /\ current' \in {0, current}
        /\ UNCHANGED <<kinds, streams, journal, terminal, stray, producer, notice, crashed, reader>>
    BY DEF SInv, Cleanup, journalVars, publisherVars
  <1>2. Typed'
    BY <1>1 DEF Typed, StreamsOK
  <1>3. ASSUME ~crashed, ~hasty' PROVE ServerOK' /\ \A r \in Readers : InformedOK(reader[r])' /\ ServedOK(reader[r])'
    <2>1. /\ ~hasty /\ producer.pc = "ended" /\ notice.pc \in {"none", "done"}
          /\ \A r \in Readers : reader[r].pc # "checking"
      BY <1>1, <1>3 DEF UnderWay
    <2>2. ServerOK /\ \A r \in Readers : ServedOK(reader[r])
      BY <1>3, <2>1 DEF SInv
    <2> QED  BY <1>1, <2>1, <2>2 DEF ServerOK, InformedOK, ServedOK
  <1> QED  BY <1>1, <1>2, <1>3 DEF SInv

LEMMA CrashServed ==
    ASSUME SInv, Crash
    PROVE  SInv'
  <1>1. /\ Typed /\ crashed' = TRUE /\ current' = 0 /\ stray' = {}
        /\ producer' = [pc |-> "dead", pending |-> 0, cancelled |-> FALSE]
        /\ notice' = [notice EXCEPT !.pc = IF notice.pc = "none" THEN notice.pc ELSE "done"]
        /\ reader' = [r \in Readers |-> IF Connected(r) THEN Eof(reader[r]) ELSE reader[r]]
        /\ UNCHANGED <<kinds, streams, journal>>
    BY DEF SInv, Crash
  <1>2. producer' \in Producer
    BY <1>1 DEF Producer
  <1>3. /\ notice' \in [pc : {"none", "persisting", "publishing", "journaling", "done"}, id : Nat]
        /\ notice'.pc # "journaling"
    BY <1>1 DEF Typed
  <1>4. \A r \in Readers : reader'[r] \in Client /\ reader'[r].pc # "live"
    BY <1>1, EofOK DEF Typed, Connected
  <1>5. reader' \in [Readers -> Client]
    BY <1>1, <1>4
  <1>6. StreamsOK'
    BY <1>1 DEF Typed, StreamsOK
  <1> QED  BY <1>1, <1>2, <1>3, <1>4, <1>5, <1>6 DEF SInv, Typed

LEMMA ServedInit ==
    Init => SInv
  <1> SUFFICES ASSUME Init PROVE SInv
    OBVIOUS
  <1>1. /\ kinds = <<>> /\ streams = <<>> /\ current = 0 /\ journal = <<>> /\ stray = {}
        /\ producer = [pc |-> "running", pending |-> 0, cancelled |-> FALSE]
        /\ notice = [pc |-> "none", id |-> 0] /\ reader = [r \in Readers |-> Off]
    BY DEF Init
  <1>2. Off \in Client /\ Off.pc = "off"
    BY DEF Off, Client
  <1>3. Typed
    BY <1>1, <1>2 DEF Typed, StreamsOK, Producer
  <1>4. ServerOK /\ \A r \in Readers : InformedOK(reader[r]) /\ ServedOK(reader[r])
    BY <1>1, <1>2 DEF ServerOK, InformedOK, ServedOK
  <1> QED  BY <1>3, <1>4 DEF SInv

LEMMA ServedSteps ==
    SInv /\ [Next]_vars => SInv'
  <1> SUFFICES ASSUME SInv, [Next]_vars PROVE SInv'
    OBVIOUS
  <1>1. CASE UNCHANGED vars
    BY <1>1 DEF vars, bridgeVars, journalVars, publisherVars, SInv, Typed, StreamsOK, ServerOK,
                InformedOK, ServedOK
  <1>2. CASE Next
    BY <1>2, PublishersServed, ClientsServed, CleanupServed, CrashServed DEF Next
  <1> QED  BY <1>1, <1>2

(* Whoever reads a stream of the bridge reads one that has ended or that    *)
(* the producer will end, whatever is cancelled, cut or cleaned up in time  *)
(* (InMemoryStreamBridge.subscribe, publish_end and cleanup), until the     *)
(* process dies: the safety half of ReadersEnd.                             *)
THEOREM NobodyStranded ==
    Spec => []SubscribersServed
  <1>1. SInv => SubscribersServed
    BY DEF SInv, ServedOK, SubscribersServed
  <1> QED  BY <1>1, ServedInit, ServedSteps, PTL DEF Spec
----------------------------------------------------------------------------
(* The sizes.  However often the run is read and cut off, and whether it is *)
(* cancelled or its process dies, the bridge retains Maxsize events at      *)
(* most, and no event gets to the journal twice: whoever is to append one   *)
(* is the only one who has it.                                              *)

Phase ==
    IF producer.pc \in {"running", "settled"} THEN 0
    ELSE IF producer.pc = "reported" THEN 1 ELSE 2
Shown == IF notice.pc \in {"journaling", "done"} THEN 1 ELSE 0
CountOK ==
    /\ Published <= Deltas + Phase + Shown
    /\ producer.cancelled => producer.pc = "running"

WindowOK(b, p) == b.lo <= p + 1 /\ b.hi <= p /\ b.hi - b.lo < Maxsize
WindowsOK ==
    /\ \A i \in 1..Len(streams) : WindowOK(streams[i], Published)
    /\ timer \in 0..Len(streams)

(* The events the journal is still to take.                                 *)
Coming ==
    stray \union {producer.pending} \union (IF notice.pc = "journaling" THEN {notice.id} ELSE {})

JournalSound ==
    /\ IsInjective(journal)
    /\ \A i \in 1..Len(journal) : journal[i] <= Published /\ journal[i] \notin Coming
ComingOK ==
    /\ producer.pending <= Published /\ producer.pending \notin stray
    /\ notice.id <= Published
    /\ notice.pc = "journaling" => notice.id # producer.pending /\ notice.id \notin stray
    /\ \A id \in stray : id <= Published

(* A client knows of p events and l streams at most.                        *)
Inside(s, p, l) ==
    /\ s.last <= p /\ s.seen \subseteq 1..p /\ s.done <= p
    /\ s.tries <= Budget /\ s.cuts <= MaxCuts
    /\ \A i \in 1..Len(s.todo) : s.todo[i] <= p
    /\ s.yielded \subseteq 1..p /\ s.from <= p + 1
    /\ s.stream <= l

FlagsOK == terminal \in BOOLEAN /\ hasty \in BOOLEAN /\ crashed \in BOOLEAN

BInv ==
    /\ CountOK /\ WindowsOK /\ JournalSound /\ ComingOK /\ FlagsOK
    /\ \A r \in Readers : Inside(reader[r], Published, Len(streams))

LEMMA SizesTyped ==
    ASSUME SInv
    PROVE  /\ Typed /\ Published \in Nat /\ Len(streams) \in Nat
           /\ \A r \in Readers : reader[r] \in Client
  <1>1. Typed
    BY DEF SInv
  <1> QED  BY <1>1 DEF Typed, StreamsOK, Published

LEMMA InsideGrows ==
    ASSUME NEW s \in Client, NEW p \in Nat, NEW l \in Nat, Inside(s, p, l),
           NEW q \in Nat, NEW m \in Nat, p <= q, l <= m
    PROVE  Inside(s, q, m)
  <1>1. /\ s.last \in Nat /\ s.done \in Nat /\ s.from \in Nat /\ s.stream \in Nat
        /\ s.todo \in Seq(Positive)
    BY DEF Client
  <1>2. 1..p \subseteq 1..q
    OBVIOUS
  <1>3. \A i \in 1..Len(s.todo) : s.todo[i] <= q
    <2>1. \A i \in 1..Len(s.todo) : s.todo[i] \in Nat
      BY <1>1 DEF Positive
    <2> QED  BY <2>1 DEF Inside
  <1>4. s.seen \subseteq 1..q /\ s.yielded \subseteq 1..q
    BY <1>2 DEF Inside
  <1>5. s.last <= q /\ s.done <= q /\ s.from <= q + 1 /\ s.stream <= m
    <2>1. s.last <= p /\ s.done <= p /\ s.from <= p + 1 /\ s.stream <= l
      BY DEF Inside
    <2> DEFINE a == s.last  b == s.done  c == s.from  d == s.stream
    <2>2. a \in Nat /\ b \in Nat /\ c \in Nat /\ d \in Nat
      BY <1>1
    <2>3. a <= p /\ b <= p /\ c <= p + 1 /\ d <= l
      BY <2>1
    <2> HIDE DEF a, b, c, d
    <2>4. a <= q /\ b <= q /\ c <= q + 1 /\ d <= m
      BY <2>2, <2>3
    <2> QED  BY <2>4 DEF a, b, c, d
  <1> QED  BY <1>3, <1>4, <1>5, <1>1 DEF Inside

LEMMA GotInside ==
    ASSUME NEW s \in Client, NEW p \in Nat, NEW l, Inside(s, p, l), NEW id \in 1..p
    PROVE  Inside(Got(s, id), p, l)
  <1> DEFINE d == IF s.done = 0 /\ kinds[id] \in Terminals THEN id ELSE s.done
             e == s.seen \union {id}
             n == [s EXCEPT !.seen = e, !.last = id, !.done = d]
  <1>1. e \subseteq 1..p /\ d <= p /\ id <= p
    BY DEF Inside
  <1>2. Got(s, id) = IF id \in s.seen THEN s ELSE n
    BY DEF Got
  <1> HIDE DEF d, e
  <1>3. Inside(n, p, l)
    BY <1>1 DEF Inside, Client
  <1> QED  BY <1>2, <1>3

LEMMA EofInside ==
    ASSUME NEW s \in Client, NEW p \in Nat, NEW l, Inside(s, p, l)
    PROVE  Inside(Eof(s), p, l)
  <1> DEFINE c == IF s.done # 0 THEN "complete" ELSE IF s.tries < Budget THEN "off" ELSE "incomplete"
             n == IF s.tries < Budget THEN s.tries + 1 ELSE s.tries
  <1>1. Eof(s) = [s EXCEPT !.pc = c, !.tries = n]
    BY DEF Eof
  <1>2. n <= Budget
    BY StreamAssumption DEF Inside, Client
  <1> HIDE DEF c, n
  <1> QED  BY <1>1, <1>2 DEF Inside, Client

(* Clients that do not move stay inside.                                    *)
LEMMA ReadersInside ==
    ASSUME SInv, BInv, UNCHANGED reader, Published' \in Nat, Len(streams') \in Nat,
           Published <= Published', Len(streams) <= Len(streams')
    PROVE  \A r \in Readers : Inside(reader'[r], Published', Len(streams'))
  <1> SUFFICES ASSUME NEW r \in Readers PROVE Inside(reader'[r], Published', Len(streams'))
    OBVIOUS
  <1>1. /\ reader[r] \in Client /\ Published \in Nat /\ Len(streams) \in Nat
        /\ Inside(reader[r], Published, Len(streams))
    BY SizesTyped DEF BInv
  <1>2. Inside(reader[r], Published', Len(streams'))
    BY <1>1, InsideGrows
  <1> QED  BY <1>2

(* The bridge.                                                              *)
LEMMA OpenedInside ==
    ASSUME SInv, BInv
    PROVE  /\ Opened \in Seq(Stream) /\ Len(Opened) \in Nat /\ Len(streams) <= Len(Opened)
           /\ Index \in 1..Len(Opened)
           /\ \A i \in 1..Len(Opened) : WindowOK(Opened[i], Published)
  <1>1. Typed /\ Published \in Nat /\ Len(streams) \in Nat
    BY SizesTyped
  <1>2. /\ Opened \in Seq(Stream) /\ Len(Opened) \in Nat /\ Len(streams) <= Len(Opened)
        /\ Index \in 1..Len(Opened)
    BY <1>1, OpenedTyped DEF Typed
  <1>3. \A i \in 1..Len(Opened) : WindowOK(Opened[i], Published)
    <2> DEFINE new == [lo |-> Published + 1, hi |-> Published, ended |-> FALSE]
    <2>1. WindowOK(new, Published)
      BY <1>1, StreamAssumption DEF WindowOK
    <2>2. Opened = IF current = 0 THEN Append(streams, new) ELSE streams
      BY DEF Opened
    <2> HIDE DEF new
    <2>3. streams \in Seq(Stream) /\ \A i \in 1..Len(streams) : WindowOK(streams[i], Published)
      BY <1>1 DEF Typed, StreamsOK, BInv, WindowsOK
    <2> QED  BY <1>1, <2>1, <2>2, <2>3
  <1> QED  BY <1>2, <1>3

LEMMA BridgedInside ==
    ASSUME SInv, BInv, NEW kind \in Kinds, Bridged(kind)
    PROVE  /\ WindowsOK' /\ Published' = Published + 1 /\ Published \in Nat
           /\ Len(streams') \in Nat /\ Len(streams) <= Len(streams')
  <1> DEFINE n == With(Opened[Index], Published + 1, kind)
             p == Published + 1
  <1>1. /\ Typed /\ Published \in Nat /\ p \in Nat /\ Len(streams) \in Nat
        /\ kinds' = Append(kinds, kind)
        /\ streams' = [Opened EXCEPT ![Index] = n]
        /\ timer' = IF kind = "closed" /\ timer = 0 THEN Index ELSE timer
    BY SizesTyped DEF Bridged
  <1>2. Published' = p
    BY <1>1 DEF Published, Typed
  <1>3. /\ Opened \in Seq(Stream) /\ Len(Opened) \in Nat /\ Len(streams) <= Len(Opened)
        /\ Index \in 1..Len(Opened)
        /\ \A i \in 1..Len(Opened) : WindowOK(Opened[i], Published)
    BY OpenedInside
  <1>4. WindowOK(n, p)
    <2>1. Opened[Index].lo \in Nat /\ Opened[Index].lo <= Published + 1 /\ Maxsize \in Nat \ {0}
      <3>1. Opened[Index] \in Stream /\ WindowOK(Opened[Index], Published)
        BY <1>3
      <3> QED  BY <3>1, StreamAssumption DEF Stream, Positive, WindowOK
    <2> DEFINE a == Opened[Index].lo
               l == Trimmed(a, p)
    <2>2. n.lo = l /\ n.hi = p
      BY DEF With
    <2>3. a \in Nat /\ a <= p /\ p \in Nat
      BY <1>1, <2>1
    <2> HIDE DEF n, a, p
    <2>4. l <= p + 1 /\ p - l < Maxsize
      BY <2>1, <2>3 DEF Trimmed
    <2> HIDE DEF l
    <2> QED  BY <2>2, <2>3, <2>4 DEF WindowOK
  <1> HIDE DEF n
  <1>5. /\ Len(streams') = Len(Opened) /\ streams'[Index] = n
        /\ \A i \in 1..Len(Opened) : i # Index => streams'[i] = Opened[i]
    BY <1>1, <1>3
  <1>6. \A i \in 1..Len(streams') : WindowOK(streams'[i], p)
    <2> SUFFICES ASSUME NEW i \in 1..Len(Opened), i # Index PROVE WindowOK(streams'[i], p)
      BY <1>4, <1>5
    <2>1. WindowOK(Opened[i], Published) /\ Opened[i] \in Stream /\ streams'[i] = Opened[i]
      BY <1>3, <1>5
    <2> QED  BY <1>1, <2>1 DEF WindowOK, Stream, Positive
  <1>7. timer' \in 0..Len(streams')
    <2>1. timer \in 0..Len(streams)
      BY DEF BInv, WindowsOK
    <2> QED  BY <1>1, <1>3, <1>5, <2>1
  <1> QED  BY <1>1, <1>2, <1>3, <1>5, <1>6, <1>7 DEF WindowsOK

(* The journal: an event is appended by who has it, or nothing is.          *)
LEMMA Lands ==
    ASSUME Typed, JournalSound, NEW id \in Coming, id # 0, id \in Nat, id <= Published,
           journal' = Append(journal, id), Published' = Published,
           \A e \in Coming' : e = 0 \/ (e \in Coming /\ e # id)
    PROVE  JournalSound'
  <1>1. /\ journal \in Seq(Positive) /\ Len(journal) \in Nat /\ DOMAIN journal = 1..Len(journal)
        /\ journal' \in Seq(Nat) /\ Len(journal') = Len(journal) + 1
        /\ DOMAIN journal' = 1..Len(journal')
        /\ \A i \in 1..Len(journal) : journal'[i] = journal[i] /\ journal[i] # 0
        /\ journal'[Len(journal) + 1] = id
    BY DEF Typed, Positive
  <1>2. \A i \in 1..Len(journal') : i \in 1..Len(journal) \/ i = Len(journal) + 1
    BY <1>1
  <1>3. \A i \in 1..Len(journal) : journal[i] # id /\ journal[i] <= Published /\ journal[i] \notin Coming
    BY DEF JournalSound
  <1>4. IsInjective(journal')
    <2> SUFFICES ASSUME NEW i \in 1..Len(journal'), NEW j \in 1..Len(journal'),
                        journal'[i] = journal'[j]
                 PROVE  i = j
      BY <1>1 DEF IsInjective
    <2>1. \A a, b \in 1..Len(journal) : journal[a] = journal[b] => a = b
      BY <1>1 DEF JournalSound, IsInjective
    <2> QED  BY <1>1, <1>2, <1>3, <2>1
  <1>5. \A i \in 1..Len(journal') : journal'[i] <= Published' /\ journal'[i] \notin Coming'
    BY <1>1, <1>2, <1>3
  <1> QED  BY <1>4, <1>5 DEF JournalSound

LEMMA NothingLands ==
    ASSUME Typed, JournalSound, UNCHANGED journal, Published \in Nat, Published' \in Nat,
           Published <= Published',
           \A e \in Coming' : e = 0 \/ e \in Coming \/ e = Published + 1
    PROVE  JournalSound'
  <1>1. journal \in Seq(Positive) /\ \A i \in 1..Len(journal) : journal[i] \in Nat /\ journal[i] # 0
    BY DEF Typed, Positive
  <1>2. \A i \in 1..Len(journal) : journal[i] <= Published /\ journal[i] \notin Coming
    BY DEF JournalSound
  <1>3. \A i \in 1..Len(journal) : journal[i] <= Published' /\ journal[i] \notin Coming'
    BY <1>1, <1>2
  <1> QED  BY <1>3 DEF JournalSound

(* A step of a publisher that leaves the bridge alone.                      *)
LEMMA BridgeInside ==
    ASSUME SInv, BInv, UNCHANGED <<bridgeVars, crashed, reader>>,
           terminal' \in BOOLEAN, CountOK', JournalSound', ComingOK'
    PROVE  BInv'
  <1>1. UNCHANGED <<kinds, streams, timer, hasty>> /\ Published' = Published
    BY DEF bridgeVars, Published
  <1>2. Published \in Nat /\ Len(streams) \in Nat
    BY SizesTyped
  <1>3. \A r \in Readers : Inside(reader'[r], Published', Len(streams'))
    BY <1>1, <1>2, ReadersInside
  <1>4. WindowsOK' /\ FlagsOK'
    BY <1>1 DEF BInv, WindowsOK, FlagsOK
  <1> QED  BY <1>3, <1>4 DEF BInv

LEMMA PublishInside ==
    ASSUME SInv, BInv, NEW kind \in Kinds, NEW pc \in {"running", "reported", "closing"},
           Quiet, Publish(kind, pc), CountOK'
    PROVE  BInv'
  <1> DEFINE n == Published + 1
  <1>1. /\ Typed /\ Bridged(kind) /\ producer.pending = 0
        /\ producer' = [producer EXCEPT !.pc = pc, !.pending = n]
        /\ UNCHANGED <<journal, terminal, stray, notice, crashed, reader, hasty>>
    BY DEF SInv, Publish, Bridged, journalVars, Quiet
  <1>2. /\ WindowsOK' /\ Published' = n /\ Published \in Nat
        /\ Len(streams') \in Nat /\ Len(streams) <= Len(streams')
    BY <1>1, BridgedInside
  <1>3. \A r \in Readers : Inside(reader'[r], Published', Len(streams'))
    BY <1>1, <1>2, ReadersInside
  <1>4. producer'.pending = n
    BY <1>1 DEF Typed, Producer
  <1>5. stray \subseteq Nat /\ notice.id \in Nat
    BY <1>1 DEF Typed, Positive
  <1>6. ComingOK'
    <2>1. notice.id <= Published /\ \A id \in stray : id <= Published
      BY DEF BInv, ComingOK
    <2>2. notice.pc = "journaling" => notice.id \notin stray
      BY DEF BInv, ComingOK
    <2> QED  BY <1>1, <1>2, <1>4, <1>5, <2>1, <2>2 DEF ComingOK
  <1>7. JournalSound'
    <2>1. \A e \in Coming' : e = 0 \/ e \in Coming \/ e = n
      BY <1>1, <1>4 DEF Coming
    <2> QED  BY <1>1, <1>2, <2>1, NothingLands DEF BInv
  <1> QED  BY <1>1, <1>2, <1>3, <1>6, <1>7 DEF BInv, FlagsOK

LEMMA EmitNoticeInside ==
    ASSUME SInv, BInv, EmitNotice
    PROVE  BInv'
  <1> DEFINE n == Published + 1
  <1>1. /\ Typed /\ Bridged("notice") /\ notice.pc = "publishing"
        /\ notice' = [pc |-> "journaling", id |-> n]
        /\ UNCHANGED <<journal, terminal, stray, producer, crashed, reader, hasty>>
    BY DEF SInv, EmitNotice, Bridged, journalVars
  <1>2. /\ WindowsOK' /\ Published' = n /\ Published \in Nat
        /\ Len(streams') \in Nat /\ Len(streams) <= Len(streams')
    BY <1>1, BridgedInside DEF Kinds
  <1>3. \A r \in Readers : Inside(reader'[r], Published', Len(streams'))
    BY <1>1, <1>2, ReadersInside
  <1>4. stray \subseteq Nat /\ producer.pending \in Nat
    BY <1>1 DEF Typed, Positive, Producer
  <1>5. ComingOK'
    <2>1. /\ producer.pending <= Published /\ producer.pending \notin stray
          /\ \A id \in stray : id <= Published
      BY DEF BInv, ComingOK
    <2> QED  BY <1>1, <1>2, <1>4, <2>1 DEF ComingOK
  <1>6. JournalSound'
    <2>1. \A e \in Coming' : e = 0 \/ e \in Coming \/ e = n
      BY <1>1 DEF Coming
    <2> QED  BY <1>1, <1>2, <2>1, NothingLands DEF BInv
  <1>7. CountOK'
    <2>1. Shown = 0 /\ Shown' = 1 /\ Phase' = Phase /\ Phase \in Nat /\ Deltas \in Nat
      BY <1>1, StreamAssumption DEF Shown, Phase
    <2> QED  BY <1>1, <1>2, <2>1 DEF BInv, CountOK
  <1> QED  BY <1>1, <1>2, <1>3, <1>5, <1>6, <1>7 DEF BInv, FlagsOK

LEMMA EndInside ==
    ASSUME SInv, BInv, End
    PROVE  BInv'
  <1> DEFINE n == [Opened[Index] EXCEPT !.ended = TRUE]
  <1>1. /\ Typed /\ producer.pc = "closing" /\ producer' = [producer EXCEPT !.pc = "ended"]
        /\ streams' = [Opened EXCEPT ![Index] = n]
        /\ timer' = IF timer = 0 THEN Index ELSE timer
        /\ UNCHANGED <<kinds, hasty, journal, terminal, stray, notice, crashed, reader>>
    BY DEF SInv, End, journalVars
  <1>2. Published' = Published /\ Published \in Nat /\ Len(streams) \in Nat
    BY <1>1, SizesTyped DEF Published
  <1>3. /\ Opened \in Seq(Stream) /\ Len(Opened) \in Nat /\ Len(streams) <= Len(Opened)
        /\ Index \in 1..Len(Opened)
        /\ \A i \in 1..Len(Opened) : WindowOK(Opened[i], Published)
    BY OpenedInside
  <1>4. WindowOK(n, Published)
    <2>1. Opened[Index] \in Stream /\ WindowOK(Opened[Index], Published)
      BY <1>3
    <2>2. n.lo = Opened[Index].lo /\ n.hi = Opened[Index].hi
      BY <2>1 DEF Stream
    <2> QED  BY <2>1, <2>2 DEF WindowOK
  <1> HIDE DEF n
  <1>5. /\ Len(streams') = Len(Opened)
        /\ \A i \in 1..Len(Opened) : streams'[i] = IF i = Index THEN n ELSE Opened[i]
    BY <1>1, <1>3
  <1>6. WindowsOK'
    <2>1. \A i \in 1..Len(streams') : WindowOK(streams'[i], Published)
      BY <1>3, <1>4, <1>5
    <2>2. timer' \in 0..Len(streams')
      <3>1. timer \in 0..Len(streams)
        BY DEF BInv, WindowsOK
      <3> QED  BY <1>1, <1>2, <1>3, <1>5, <3>1
    <2> QED  BY <1>2, <2>1, <2>2 DEF WindowsOK
  <1>7. \A r \in Readers : Inside(reader'[r], Published', Len(streams'))
    BY <1>1, <1>2, <1>3, <1>5, ReadersInside
  <1>8. producer'.pc = "ended" /\ producer'.pending = producer.pending
        /\ producer'.cancelled = producer.cancelled
    BY <1>1 DEF Typed, Producer
  <1>9. CountOK'
    <2>1. Phase' = Phase /\ Shown' = Shown /\ ~producer.cancelled
      BY <1>1, <1>8 DEF Phase, Shown, BInv, CountOK
    <2> QED  BY <1>2, <1>8, <2>1 DEF BInv, CountOK
  <1>10. JournalSound' /\ ComingOK'
    <2>1. Coming' = Coming
      BY <1>1, <1>8 DEF Coming
    <2> QED  BY <1>1, <1>2, <1>8, <2>1 DEF BInv, JournalSound, ComingOK
  <1> QED  BY <1>1, <1>6, <1>7, <1>9, <1>10 DEF BInv, FlagsOK

LEMMA PublishersInside ==
    ASSUME SInv, BInv, ProducerStep \/ Cancel \/ RequestStep \/ (\E id \in stray : StrayLands(id))
    PROVE  BInv'
  <1> USE DEF journalVars, publisherVars
  <1>0. /\ Typed /\ journal \in Seq(Positive) /\ stray \subseteq Nat /\ 0 \notin stray
        /\ producer \in Producer /\ producer.pending \in Nat
        /\ notice \in [pc : {"none", "persisting", "publishing", "journaling", "done"}, id : Nat]
        /\ notice.pc = "journaling" => notice.id # 0
        /\ Published \in Nat /\ Deltas \in Nat /\ terminal \in BOOLEAN
        /\ Phase \in 0..2 /\ Shown \in 0..1
        /\ CountOK /\ JournalSound /\ ComingOK
    BY SizesTyped, StreamAssumption DEF SInv, Typed, Positive, Producer, Phase, Shown, BInv, FlagsOK
  <1>1. ASSUME NEW kind \in Kinds, NEW pc \in {"running", "reported", "closing"}, Publish(kind, pc)
        PROVE  /\ Published' = Published + 1 /\ notice' = notice
               /\ producer'.pc = pc /\ producer'.cancelled = producer.cancelled
    <2>1. /\ kinds' = Append(kinds, kind) /\ notice' = notice
          /\ producer' = [producer EXCEPT !.pc = pc, !.pending = Published + 1]
      BY <1>1 DEF Publish, Bridged
    <2> DEFINE n == Published + 1
    <2>2. Published' = Published + 1
      BY <1>0, <2>1 DEF Published, Typed
    <2> HIDE DEF n
    <2>3. producer' = [producer EXCEPT !.pc = pc, !.pending = n]
      BY <2>1 DEF n
    <2> QED  BY <1>0, <2>1, <2>2, <2>3 DEF Producer
  <1>2. CASE EmitDelta
    <2>1. Publish("delta", "running") /\ Quiet /\ Published < Deltas
      BY <1>2 DEF EmitDelta
    <2>2. CountOK'
      <3>1. /\ Published' = Published + 1 /\ notice' = notice
            /\ producer'.pc = "running" /\ producer'.cancelled = producer.cancelled
        BY <1>1, <2>1 DEF Kinds
      <3>2. Phase' = 0 /\ Shown' = Shown
        BY <3>1 DEF Phase, Shown
      <3> QED  BY <1>0, <2>1, <3>1, <3>2 DEF CountOK, Quiet
    <2> QED  BY <2>1, <2>2, PublishInside DEF Kinds
  <1>3. CASE EmitOutcome
    <2>1. Publish("outcome", "reported") /\ Quiet /\ producer.pc = "settled"
      BY <1>3 DEF EmitOutcome
    <2>2. CountOK'
      <3>1. /\ Published' = Published + 1 /\ notice' = notice
            /\ producer'.pc = "reported" /\ producer'.cancelled = producer.cancelled
        BY <1>1, <2>1 DEF Kinds
      <3>2. Phase = 0 /\ Phase' = 1 /\ Shown' = Shown
        BY <2>1, <3>1 DEF Phase, Shown
      <3> QED  BY <1>0, <2>1, <3>1, <3>2 DEF CountOK, Quiet
    <2> QED  BY <2>1, <2>2, PublishInside DEF Kinds
  <1>4. CASE EmitClosed
    <2>1. Publish("closed", "closing") /\ Quiet /\ producer.pc = "reported"
      BY <1>4 DEF EmitClosed
    <2>2. CountOK'
      <3>1. /\ Published' = Published + 1 /\ notice' = notice
            /\ producer'.pc = "closing" /\ producer'.cancelled = producer.cancelled
        BY <1>1, <2>1 DEF Kinds
      <3>2. Phase = 1 /\ Phase' = 2 /\ Shown' = Shown
        BY <2>1, <3>1 DEF Phase, Shown
      <3> QED  BY <1>0, <2>1, <3>1, <3>2 DEF CountOK, Quiet
    <2> QED  BY <2>1, <2>2, PublishInside DEF Kinds
  <1>5. ASSUME UNCHANGED bridgeVars PROVE Published' = Published
    BY <1>5 DEF bridgeVars, Published
  <1>6. CASE Settle
    <2>1. /\ producer' = [producer EXCEPT !.pc = "settled"] /\ terminal' = TRUE
          /\ producer.pc = "running" /\ Quiet
          /\ UNCHANGED <<bridgeVars, journal, stray, notice, crashed, reader>>
      BY <1>6 DEF Settle
    <2>2. /\ producer'.pc = "settled" /\ producer'.pending = producer.pending
          /\ producer'.cancelled = producer.cancelled /\ ~producer.cancelled
      BY <1>0, <2>1 DEF Producer, Quiet
    <2>3. Phase' = Phase /\ Shown' = Shown /\ Coming' = Coming /\ Published' = Published
      BY <1>5, <2>1, <2>2 DEF Phase, Shown, Coming
    <2>4. CountOK' /\ JournalSound' /\ ComingOK'
      BY <1>0, <2>1, <2>2, <2>3 DEF CountOK, JournalSound, ComingOK
    <2> QED  BY <2>1, <2>4, BridgeInside
  <1>7. CASE Journaled
    <2>1. /\ producer' = [producer EXCEPT !.pending = 0]
          /\ journal' = Append(journal, producer.pending) /\ producer.pending # 0
          /\ UNCHANGED <<bridgeVars, terminal, stray, notice, crashed, reader>>
      BY <1>7 DEF Journaled
    <2>2. producer'.pc = producer.pc /\ producer'.pending = 0
          /\ producer'.cancelled = producer.cancelled
      BY <1>0, <2>1 DEF Producer
    <2>3. Phase' = Phase /\ Shown' = Shown /\ Published' = Published
      BY <1>5, <2>1, <2>2 DEF Phase, Shown
    <2>4. CountOK' /\ ComingOK'
      BY <1>0, <2>1, <2>2, <2>3 DEF CountOK, ComingOK
    <2>5. JournalSound'
      <3>1. \A e \in Coming' : e = 0 \/ (e \in Coming /\ e # producer.pending)
        BY <1>0, <2>1, <2>2 DEF Coming, ComingOK
      <3>2. producer.pending \in Coming /\ producer.pending <= Published
        BY <1>0 DEF Coming, ComingOK
      <3> QED  BY <1>0, <2>1, <2>3, <3>1, <3>2, Lands
    <2> QED  BY <1>0, <2>1, <2>4, <2>5, BridgeInside
  <1>8. CASE Interrupted
    <2>1. /\ producer' = [pc |-> "reported", pending |-> 0, cancelled |-> FALSE] /\ terminal' = TRUE
          /\ stray' = stray \union ({producer.pending} \ {0}) /\ producer.cancelled
          /\ UNCHANGED <<bridgeVars, journal, notice, crashed, reader>>
      BY <1>8 DEF Interrupted
    <2>2. Phase = 0 /\ Phase' = 1 /\ Shown' = Shown /\ Published' = Published
      BY <1>0, <1>5, <2>1 DEF Phase, Shown, CountOK
    <2>3. CountOK'
      BY <1>0, <2>1, <2>2 DEF CountOK
    <2>4. ComingOK'
      BY <1>0, <2>1, <2>2 DEF ComingOK
    <2>5. JournalSound'
      <3>1. \A e \in Coming' : e = 0 \/ e \in Coming
        BY <2>1 DEF Coming
      <3> QED  BY <1>0, <2>1, <2>2, <3>1, NothingLands
    <2> QED  BY <2>1, <2>3, <2>4, <2>5, BridgeInside
  <1>9. CASE Cancel
    <2>1. /\ producer' = [producer EXCEPT !.cancelled = TRUE] /\ producer.pc = "running"
          /\ notice' = [notice EXCEPT !.pc = "persisting"] /\ notice.pc = "none"
          /\ UNCHANGED <<bridgeVars, journal, terminal, stray, crashed, reader>>
      BY <1>9 DEF Cancel
    <2>2. /\ producer'.pc = "running" /\ producer'.pending = producer.pending
          /\ notice'.pc = "persisting" /\ notice'.id = notice.id
      BY <1>0, <2>1 DEF Producer
    <2>3. Phase' = Phase /\ Shown' = Shown /\ Published' = Published /\ Coming' = Coming
      BY <1>5, <2>1, <2>2 DEF Phase, Shown, Coming
    <2>4. CountOK' /\ JournalSound' /\ ComingOK'
      BY <1>0, <2>1, <2>2, <2>3 DEF CountOK, JournalSound, ComingOK
    <2> QED  BY <1>0, <2>1, <2>4, BridgeInside
  <1>10. CASE Persist
    <2>1. /\ notice.pc = "persisting" /\ notice' = [notice EXCEPT !.pc = "publishing"]
          /\ terminal' = TRUE
          /\ UNCHANGED <<bridgeVars, journal, stray, producer, crashed, reader>>
      BY <1>10 DEF Persist
    <2>2. notice'.pc = "publishing" /\ notice'.id = notice.id
      BY <1>0, <2>1
    <2>3. Phase' = Phase /\ Shown' = Shown /\ Published' = Published /\ Coming' = Coming
      BY <1>5, <2>1, <2>2 DEF Phase, Shown, Coming
    <2>4. CountOK' /\ JournalSound' /\ ComingOK'
      BY <1>0, <2>1, <2>2, <2>3 DEF CountOK, JournalSound, ComingOK
    <2> QED  BY <2>1, <2>4, BridgeInside
  <1>11. CASE NoticeJournaled
    <2>1. /\ notice.pc = "journaling" /\ notice' = [notice EXCEPT !.pc = "done"]
          /\ journal' = Append(journal, notice.id)
          /\ UNCHANGED <<bridgeVars, terminal, stray, producer, crashed, reader>>
      BY <1>11 DEF NoticeJournaled
    <2>2. notice'.pc = "done" /\ notice'.id = notice.id /\ notice.id \in Nat
      BY <1>0, <2>1
    <2>3. Phase' = Phase /\ Shown' = Shown /\ Published' = Published
      BY <1>5, <2>1, <2>2 DEF Phase, Shown
    <2>4. CountOK' /\ ComingOK'
      BY <1>0, <2>1, <2>2, <2>3 DEF CountOK, ComingOK
    <2>5. JournalSound'
      <3>1. \A e \in Coming' : e = 0 \/ (e \in Coming /\ e # notice.id)
        BY <1>0, <2>1, <2>2 DEF Coming, ComingOK
      <3>2. notice.id \in Coming /\ notice.id <= Published
        BY <1>0, <2>1 DEF Coming, ComingOK
      <3> QED  BY <1>0, <2>1, <2>2, <2>3, <3>1, <3>2, Lands
    <2> QED  BY <1>0, <2>1, <2>4, <2>5, BridgeInside
  <1>12. ASSUME NEW id \in stray, StrayLands(id) PROVE BInv'
    <2>1. /\ stray' = stray \ {id} /\ journal' = Append(journal, id)
          /\ UNCHANGED <<bridgeVars, terminal, producer, notice, crashed, reader>>
      BY <1>12 DEF StrayLands
    <2>2. id \in Nat /\ id # 0 /\ id <= Published
      BY <1>0 DEF ComingOK
    <2>3. Phase' = Phase /\ Shown' = Shown /\ Published' = Published
      BY <1>5, <2>1 DEF Phase, Shown
    <2>4. CountOK' /\ ComingOK'
      BY <1>0, <2>1, <2>3 DEF CountOK, ComingOK
    <2>5. JournalSound'
      <3>1. \A e \in Coming' : e = 0 \/ (e \in Coming /\ e # id)
        BY <1>0, <2>1 DEF Coming, ComingOK
      <3>2. id \in Coming
        BY DEF Coming
      <3> QED  BY <1>0, <2>1, <2>2, <2>3, <3>1, <3>2, Lands
    <2> QED  BY <1>0, <2>1, <2>4, <2>5, BridgeInside
  <1> QED  BY <1>2, <1>3, <1>4, <1>6, <1>7, <1>8, <1>9, <1>10, <1>11, <1>12, EndInside,
              EmitNoticeInside DEF ProducerStep, RequestStep

(* A client moves.                                                          *)
LEMMA OneInside ==
    ASSUME SInv, BInv, NEW r \in Readers, NEW s \in Client, SetReader(r, s),
           Inside(s, Published, Len(streams')), WindowsOK',
           Len(streams') \in Nat, Len(streams) <= Len(streams'),
           UNCHANGED <<kinds, hasty, journalVars, publisherVars>>
    PROVE  BInv'
  <1>1. /\ Published' = Published /\ Published \in Nat /\ Len(streams) \in Nat
        /\ UNCHANGED <<journal, terminal, stray, producer, notice, crashed, hasty>>
    BY SizesTyped DEF Published, journalVars, publisherVars
  <1>2. \A q \in Readers : Inside(reader'[q], Published', Len(streams'))
    <2> SUFFICES ASSUME NEW q \in Readers PROVE Inside(reader'[q], Published, Len(streams'))
      BY <1>1
    <2>1. /\ reader[q] \in Client /\ Inside(reader[q], Published, Len(streams))
          /\ reader'[q] = IF q = r THEN s ELSE reader[q]
      BY SizesTyped DEF SInv, Typed, SetReader, BInv
    <2>2. Inside(reader[q], Published, Len(streams'))
      BY <1>1, <2>1, InsideGrows
    <2> QED  BY <2>1, <2>2
  <1>3. CountOK' /\ JournalSound' /\ ComingOK' /\ FlagsOK'
    BY <1>1 DEF BInv, CountOK, JournalSound, ComingOK, FlagsOK, Phase, Shown, Coming
  <1> QED  BY <1>2, <1>3 DEF BInv

LEMMA ClientInside ==
    ASSUME SInv, BInv, NEW r \in Readers, NEW s \in Client, SetReader(r, s),
           Inside(s, Published, Len(streams)),
           UNCHANGED <<bridgeVars, journalVars, publisherVars>>
    PROVE  BInv'
  <1>1. UNCHANGED <<kinds, streams, timer, hasty>> /\ Len(streams) \in Nat
    BY SizesTyped DEF bridgeVars
  <1>2. WindowsOK'
    BY <1>1 DEF BInv, WindowsOK, Published
  <1> QED  BY <1>1, <1>2, OneInside

LEMMA ConnectInside ==
    ASSUME SInv, BInv, NEW r \in Readers, Connect(r)
    PROVE  BInv'
  <1> DEFINE m == ReplayFrom(reader[r].last)
             T == SubSeq(journal, m, Len(journal))
             c == journal # <<>> /\ kinds[Last(journal)] = "closed"
             s == [reader[r] EXCEPT !.pc = "replaying", !.yielded = {}, !.from = reader[r].last,
                                    !.todo = T, !.closes = c]
  <1>1. /\ reader[r] \in Client /\ journal \in Seq(Positive) /\ DOMAIN journal = 1..Len(journal)
        /\ Len(journal) \in Nat /\ Inside(reader[r], Published, Len(streams)) /\ Published \in Nat
    BY SizesTyped DEF SInv, Typed, BInv
  <1>2. m \in Nat /\ m >= 1
    <2>1. CASE \E i \in DOMAIN journal : journal[i] = reader[r].last
      <3> DEFINE i == CHOOSE i \in DOMAIN journal : journal[i] = reader[r].last
      <3>1. i \in 1..Len(journal) /\ m = 1 + i
        BY <1>1, <2>1 DEF ReplayFrom
      <3> HIDE DEF m, i
      <3> QED  BY <1>1, <3>1
    <2>2. CASE ~\E i \in DOMAIN journal : journal[i] = reader[r].last
      <3>1. m = 1
        BY <2>2 DEF ReplayFrom
      <3> HIDE DEF m
      <3> QED  BY <3>1
    <2> QED  BY <2>1, <2>2
  <1> HIDE DEF m
  <1>3. T \in Seq(Positive) /\ \A i \in 1..Len(T) : T[i] <= Published
    <2>1. \A i \in m..Len(journal) : journal[i] \in Positive
      BY <1>1, <1>2
    <2>2. /\ T \in Seq(Positive)
          /\ Len(T) = IF m <= Len(journal) THEN Len(journal) - m + 1 ELSE 0
          /\ \A i \in 1..(Len(journal) - m + 1) : T[i] = journal[m + i - 1]
      BY <1>1, <1>2, <2>1, SubSeqProperties
    <2>3. \A i \in 1..Len(journal) : journal[i] <= Published
      BY DEF BInv, JournalSound
    <2> HIDE DEF T
    <2>4. ASSUME NEW i \in 1..Len(T) PROVE T[i] <= Published
      <3>1. i \in 1..(Len(journal) - m + 1) /\ m + i - 1 \in 1..Len(journal)
        BY <1>1, <1>2, <2>2
      <3> QED  BY <2>2, <2>3, <3>1
    <2> QED  BY <2>2, <2>4
  <1>4. c \in BOOLEAN
    OBVIOUS
  <1>5. SetReader(r, s) /\ UNCHANGED <<bridgeVars, journalVars, publisherVars>>
    BY DEF Connect, m
  <1> HIDE DEF T, c
  <1>6. s \in Client
    BY <1>1, <1>3, <1>4 DEF Client
  <1>7. Inside(s, Published, Len(streams))
    <2>1. reader[r].last \in Nat /\ reader[r].last <= Published + 1
      BY <1>1 DEF Client, Inside
    <2> QED  BY <1>1, <1>3, <2>1 DEF Inside, Client
  <1> HIDE DEF s
  <1> QED  BY <1>5, <1>6, <1>7, ClientInside

LEMMA EofSteps ==
    ASSUME SInv, BInv, NEW r \in Readers, NEW s \in Client, SetReader(r, Eof(s)),
           Inside(s, Published, Len(streams)),
           UNCHANGED <<bridgeVars, journalVars, publisherVars>>
    PROVE  BInv'
  <1>1. Eof(s) \in Client /\ Inside(Eof(s), Published, Len(streams))
    BY SizesTyped, EofOK, EofInside
  <1> QED  BY <1>1, ClientInside

LEMMA ReplayInside ==
    ASSUME SInv, BInv, NEW r \in Readers, Replay(r)
    PROVE  BInv'
  <1> DEFINE s == reader[r]
             id == Head(s.todo)
             t == Tail(s.todo)
             y == s.yielded \union {id}
             m == [s EXCEPT !.todo = t, !.from = id, !.yielded = y]
             p == Published
  <1>1. /\ s \in Client /\ s.todo # <<>> /\ s.todo \in Seq(Positive)
        /\ Inside(s, p, Len(streams)) /\ p \in Nat
    BY SizesTyped DEF SInv, Typed, Replay, Client, BInv
  <1>2. /\ id \in Positive /\ t \in Seq(Positive) /\ id \in 1..p
        /\ \A i \in 1..Len(t) : t[i] <= p
    <2>1. \A i \in 1..Len(s.todo) : s.todo[i] <= p
      BY <1>1 DEF Inside
    <2>2. /\ id \in Positive /\ t \in Seq(Positive) /\ Len(s.todo) \in Nat \ {0}
          /\ id = s.todo[1] /\ Len(t) = Len(s.todo) - 1
          /\ \A i \in 1..Len(t) : t[i] = s.todo[i + 1]
      BY <1>1, HeadTailProperties
    <2> DEFINE w == s.todo
               k == Len(w)
    <2> HIDE DEF id, t, w
    <2>3. k \in Nat \ {0} /\ id = w[1] /\ Len(t) = k - 1
      BY <2>2 DEF w
    <2>4. /\ \A i \in 1..Len(t) : t[i] = w[i + 1]
          /\ \A i \in 1..k : w[i] <= p
      BY <2>1, <2>2 DEF w
    <2> HIDE DEF k
    <2>5. id \in 1..p
      BY <1>1, <2>2, <2>3, <2>4 DEF Positive
    <2>6. \A i \in 1..(k - 1) : t[i] <= p
      BY <2>3, <2>4
    <2> QED  BY <2>2, <2>3, <2>5, <2>6
  <1>3. y \in SUBSET Nat /\ id \in Nat /\ y \subseteq 1..p
    BY <1>1, <1>2 DEF Client, Positive, Inside
  <1>4. SetReader(r, Got(m, id)) /\ UNCHANGED <<bridgeVars, journalVars, publisherVars>>
    BY DEF Replay
  <1> HIDE DEF id, t, y, p
  <1>5. m \in Client
    BY <1>1, <1>2, <1>3 DEF Client
  <1>6. Inside(m, p, Len(streams))
    <2>1. id <= p + 1
      BY <1>1, <1>2
    <2> QED  BY <1>1, <1>2, <1>3, <2>1 DEF Inside, Client
  <1> HIDE DEF m
  <1>7. Got(m, id) \in Client /\ Inside(Got(m, id), p, Len(streams))
    BY <1>1, <1>2, <1>5, <1>6, GotOK, GotInside
  <1> QED  BY <1>4, <1>7, ClientInside DEF p

LEMMA ReplayedInside ==
    ASSUME SInv, BInv, NEW r \in Readers, Replayed(r)
    PROVE  BInv'
  <1> DEFINE s == reader[r]
             e == IF current = 0 THEN "none" ELSE IF streams[current].ended THEN "yes" ELSE "no"
             n == [s EXCEPT !.pc = "checking", !.ended = e]
  <1>1. /\ s \in Client /\ UNCHANGED <<bridgeVars, journalVars, publisherVars>>
        /\ Inside(s, Published, Len(streams))
    BY DEF SInv, Typed, Replayed, BInv
  <1>2. CASE s.closes
    <2>1. SetReader(r, Eof(s))
      BY <1>2 DEF Replayed
    <2> QED  BY <1>1, <2>1, EofSteps
  <1>3. CASE ~s.closes
    <2>1. SetReader(r, n)
      BY <1>3 DEF Replayed
    <2>2. e \in {"no", "yes", "none"}
      OBVIOUS
    <2> HIDE DEF e
    <2>3. n \in Client /\ Inside(n, Published, Len(streams))
      BY <1>1, <2>2 DEF Client, Inside
    <2> HIDE DEF n
    <2> QED  BY <1>1, <2>1, <2>3, ClientInside
  <1> QED  BY <1>2, <1>3

LEMMA AttachInside ==
    ASSUME SInv, BInv, NEW r \in Readers, Attach(r)
    PROVE  BInv'
  <1> DEFINE s == reader[r]
             at == ResumeAt(Opened[Index], s.from)
             b == s.behind \/ Opened[Index].lo > s.from + 1
             x == Index
             n == [s EXCEPT !.pc = "live", !.stream = x, !.from = at, !.behind = b]
  <1>1. /\ s \in Client /\ Published \in Nat /\ Inside(s, Published, Len(streams))
        /\ streams' = Opened /\ SetReader(r, n) /\ Len(streams) \in Nat
        /\ UNCHANGED <<kinds, timer, hasty, journalVars, publisherVars>>
    BY SizesTyped DEF SInv, Typed, Attach, BInv
  <1>2. /\ Opened \in Seq(Stream) /\ Len(Opened) \in Nat /\ Len(streams) <= Len(Opened)
        /\ x \in 1..Len(Opened) /\ x \in Nat
        /\ \A i \in 1..Len(Opened) : WindowOK(Opened[i], Published)
    BY OpenedInside
  <1>3. at \in Nat /\ at <= Published + 1 /\ b \in BOOLEAN
    <2> DEFINE o == Opened[Index]
    <2>1. o \in Stream /\ WindowOK(o, Published) /\ s.from \in Nat
      BY <1>1, <1>2 DEF Client
    <2>2. o.lo \in Nat /\ o.hi \in Nat /\ o.lo <= Published + 1 /\ o.hi <= Published
      BY <2>1 DEF Stream, Positive, WindowOK
    <2>3. b \in BOOLEAN
      BY <1>1 DEF Client
    <2> DEFINE f == s.from
    <2>4. at = IF f \in o.lo .. o.hi THEN f + 1 ELSE o.lo
      BY DEF ResumeAt
    <2>5. f \in Nat
      BY <2>1
    <2> HIDE DEF o, f, at
    <2>6. at \in Nat /\ at <= Published + 1
      BY <1>1, <2>2, <2>4, <2>5
    <2> QED  BY <2>3, <2>6
  <1> HIDE DEF at, b, x
  <1>4. n \in Client
    BY <1>1, <1>2, <1>3 DEF Client
  <1>5. Inside(n, Published, Len(Opened))
    <2>1. Inside(s, Published, Len(Opened))
      BY <1>1, <1>2, InsideGrows
    <2>2. x <= Len(Opened)
      BY <1>2
    <2> QED  BY <1>1, <1>3, <2>1, <2>2 DEF Inside, Client
  <1> HIDE DEF n
  <1>6. WindowsOK'
    <2>1. timer \in 0..Len(streams) /\ Published' = Published
      BY <1>1 DEF BInv, WindowsOK, Published
    <2> QED  BY <1>1, <1>2, <2>1 DEF WindowsOK
  <1> QED  BY <1>1, <1>2, <1>4, <1>5, <1>6, OneInside

LEMMA FollowInside ==
    ASSUME SInv, BInv, NEW r \in Readers, Follow(r)
    PROVE  BInv'
  <1> DEFINE s == reader[r]
             b == streams[s.stream]
             id == IF s.from < b.lo THEN b.lo ELSE s.from
             d == s.behind \/ s.from < b.lo
             n == id + 1
             y == s.yielded \union {id}
             m == [s EXCEPT !.from = n, !.behind = d, !.yielded = y]
             p == Published
  <1>1. /\ s \in Client /\ s.pc = "live" /\ Typed /\ id <= b.hi
        /\ Inside(s, p, Len(streams)) /\ p \in Nat
        /\ SetReader(r, IF id \in s.yielded THEN m ELSE Got(m, id))
        /\ UNCHANGED <<bridgeVars, journalVars, publisherVars>>
    BY SizesTyped DEF SInv, Typed, Follow, BInv
  <1>2. b.lo \in Positive /\ b.hi \in Nat /\ b.hi <= p /\ s.from \in Nat /\ s.behind \in BOOLEAN
    <2>1. s.stream \in 1..Len(streams)
      BY <1>1 DEF Typed
    <2>2. b \in Stream /\ WindowOK(b, p)
      BY <1>1, <2>1 DEF Typed, StreamsOK, BInv, WindowsOK
    <2> QED  BY <1>1, <2>2 DEF Stream, Client, WindowOK
  <1>3. id \in 1..p /\ n \in Nat /\ n <= p + 1 /\ d \in BOOLEAN /\ y \in SUBSET Nat /\ y \subseteq 1..p
    <2>1. id \in 1..p
      <3> DEFINE lo == b.lo  hi == b.hi  f == s.from
      <3>1. /\ lo \in Nat \ {0} /\ hi \in Nat /\ hi <= p /\ f \in Nat
            /\ id = (IF f < lo THEN lo ELSE f) /\ id <= hi
        BY <1>1, <1>2 DEF Positive
      <3> HIDE DEF lo, hi, f, id
      <3> QED  BY <1>1, <3>1
    <2>2. s.yielded \in SUBSET Nat /\ s.yielded \subseteq 1..p
      BY <1>1 DEF Client, Inside
    <2>3. d \in BOOLEAN
      BY <1>2
    <2> HIDE DEF id, s, b, d
    <2> QED  BY <1>1, <2>1, <2>2, <2>3
  <1> HIDE DEF id, d, n, y, p
  <1>4. m \in Client /\ Inside(m, p, Len(streams))
    <2>1. s \in Client /\ Inside(s, p, Len(streams))
      BY <1>1
    <2> HIDE DEF s
    <2>2. m \in Client
      BY <2>1, <1>3 DEF Client
    <2> QED  BY <2>1, <2>2, <1>3 DEF Inside, Client
  <1> HIDE DEF m
  <1>5. Got(m, id) \in Client /\ Inside(Got(m, id), p, Len(streams))
    <2>1. id \in Positive
      BY <1>3 DEF Positive
    <2> QED  BY <1>1, <1>3, <1>4, <2>1, GotOK, GotInside
  <1>6. CASE id \in s.yielded
    BY <1>1, <1>4, <1>6, ClientInside DEF p
  <1>7. CASE id \notin s.yielded
    BY <1>1, <1>5, <1>7, ClientInside DEF p
  <1> QED  BY <1>6, <1>7

LEMMA ClientsInside ==
    ASSUME SInv, BInv, NEW r \in Readers, ReaderStep(r) \/ Stop(r) \/ Cut(r)
    PROVE  BInv'
  <1>1. reader[r] \in Client /\ Inside(reader[r], Published, Len(streams))
    BY DEF SInv, Typed, BInv
  <1>2. CASE EndReplay(r) \/ StreamEnds(r)
    BY <1>1, <1>2, EofSteps DEF EndReplay, StreamEnds
  <1>3. CASE Stop(r)
    <2> DEFINE s == [reader[r] EXCEPT !.pc = "complete"]
    <2>1. SetReader(r, s) /\ UNCHANGED <<bridgeVars, journalVars, publisherVars>>
      BY <1>3 DEF Stop
    <2>2. s \in Client /\ Inside(s, Published, Len(streams))
      BY <1>1 DEF Client, Inside
    <2> HIDE DEF s
    <2> QED  BY <2>1, <2>2, ClientInside
  <1>4. CASE Cut(r)
    <2> DEFINE c == reader[r].cuts + 1
               s == [reader[r] EXCEPT !.cuts = c]
    <2>1. SetReader(r, Eof(s)) /\ UNCHANGED <<bridgeVars, journalVars, publisherVars>>
      BY <1>4 DEF Cut
    <2>2. c \in Nat /\ c <= MaxCuts
      <3>1. reader[r].cuts \in Nat /\ reader[r].cuts < MaxCuts
        BY <1>1, <1>4 DEF Client, Cut
      <3> QED  BY <3>1, StreamAssumption
    <2> HIDE DEF c
    <2>3. s \in Client /\ Inside(s, Published, Len(streams))
      BY <1>1, <2>2 DEF Client, Inside
    <2> HIDE DEF s
    <2> QED  BY <2>1, <2>3, EofSteps
  <1> QED  BY <1>2, <1>3, <1>4, ConnectInside, ReplayInside, ReplayedInside, AttachInside,
              FollowInside DEF ReaderStep

LEMMA CleanupInside ==
    ASSUME SInv, BInv, Cleanup
    PROVE  BInv'
  <1>1. /\ hasty' \in BOOLEAN /\ timer' = 0 /\ Len(streams) \in Nat /\ Published' = Published
        /\ UNCHANGED <<kinds, streams, journal, terminal, stray, producer, notice, crashed, reader>>
    BY SizesTyped DEF Cleanup, journalVars, publisherVars, Published, BInv, FlagsOK
  <1>2. WindowsOK' /\ FlagsOK'
    BY <1>1 DEF BInv, WindowsOK, FlagsOK
  <1>3. CountOK' /\ JournalSound' /\ ComingOK'
    BY <1>1 DEF BInv, CountOK, JournalSound, ComingOK, Phase, Shown, Coming
  <1> QED  BY <1>1, <1>2, <1>3 DEF BInv

LEMMA CrashInside ==
    ASSUME SInv, BInv, Crash
    PROVE  BInv'
  <1>1. /\ Typed /\ crashed' = TRUE /\ timer' = 0 /\ stray' = {}
        /\ producer' = [pc |-> "dead", pending |-> 0, cancelled |-> FALSE]
        /\ notice' = [notice EXCEPT !.pc = IF notice.pc = "none" THEN notice.pc ELSE "done"]
        /\ reader' = [r \in Readers |-> IF Connected(r) THEN Eof(reader[r]) ELSE reader[r]]
        /\ UNCHANGED <<kinds, streams, journal, terminal, hasty>>
    BY DEF SInv, Crash
  <1>2. Published' = Published /\ Published \in Nat /\ Len(streams) \in Nat /\ Deltas \in Nat
    BY <1>1, SizesTyped, StreamAssumption DEF Published
  <1>3. /\ notice'.id = notice.id /\ notice'.pc # "journaling"
        /\ (notice.pc \in {"journaling", "done"} => notice'.pc = "done")
    BY <1>1 DEF Typed
  <1>4. CountOK'
    <2>1. Phase \in 0..2 /\ Phase' = 2 /\ Shown \in 0..1 /\ Shown' \in 0..1 /\ Shown <= Shown'
      BY <1>1, <1>3 DEF Phase, Shown
    <2> QED  BY <1>1, <1>2, <2>1 DEF BInv, CountOK
  <1>5. ComingOK' /\ JournalSound'
    <2>1. \A e \in Coming' : e = 0 \/ e \in Coming \/ e = Published + 1
      BY <1>1, <1>3 DEF Coming
    <2>2. JournalSound'
      BY <1>1, <1>2, <2>1, NothingLands DEF BInv
    <2> QED  BY <1>1, <1>2, <1>3, <2>2 DEF BInv, ComingOK
  <1>6. \A r \in Readers : Inside(reader'[r], Published', Len(streams'))
    <2> SUFFICES ASSUME NEW r \in Readers PROVE Inside(reader'[r], Published, Len(streams))
      BY <1>1, <1>2
    <2>1. reader[r] \in Client /\ Inside(reader[r], Published, Len(streams))
      BY SizesTyped DEF BInv
    <2>2. Inside(Eof(reader[r]), Published, Len(streams))
      BY <1>2, <2>1, EofInside
    <2> QED  BY <1>1, <2>1, <2>2
  <1>7. WindowsOK' /\ FlagsOK'
    BY <1>1, <1>2 DEF BInv, WindowsOK, FlagsOK
  <1> QED  BY <1>4, <1>5, <1>6, <1>7 DEF BInv

LEMMA SizesInit ==
    Init => BInv
  <1> SUFFICES ASSUME Init PROVE BInv
    OBVIOUS
  <1>1. /\ kinds = <<>> /\ streams = <<>> /\ timer = 0 /\ journal = <<>> /\ stray = {}
        /\ producer = [pc |-> "running", pending |-> 0, cancelled |-> FALSE]
        /\ notice = [pc |-> "none", id |-> 0] /\ reader = [r \in Readers |-> Off]
        /\ Published = 0 /\ Len(streams) = 0 /\ Len(journal) = 0
    BY DEF Init, Published
  <1>2. CountOK
    BY <1>1, StreamAssumption DEF CountOK, Phase, Shown
  <1>3. WindowsOK
    BY <1>1 DEF WindowsOK
  <1>4. JournalSound /\ ComingOK
    <2>1. IsInjective(journal)
      BY <1>1 DEF IsInjective
    <2> QED  BY <1>1, <2>1 DEF JournalSound, ComingOK
  <1>5. Inside(Off, 0, 0)
    BY StreamAssumption DEF Off, Inside
  <1> QED  BY <1>1, <1>2, <1>3, <1>4, <1>5 DEF BInv, FlagsOK, Init

LEMMA SizesSteps ==
    SInv /\ BInv /\ [Next]_vars => BInv'
  <1> SUFFICES ASSUME SInv, BInv, [Next]_vars PROVE BInv'
    OBVIOUS
  <1>1. CASE UNCHANGED vars
    <2>1. UNCHANGED <<kinds, streams, timer, hasty, journal, terminal, stray, producer, notice,
                      crashed, reader>>
      BY <1>1 DEF vars, bridgeVars, journalVars, publisherVars
    <2> QED  BY <2>1 DEF BInv, CountOK, WindowsOK, JournalSound, ComingOK, FlagsOK, Phase, Shown,
                         Coming, Published
  <1>2. CASE Next
    BY <1>2, PublishersInside, ClientsInside, CleanupInside, CrashInside DEF Next
  <1> QED  BY <1>1, <1>2

(* The sizes are kept: the bridge retains Maxsize events of a run at most   *)
(* (_trim), no event is journaled twice (publish of                         *)
(* run_journal_bridge.py), and no client knows of an event or a stream that *)
(* was not published or opened.                                             *)
THEOREM SizesKept ==
    Spec => []BInv
  <1>1. Init => SInv /\ BInv
    BY ServedInit, SizesInit
  <1>2. (SInv /\ BInv) /\ [Next]_vars => (SInv /\ BInv)'
    BY ServedSteps, SizesSteps
  <1> QED  BY <1>1, <1>2, PTL DEF Spec

(* The bridge, the journal, the publishers and the clients keep their type. *)
THEOREM TypeCorrect ==
    Spec => []TypeOK
  <1>1. SInv /\ BInv => TypeOK
    <2> SUFFICES ASSUME SInv, BInv PROVE TypeOK
      OBVIOUS
    <2>0. Typed /\ Published \in Nat /\ MaxId \in Nat /\ Published <= MaxId /\ Len(streams) \in Nat
      <3>1. Typed /\ Published \in Nat /\ Len(streams) \in Nat /\ Deltas \in Nat
        BY SizesTyped, StreamAssumption
      <3>2. Phase \in 0..2 /\ Shown \in 0..1
        BY DEF Phase, Shown
      <3> QED  BY <3>1, <3>2 DEF BInv, CountOK, MaxId
    <2>1. ASSUME NEW q \in Seq(Positive), \A i \in 1..Len(q) : q[i] <= Published
          PROVE  q \in Seq(Ids)
      <3>1. /\ Len(q) \in Nat /\ DOMAIN q = 1..Len(q) /\ q = [i \in 1..Len(q) |-> q[i]]
            /\ \A i \in 1..Len(q) : q[i] \in Nat /\ q[i] # 0
        BY DEF Positive
      <3>2. \A i \in 1..Len(q) : q[i] \in Ids
        BY <2>0, <2>1, <3>1 DEF Ids
      <3>3. q \in [1..Len(q) -> Ids]
        BY <3>1, <3>2
      <3>4. q \in UNION {[1..n -> Ids] : n \in Nat}
        BY <3>1, <3>3, Zenon
      <3> QED  BY <3>4, SeqDef, Zenon
    <2>2. /\ \A i \in DOMAIN streams : /\ streams[i].lo \in 1..(MaxId + 1) /\ streams[i].hi \in 0..MaxId
                                       /\ streams[i].hi - streams[i].lo < Maxsize
                                       /\ streams[i].ended \in BOOLEAN
          /\ current \in 0..Len(streams) /\ timer \in 0..Len(streams)
      <3>1. streams \in Seq(Stream) /\ DOMAIN streams = 1..Len(streams) /\ current \in 0..Len(streams)
        BY <2>0 DEF Typed, StreamsOK
      <3>2. ASSUME NEW i \in 1..Len(streams)
            PROVE  /\ streams[i].lo \in 1..(MaxId + 1) /\ streams[i].hi \in 0..MaxId
                   /\ streams[i].hi - streams[i].lo < Maxsize
                   /\ streams[i].ended \in BOOLEAN
        <4>1. streams[i] \in Stream /\ WindowOK(streams[i], Published)
          BY <3>1 DEF BInv, WindowsOK
        <4> QED  BY <2>0, <4>1 DEF Stream, Positive, WindowOK
      <3> QED  BY <3>1, <3>2 DEF BInv, WindowsOK
    <2>3. journal \in Seq(Ids) /\ IsInjective(journal)
      BY <2>0, <2>1 DEF Typed, BInv, JournalSound
    <2>4. stray \subseteq Ids
      BY <2>0 DEF Typed, Positive, BInv, ComingOK, Ids
    <2>5. {terminal, hasty, crashed} \subseteq BOOLEAN
      BY DEF BInv, FlagsOK
    <2>6. /\ producer \in [pc : {"running", "settled", "reported", "closing", "ended", "dead"},
                           pending : 0..MaxId, cancelled : BOOLEAN]
      <3>1. producer \in Producer /\ producer.pending \in 0..MaxId
        BY <2>0 DEF Typed, Producer, BInv, ComingOK
      <3> QED  BY <3>1 DEF Producer
    <2>7. notice \in [pc : {"none", "persisting", "publishing", "journaling", "done"}, id : 0..MaxId]
      <3>1. notice.id \in 0..MaxId
        BY <2>0 DEF Typed, BInv, ComingOK
      <3> QED  BY <2>0, <3>1 DEF Typed
    <2>8. ASSUME NEW r \in Readers PROVE reader[r] \in ReaderState
      <3> DEFINE s == reader[r]
      <3>1. s \in Client /\ Inside(s, Published, Len(streams))
        BY <2>0, SizesTyped DEF BInv
      <3>2. /\ s.last \in Nat /\ s.done \in Nat /\ s.tries \in Nat /\ s.cuts \in Nat
            /\ s.from \in Nat /\ s.stream \in Nat /\ s.todo \in Seq(Positive)
        BY <3>1 DEF Client
      <3>3. /\ s.last <= Published /\ s.done <= Published /\ s.tries <= Budget /\ s.cuts <= MaxCuts
            /\ s.from <= Published + 1 /\ s.stream <= Len(streams)
            /\ \A i \in 1..Len(s.todo) : s.todo[i] <= Published
            /\ s.seen \subseteq 1..Published /\ s.yielded \subseteq 1..Published
        BY <3>1 DEF Inside
      <3>4. 1..Published \subseteq Ids
        BY <2>0 DEF Ids
      <3>5. s.todo \in Seq(Ids)
        BY <2>1, <3>2, <3>3
      <3> DEFINE a == s.last  b == s.done  c == s.tries  d == s.cuts  e == s.from  f == s.stream
      <3>6. /\ a \in Nat /\ b \in Nat /\ c \in Nat /\ d \in Nat /\ e \in Nat /\ f \in Nat
            /\ a <= Published /\ b <= Published /\ c <= Budget /\ d <= MaxCuts
            /\ e <= Published + 1 /\ f <= Len(streams)
        BY <3>2, <3>3
      <3> HIDE DEF a, b, c, d, e, f
      <3>7. /\ a \in 0..MaxId /\ b \in 0..MaxId /\ c \in 0..Budget /\ d \in 0..MaxCuts
            /\ e \in 0..(MaxId + 1) /\ f \in 0..Len(streams)
        BY <2>0, <3>6, StreamAssumption
      <3>8. /\ s.last \in 0..MaxId /\ s.done \in 0..MaxId /\ s.tries \in 0..Budget
            /\ s.cuts \in 0..MaxCuts /\ s.from \in 0..(MaxId + 1) /\ s.stream \in 0..Len(streams)
        BY <3>7 DEF a, b, c, d, e, f
      <3>9. s.seen \in SUBSET Ids /\ s.yielded \in SUBSET Ids
        BY <3>3, <3>4
      <3> HIDE DEF s
      <3>10. s \in ReaderState
        BY <3>1, <3>5, <3>8, <3>9 DEF Client, ReaderState
      <3> QED  BY <3>10 DEF s
    <2>9. reader \in [Readers -> ReaderState]
      BY <2>0, <2>8 DEF Typed
    <2> QED  BY <2>0, <2>2, <2>3, <2>4, <2>5, <2>6, <2>7, <2>9 DEF TypeOK, Typed
  <1>2. Spec => []SInv
    BY ServedInit, ServedSteps, PTL DEF Spec
  <1> QED  BY <1>1, <1>2, SizesKept, PTL
====
