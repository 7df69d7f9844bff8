------------------------ MODULE BackgroundQueueProofs ------------------------
(****************************************************************************)
(* Proofs about BackgroundQueue for any worker threads, callers, keys and   *)
(* sizes.  As long as no task of a key outlives its claim, the one that is  *)
(* pending has both the row of the key and its entry in _job_claims; and a  *)
(* claim on its way back is never that of a pending task.                   *)
(* And the shutdown: whatever is queued or in hand counts as unfinished, so *)
(* a stopped worker and a complete shutdown leave no task behind.           *)
(****************************************************************************)
EXTENDS BackgroundQueue, FiniteSetTheorems, SequenceTheorems, TLAPS

Actors == Workers \cup Callers
Holding == {"taken", "running", "resubmitting", "returned", "leaving"}

(* A claim of a key, if there is one, is that of a task of the key.         *)
Fits(n, k) == n # 0 => n \in 1..Len(keyOf) /\ keyOf[n] = k
KeyOK(k) == Fits(holder[k], k) /\ Fits(claims[k], k)

(* A task is queued once, or with one worker.                               *)
WorkerOK(w) ==
    /\ worker[w].task \in 0..Len(keyOf)
    /\ worker[w].pc \in Holding \cup {"released"} => worker[w].task # 0
    /\ worker[w].pc \in {"idle", "gone"} => worker[w].task = 0
    /\ worker[w].task # 0 => worker[w].task \notin Queued
    /\ \A v \in Workers : worker[v].task = worker[w].task => worker[w].task = 0 \/ v = w
QueuedOnce ==
    /\ \A i \in 1..Len(queue) : queue[i] \in 0..Len(keyOf)
    /\ \A i, j \in 1..Len(queue) : queue[i] = queue[j] => queue[i] = Stop \/ i = j

(* A pending task has the claims of its key.                                *)
Owns(t) ==
    keyOf[t] \notin outlived => holder[keyOf[t]] = t /\ claims[keyOf[t]] = t

(* A claim on its way back is not that of a pending task.                   *)
GivingOK(a) ==
    giving[a] # Nothing =>
        /\ Fits(giving[a].task, giving[a].key)
        /\ giving[a].task \in Pending => giving[a].key \in outlived

Typed ==
    /\ queue \in Seq(Nat) /\ keyOf \in Seq(Keys)
    /\ holder \in [Keys -> Nat] /\ claims \in [Keys -> Nat]
    /\ lapsed \subseteq outlived /\ outlived \subseteq Keys
    /\ worker \in [Workers ->
         [pc : Holding \cup {"idle", "released", "dead", "gone"}, task : Nat, dies : BOOLEAN]]
    /\ giving \in [Actors -> [key : Keys, task : Nat] \cup {Nothing}]

IInv ==
    /\ Typed
    /\ \A k \in Keys : KeyOK(k)
    /\ \A w \in Workers : WorkerOK(w)
    /\ QueuedOnce
    /\ \A t \in Pending : Owns(t)
    /\ \A a \in Actors : GivingOK(a)
    /\ KeysComeBack

Alive == Queued \cup InHand(Holding)

----------------------------------------------------------------------------
(* The queue as a set.                                                      *)

LEMMA InQueue ==
    ASSUME queue \in Seq(Nat)
    PROVE  \A t : t \in Queued <=> t # Stop /\ \E i \in 1..Len(queue) : queue[i] = t
  <1>1. DOMAIN queue = 1..Len(queue)
    OBVIOUS
  <1> QED  BY <1>1 DEF Queued, ToSet

LEMMA QueueGrows ==
    ASSUME queue \in Seq(Nat), NEW t \in Nat, queue' = Append(queue, t)
    PROVE  /\ queue' \in Seq(Nat)
           /\ Queued' = Queued \cup ({t} \ {Stop})
  <1>1. /\ queue' \in Seq(Nat) /\ Len(queue') = Len(queue) + 1 /\ Len(queue) \in Nat
        /\ \A i \in 1..Len(queue) : queue'[i] = queue[i]
        /\ queue'[Len(queue) + 1] = t
    OBVIOUS
  <1>2. DOMAIN queue = 1..Len(queue) /\ DOMAIN queue' = 1..Len(queue')
    BY <1>1
  <1>3. ASSUME NEW s PROVE s \in Queued' <=> s \in Queued \cup ({t} \ {Stop})
    <2>1. s \in Queued' <=> s # Stop /\ \E i \in 1..Len(queue') : queue'[i] = s
      BY <1>2 DEF Queued, ToSet
    <2>2. s \in Queued <=> s # Stop /\ \E i \in 1..Len(queue) : queue[i] = s
      BY <1>2 DEF Queued, ToSet
    <2>3. ASSUME NEW i \in 1..Len(queue')
          PROVE  i \in 1..Len(queue) \/ i = Len(queue) + 1
      BY <1>1
    <2>4. \A i \in 1..Len(queue) : i \in 1..Len(queue')
      BY <1>1
    <2>5. Len(queue) + 1 \in 1..Len(queue')
      BY <1>1
    <2> QED  BY <1>1, <2>1, <2>2, <2>3, <2>4, <2>5
  <1> QED  BY <1>1, <1>3

LEMMA QueueShrinks ==
    ASSUME queue \in Seq(Nat), queue # <<>>, queue' = Tail(queue), QueuedOnce, keyOf' = keyOf
    PROVE  /\ queue' \in Seq(Nat) /\ Head(queue) \in Nat /\ QueuedOnce'
           /\ Queued' \subseteq Queued
           /\ Queued \subseteq Queued' \cup {Head(queue)}
           /\ Head(queue) # Stop => Head(queue) \in Queued \ Queued'
  <1>1. /\ queue' \in Seq(Nat) /\ Len(queue) \in Nat /\ Len(queue) > 0
        /\ Len(queue') = Len(queue) - 1
        /\ Head(queue) = queue[1] /\ Head(queue) \in Nat
        /\ \A i \in 1..Len(queue') : queue'[i] = queue[i + 1]
    OBVIOUS
  <1>2. DOMAIN queue = 1..Len(queue) /\ DOMAIN queue' = 1..Len(queue')
    BY <1>1
  <1>3. \A s : s \in Queued' <=> s # Stop /\ \E i \in 1..Len(queue') : queue'[i] = s
    BY <1>2 DEF Queued, ToSet
  <1>4. \A s : s \in Queued <=> s # Stop /\ \E i \in 1..Len(queue) : queue[i] = s
    BY <1>2 DEF Queued, ToSet
  <1>5. \A i \in 1..Len(queue') : i + 1 \in 1..Len(queue) /\ i + 1 # 1 /\ i \in Int
    BY <1>1
  <1>6. \A i \in 1..Len(queue) : i = 1 \/ (i - 1 \in 1..Len(queue') /\ (i - 1) + 1 = i)
    BY <1>1
  <1>7. QueuedOnce'
    <2>1. ASSUME NEW i \in 1..Len(queue') PROVE queue'[i] \in 0..Len(keyOf)
      BY <1>1, <1>5 DEF QueuedOnce
    <2>2. ASSUME NEW i \in 1..Len(queue'), NEW j \in 1..Len(queue'), queue'[i] = queue'[j]
          PROVE  queue'[i] = Stop \/ i = j
      <3>1. queue[i + 1] = queue[j + 1]
        BY <1>1, <2>2
      <3>2. queue[i + 1] = Stop \/ i + 1 = j + 1
        BY <1>5, <3>1 DEF QueuedOnce
      <3> QED  BY <1>1, <3>2
    <2> QED  BY <2>1, <2>2 DEF QueuedOnce
  <1>8. Queued' \subseteq Queued
    <2>1. SUFFICES ASSUME NEW s, s \in Queued' PROVE s \in Queued
      OBVIOUS
    <2>2. PICK i \in 1..Len(queue') : s # Stop /\ queue'[i] = s
      BY <1>3, <2>1
    <2>3. queue[i + 1] = s /\ i + 1 \in 1..Len(queue)
      BY <1>1, <1>5, <2>2
    <2> QED  BY <1>4, <2>2, <2>3
  <1>9. Queued \subseteq Queued' \cup {Head(queue)}
    <2>1. SUFFICES ASSUME NEW s, s \in Queued, s # Head(queue) PROVE s \in Queued'
      OBVIOUS
    <2>2. PICK i \in 1..Len(queue) : s # Stop /\ queue[i] = s
      BY <1>4, <2>1
    <2>3. i # 1
      BY <1>1, <2>1, <2>2
    <2>4. i - 1 \in 1..Len(queue') /\ queue'[i - 1] = s
      BY <1>1, <1>6, <2>2, <2>3
    <2> QED  BY <1>3, <2>2, <2>4
  <1>10. Head(queue) # Stop => Head(queue) \in Queued \ Queued'
    <2>1. SUFFICES ASSUME Head(queue) # Stop PROVE Head(queue) \in Queued /\ Head(queue) \notin Queued'
      OBVIOUS
    <2>2. Head(queue) \in Queued
      BY <1>1, <1>4, <2>1
    <2>3. SUFFICES ASSUME NEW i \in 1..Len(queue'), queue'[i] = Head(queue) PROVE FALSE
      BY <1>3, <2>2
    <2>4. queue[i + 1] = queue[1] /\ i + 1 \in 1..Len(queue) /\ 1 \in 1..Len(queue) /\ i + 1 # 1
      BY <1>1, <1>5, <2>3
    <2> QED  BY <1>1, <2>1, <2>4 DEF QueuedOnce
  <1> QED  BY <1>1, <1>7, <1>8, <1>9, <1>10

----------------------------------------------------------------------------
(* Queued and pending tasks have a key.                                     *)
LEMMA Numbered ==
    ASSUME IInv
    PROVE  /\ \A t \in Queued : t \in 1..Len(keyOf)
           /\ \A t \in Pending : t \in 1..Len(keyOf) /\ keyOf[t] \in Keys
           /\ Len(keyOf) \in Nat
  <1>1. keyOf \in Seq(Keys) /\ Len(keyOf) \in Nat
    BY DEF IInv, Typed
  <1>2. ASSUME NEW t \in Queued PROVE t \in 1..Len(keyOf)
    <2>1. PICK i \in 1..Len(queue) : t # Stop /\ queue[i] = t
      BY InQueue DEF IInv, Typed
    <2> QED  BY <1>1, <2>1 DEF IInv, QueuedOnce, Stop
  <1>3. ASSUME NEW v \in Workers, worker[v].pc \in {"taken", "running"}
        PROVE  worker[v].task \in 1..Len(keyOf)
    BY <1>1, <1>3 DEF IInv, WorkerOK, Holding, Typed
  <1>4. ASSUME NEW t \in Pending PROVE t \in 1..Len(keyOf)
    BY <1>2, <1>3, <1>4 DEF Pending, InHand
  <1> QED  BY <1>1, <1>2, <1>4

(* A step that accepts no task: w is the worker that moves, if one does.    *)
LEMMA NoneAccepted ==
    ASSUME IInv, Typed', QueuedOnce', KeysComeBack', NEW w,
           keyOf' = keyOf, Queued' \subseteq Queued, outlived \subseteq outlived',
           \A v \in Workers \ {w} : worker'[v] = worker[v],
           w \in Workers =>
             /\ \/ worker'[w].task \in {0, worker[w].task}
                \/ worker'[w].task \in Queued \ Queued'
             /\ worker'[w].pc \in Holding \cup {"released"} => worker'[w].task # 0
             /\ worker'[w].pc \in {"idle", "gone"} => worker'[w].task = 0
             /\ worker'[w].pc \in {"taken", "running"} => worker'[w].task \in Pending,
           \A k \in Keys : \/ holder'[k] = holder[k]
                           \/ holder'[k] = 0
                              /\ (holder[k] \in Pending' => k \in outlived),
           \A k \in Keys : \/ claims'[k] = claims[k]
                           \/ claims'[k] = 0
                              /\ (claims[k] \in Pending' => k \in outlived),
           \A a \in Actors : giving'[a] = giving[a] \/ giving'[a] = Nothing \/ GivingOK(a)'
    PROVE  IInv'
  <1>1. \A k \in Keys : KeyOK(k)'
    BY DEF IInv, KeyOK, Fits
  <1>2. ASSUME NEW v \in Workers PROVE WorkerOK(v)'
    <2>1. /\ WorkerOK(v) /\ (w \in Workers => WorkerOK(w))
      BY DEF IInv
    <2>2. \A t \in Queued : t \in 1..Len(keyOf)
      BY Numbered
    <2>3. CASE v # w
      <3>1. worker'[v] = worker[v]
        BY <2>3
      <3>2. ASSUME NEW u \in Workers, worker'[u].task = worker'[v].task
            PROVE  worker'[v].task = 0 \/ u = v
        BY <2>1, <2>2, <3>1, <3>2 DEF WorkerOK
      <3> QED  BY <2>1, <3>1, <3>2 DEF WorkerOK
    <2>4. CASE v = w
      <3>1. worker'[v].task \in {0, worker[v].task} \/ worker'[v].task \in Queued \ Queued'
        BY <2>4
      <3>2. ASSUME NEW u \in Workers, worker'[u].task = worker'[v].task, u # v
            PROVE  worker'[v].task = 0
        <4>1. worker'[u] = worker[u] /\ WorkerOK(u)
          BY <2>4, <3>2 DEF IInv
        <4> QED  BY <2>1, <3>1, <3>2, <4>1 DEF WorkerOK
      <3>3. worker'[v].task \in 0..Len(keyOf)
        BY <2>1, <2>2, <3>1 DEF WorkerOK, IInv, Typed
      <3>4. worker'[v].task # 0 => worker'[v].task \notin Queued'
        BY <2>1, <3>1 DEF WorkerOK
      <3> QED  BY <2>4, <3>2, <3>3, <3>4 DEF WorkerOK
    <2> QED  BY <2>3, <2>4
  <1>3. Pending' \subseteq Pending
    <2>1. SUFFICES ASSUME NEW t \in Pending' PROVE t \in Pending
      OBVIOUS
    <2>2. CASE t \in Queued'
      BY <2>2 DEF Pending
    <2>3. CASE t \notin Queued'
      <3>1. PICK v \in Workers : worker'[v].pc \in {"taken", "running"} /\ worker'[v].task = t
        BY <2>1, <2>3 DEF Pending, InHand
      <3> QED  BY <3>1 DEF Pending, InHand
    <2> QED  BY <2>2, <2>3
  <1>4. ASSUME NEW t \in Pending' PROVE Owns(t)'
    <2>1. t \in Pending /\ Owns(t) /\ keyOf[t] \in Keys
      BY <1>3, Numbered DEF IInv
    <2> QED  BY <2>1 DEF Owns
  <1>5. ASSUME NEW a \in Actors PROVE GivingOK(a)'
    <2>1. GivingOK(a)
      BY DEF IInv
    <2>2. CASE giving'[a] = giving[a]
      BY <1>3, <2>1, <2>2 DEF GivingOK, Fits
    <2>3. CASE giving'[a] = Nothing
      BY <2>3 DEF GivingOK
    <2> QED  BY <2>2, <2>3
  <1> QED  BY <1>1, <1>2, <1>4, <1>5 DEF IInv

(* No key is lost by a step that keeps every task that is alive.            *)
LEMMA KeysStay ==
    ASSUME IInv, Alive \subseteq Alive', lapsed \cup kept \subseteq lapsed' \cup kept',
           \A k \in Keys : holder'[k] \in {holder[k], 0},
           DOMAIN giving' = DOMAIN giving,
           \A a \in DOMAIN giving : giving[a] # Nothing => giving'[a] = giving[a]
    PROVE  KeysComeBack'
  <1>1. SUFFICES ASSUME NEW k \in Keys, holder'[k] # 0, k \notin lapsed' \cup kept',
                        ~\E a \in DOMAIN giving' : giving'[a] = [key |-> k, task |-> holder'[k]]
                 PROVE  holder'[k] \in Alive'
    BY DEF KeysComeBack, Alive, Holding
  <1>2. holder'[k] = holder[k] /\ k \notin lapsed \cup kept
    BY <1>1
  <1>3. \A a \in DOMAIN giving : giving[a] # [key |-> k, task |-> holder[k]]
    <2>1. ASSUME NEW a \in DOMAIN giving, giving[a] = [key |-> k, task |-> holder[k]] PROVE FALSE
      <3>1. giving[a] # Nothing
        BY <1>1, <1>2, <2>1, QueueAssumption DEF Nothing
      <3> QED  BY <1>1, <1>2, <2>1, <3>1
    <2> QED  BY <2>1
  <1>4. holder[k] \in Alive
    BY <1>1, <1>2, <1>3 DEF IInv, KeysComeBack, Alive, Holding
  <1> QED  BY <1>2, <1>4

----------------------------------------------------------------------------
(* A task is accepted; a worker may leave its resubmission with it.         *)
LEMMA AcceptSteps ==
    ASSUME IInv, NEW a \in Actors, NEW k \in Keys, Accept(a, k), giving[a] = Nothing,
           Typed',
           \A v \in Workers :
             /\ worker'[v].task = worker[v].task
             /\ \/ worker'[v].pc = worker[v].pc
                \/ worker[v].pc = "resubmitting" /\ worker'[v].pc = "returned"
    PROVE  IInv'
  <1> DEFINE t == Len(keyOf) + 1
  <1>1. /\ ~Refused(k) /\ holder' = [holder EXCEPT ![k] = t] /\ lapsed' = lapsed \ {k}
        /\ keyOf' = Append(keyOf, k) /\ outlived' = outlived /\ kept' = kept
    BY DEF Accept, Claim, history
  <1>2. /\ Len(keyOf) \in Nat /\ Len(keyOf') = t /\ t \in Nat /\ t # 0
        /\ \A n \in 1..Len(keyOf) : keyOf'[n] = keyOf[n] /\ n \in 1..t /\ n # t
        /\ keyOf'[t] = k
    BY <1>1 DEF IInv, Typed
  <1>3. \A s \in Queued : s \in 1..Len(keyOf)
    BY Numbered
  <1>4. \A s \in Pending : s \in 1..Len(keyOf) /\ keyOf[s] \in Keys
    BY Numbered
  <1>5. IF Room THEN queue' = Append(queue, t) /\ claims' = [claims EXCEPT ![k] = t] /\ giving' = giving
                ELSE /\ queue' = queue /\ claims' = [claims EXCEPT ![k] = 0]
                     /\ giving' = [giving EXCEPT ![a] = [key |-> k, task |-> t]]
    BY DEF Accept
  <1>6. IF Room THEN Queued' = Queued \cup {t} ELSE Queued' = Queued
    <2>1. CASE Room
      <3>1. queue \in Seq(Nat) /\ t \in Nat /\ queue' = Append(queue, t)
        BY <1>2, <1>5, <2>1 DEF IInv, Typed
      <3> HIDE DEF t
      <3>2. Queued' = Queued \cup ({t} \ {Stop})
        BY <3>1, QueueGrows
      <3> QED  BY <1>2, <2>1, <3>2 DEF Stop
    <2>2. CASE ~Room
      BY <1>5, <2>2 DEF Queued
    <2> QED  BY <2>1, <2>2
  <1>7. \A pcs : pcs \in {Holding, {"taken", "running"}} => InHand(pcs)' = InHand(pcs)
    BY DEF InHand, Holding
  <1>8. IF Room THEN Pending' = Pending \cup {t} ELSE Pending' = Pending
    BY <1>6, <1>7 DEF Pending
  <1>9. /\ holder'[k] = t /\ claims'[k] \in {0, t}
        /\ \A j \in Keys \ {k} : holder'[j] = holder[j] /\ claims'[j] = claims[j]
    BY <1>1, <1>5 DEF IInv, Typed
  <1>10. \A n, j : Fits(n, j) => Fits(n, j)'
    BY <1>2 DEF Fits
  <1>11. ASSUME NEW j \in Keys PROVE KeyOK(j)'
    <2>1. CASE j = k
      BY <1>2, <1>9, <2>1 DEF KeyOK, Fits
    <2>2. CASE j # k
      BY <1>2, <1>9, <2>2 DEF IInv, KeyOK, Fits
    <2> QED  BY <2>1, <2>2
  <1>12. ASSUME NEW v \in Workers PROVE WorkerOK(v)'
    <2>1. WorkerOK(v) /\ worker[v].task # t
      BY <1>2 DEF IInv, WorkerOK
    <2>2. worker'[v].task # 0 => worker'[v].task \notin Queued'
      BY <1>6, <2>1 DEF WorkerOK
    <2>3. worker'[v].task \in 0..Len(keyOf')
      BY <1>2, <2>1 DEF WorkerOK
    <2>4. /\ worker'[v].pc \in Holding \cup {"released"} => worker'[v].task # 0
          /\ worker'[v].pc \in {"idle", "gone"} => worker'[v].task = 0
      BY <2>1 DEF WorkerOK, Holding
    <2>5. \A u \in Workers : worker'[u].task = worker'[v].task => worker'[v].task = 0 \/ u = v
      BY <2>1 DEF WorkerOK
    <2> QED  BY <2>2, <2>3, <2>4, <2>5 DEF WorkerOK
  <1>13. QueuedOnce'
    <2>1. queue \in Seq(Nat) /\ QueuedOnce
      BY DEF IInv, Typed
    <2>2. CASE ~Room
      BY <1>2, <1>5, <2>1, <2>2 DEF QueuedOnce
    <2>3. CASE Room
      <3>1. /\ Len(queue) \in Nat /\ Len(queue') = Len(queue) + 1
            /\ \A i \in 1..Len(queue) : queue'[i] = queue[i] /\ queue[i] \in 0..Len(keyOf)
            /\ queue'[Len(queue) + 1] = t
        BY <1>2, <1>5, <2>1, <2>3 DEF QueuedOnce
      <3>2. \A i \in 1..Len(queue') : i \in 1..Len(queue) \/ i = Len(queue) + 1
        BY <3>1
      <3>3. \A i \in 1..Len(queue') : queue'[i] \in 0..Len(keyOf')
        BY <1>2, <3>1, <3>2
      <3>4. ASSUME NEW i \in 1..Len(queue'), NEW j \in 1..Len(queue'), queue'[i] = queue'[j]
            PROVE  queue'[i] = Stop \/ i = j
        <4>1. CASE i \in 1..Len(queue) /\ j \in 1..Len(queue)
          BY <2>1, <3>1, <3>4, <4>1 DEF QueuedOnce
        <4>2. CASE i \notin 1..Len(queue) \/ j \notin 1..Len(queue)
          <5>1. \A n \in 1..Len(queue) : queue[n] # t
            BY <1>2, <3>1
          <5> QED  BY <3>1, <3>2, <3>4, <4>2, <5>1
        <4> QED  BY <4>1, <4>2
      <3> QED  BY <3>3, <3>4 DEF QueuedOnce
    <2> QED  BY <2>2, <2>3
  <1>14. ASSUME NEW s \in Pending' PROVE Owns(s)'
    <2>1. CASE s = t
      <3>1. Room
        BY <1>2, <1>4, <1>8, <2>1
      <3> QED  BY <1>2, <1>5, <1>9, <2>1, <3>1 DEF Owns, IInv, Typed
    <2>2. CASE s # t
      <3>1. s \in Pending /\ Owns(s) /\ s \in 1..Len(keyOf) /\ keyOf'[s] = keyOf[s]
        BY <1>2, <1>4, <1>8, <2>2 DEF IInv
      <3>2. CASE keyOf[s] # k
        BY <1>1, <1>4, <1>9, <3>1, <3>2 DEF Owns
      <3>3. CASE keyOf[s] = k
        <4>1. holder[k] = 0 \/ k \in outlived
          BY <1>1 DEF Refused, Claimable, IInv, Typed
        <4> QED  BY <1>1, <3>1, <3>3, <4>1 DEF Owns
      <3> QED  BY <3>2, <3>3
    <2> QED  BY <2>1, <2>2
  <1>15. ASSUME NEW b \in Actors PROVE GivingOK(b)'
    <2>1. CASE giving'[b] = giving[b]
      <3>1. GivingOK(b)
        BY DEF IInv
      <3>2. SUFFICES ASSUME giving[b] # Nothing PROVE GivingOK(b)'
        BY <2>1 DEF GivingOK
      <3>3. Fits(giving[b].task, giving[b].key) /\ giving[b].task # t
        BY <1>2, <3>1, <3>2 DEF GivingOK, Fits
      <3> QED  BY <1>1, <1>8, <1>10, <2>1, <3>1, <3>2, <3>3 DEF GivingOK
    <2>2. CASE giving'[b] # giving[b]
      <3>1. ~Room /\ giving'[b] = [key |-> k, task |-> t]
        BY <1>5, <2>2 DEF IInv, Typed
      <3>2. t \notin Pending'
        BY <1>2, <1>4, <1>8, <3>1
      <3> QED  BY <1>2, <3>1, <3>2 DEF GivingOK, Fits
    <2> QED  BY <2>1, <2>2
  <1>16. KeysComeBack'
    <2>1. DOMAIN giving = Actors /\ DOMAIN giving' = Actors
      BY DEF IInv, Typed
    <2>2. SUFFICES ASSUME NEW j \in Keys, holder'[j] # 0, j \notin lapsed' \cup kept'
                   PROVE  \/ holder'[j] \in Queued' \cup InHand(Holding)'
                          \/ \E b \in Actors : giving'[b] = [key |-> j, task |-> holder'[j]]
      BY <2>1 DEF KeysComeBack, Holding
    <2>3. CASE j = k
      <3>1. CASE Room
        BY <1>6, <1>9, <2>3, <3>1
      <3>2. CASE ~Room
        BY <1>5, <1>9, <2>3, <3>2 DEF IInv, Typed
      <3> QED  BY <3>1, <3>2
    <2>4. CASE j # k
      <3>1. holder[j] = holder'[j] /\ j \notin lapsed \cup kept
        BY <1>1, <1>9, <2>2, <2>4
      <3>2. \/ holder[j] \in Queued \cup InHand(Holding)
            \/ \E b \in Actors : giving[b] = [key |-> j, task |-> holder[j]]
        BY <2>1, <2>2, <3>1 DEF IInv, KeysComeBack, Holding
      <3>3. \A b \in Actors : giving[b] = [key |-> j, task |-> holder[j]] => giving'[b] = giving[b]
        <4>1. [key |-> j, task |-> holder[j]] # Nothing
          BY <2>2, QueueAssumption DEF Nothing
        <4> QED  BY <1>5, <4>1 DEF IInv, Typed
      <3>4. CASE holder[j] \in Queued \cup InHand(Holding)
        BY <1>6, <1>7, <3>1, <3>4
      <3>5. CASE \E b \in Actors : giving[b] = [key |-> j, task |-> holder[j]]
        BY <3>1, <3>3, <3>5
      <3> QED  BY <3>2, <3>4, <3>5
    <2> QED  BY <2>3, <2>4
  <1> QED  BY <1>11, <1>12, <1>13, <1>14, <1>15, <1>16 DEF IInv

----------------------------------------------------------------------------
(* The other steps.                                                         *)

LEMMA Moves ==
    ASSUME Typed, NEW w \in Workers, NEW pc \in Holding \cup {"released", "dead", "gone"},
           GoTo(w, pc)
    PROVE  /\ worker'[w].task = worker[w].task /\ worker'[w].pc = pc
           /\ \A v \in Workers \ {w} : worker'[v] = worker[v]
           /\ worker' \in [Workers ->
                [pc : Holding \cup {"idle", "released", "dead", "gone"},
                 task : Nat, dies : BOOLEAN]]
  BY DEF Typed, GoTo

(* A worker that is past its task holds a task that is not pending.         *)
LEMMA NotPending ==
    ASSUME IInv, NEW w \in Workers,
           worker[w].pc \in {"resubmitting", "returned", "leaving", "released"}
    PROVE  /\ worker[w].task \in 1..Len(keyOf) /\ keyOf[worker[w].task] \in Keys
           /\ worker[w].task \notin Pending
  <1>1. WorkerOK(w) /\ worker[w].task # 0
    BY DEF IInv, WorkerOK, Holding
  <1>2. worker[w].task \in 1..Len(keyOf)
    BY <1>1, Numbered DEF WorkerOK
  <1>3. keyOf[worker[w].task] \in Keys
    BY <1>2 DEF IInv, Typed
  <1>4. worker[w].task \notin Queued
    BY <1>1 DEF WorkerOK
  <1>5. \A v \in Workers : worker[v].task = worker[w].task => v = w
    BY <1>1 DEF WorkerOK
  <1> QED  BY <1>2, <1>3, <1>4, <1>5 DEF Pending, InHand

(* The backend lets go of a claim only for the task that has it.            *)
LEMMA Released ==
    ASSUME Typed, NEW k \in Keys, NEW t, ReleaseClaim(k, t) \/ MarkDone(k, t)
    PROVE  /\ holder' \in [Keys -> Nat] /\ lapsed' = lapsed
           /\ \A j \in Keys : holder'[j] = holder[j] \/ (holder'[j] = 0 /\ j = k /\ holder[j] = t)
           /\ holder[k] = t => holder'[k] = 0 \/ k \in lapsed
  <1>1. /\ holder \in [Keys -> Nat] /\ lapsed' = lapsed
        /\ holder' = IF holder[k] = t /\ k \notin lapsed THEN [holder EXCEPT ![k] = 0] ELSE holder
    BY DEF Typed, ReleaseClaim, MarkDone, Holds
  <1> QED  BY <1>1

LEMMA SameQueue ==
    ASSUME IInv, queue' = queue, keyOf' = keyOf
    PROVE  Queued' = Queued /\ QueuedOnce'
  BY DEF IInv, QueuedOnce, Queued

(* A worker that goes on with its task loses nothing.                       *)
LEMMA GoesOn ==
    ASSUME IInv, NEW w \in Workers, queue' = queue, keyOf' = keyOf,
           worker[w].pc \in Holding => worker'[w].pc \in Holding,
           worker'[w].task = worker[w].task,
           \A v \in Workers \ {w} : worker'[v] = worker[v]
    PROVE  Alive \subseteq Alive'
  <1>1. Queued' = Queued
    BY SameQueue
  <1>2. ASSUME NEW v \in Workers, worker[v].pc \in Holding
        PROVE  worker'[v].pc \in Holding /\ worker'[v].task = worker[v].task
    BY <1>2
  <1> HIDE DEF Holding
  <1>3. InHand(Holding) \subseteq InHand(Holding)'
    <2>1. SUFFICES ASSUME NEW t \in InHand(Holding) PROVE t \in InHand(Holding)'
      OBVIOUS
    <2>2. PICK v \in Workers : worker[v].pc \in Holding /\ worker[v].task = t
      BY <2>1 DEF InHand
    <2>3. Holding' = Holding
      BY DEF Holding
    <2> QED  BY <1>2, <2>2, <2>3 DEF InHand
  <1> QED  BY <1>1, <1>3 DEF Alive

LEMMA StartSteps ==
    ASSUME IInv, NEW w \in Workers, Start(w) \/ Return(w)
    PROVE  IInv'
  <1>1. PICK q \in {"running", "returned"} :
            GoTo(w, q) /\ (q = "running" => worker[w].pc = "taken")
    BY DEF Start, Return, At
  <1>2. worker[w].pc \in Holding
    BY DEF Start, Return, At, Holding
  <1>3. UNCHANGED <<queue, unfinished, keyOf, backend, claims, shutting, giving, history>>
    BY DEF Start, Return
  <1>4. /\ worker'[w].task = worker[w].task /\ worker'[w].pc = q
        /\ \A v \in Workers \ {w} : worker'[v] = worker[v]
        /\ worker' \in [Workers ->
             [pc : Holding \cup {"idle", "released", "dead", "gone"}, task : Nat, dies : BOOLEAN]]
    BY <1>1, Moves DEF IInv, Holding
  <1>5. Typed'
    BY <1>3, <1>4 DEF IInv, Typed, backend, history
  <1>6. Queued' = Queued /\ QueuedOnce'
    BY <1>3, SameQueue
  <1>7. Alive \subseteq Alive'
    BY <1>3, <1>4, GoesOn DEF Holding
  <1>8. KeysComeBack'
    BY <1>3, <1>7, KeysStay DEF backend, history
  <1>9. WorkerOK(w) /\ worker[w].task # 0
    BY <1>2 DEF IInv, WorkerOK
  <1>10. q = "running" => worker[w].task \in Pending
    BY <1>1 DEF Pending, InHand
  <1> QED
    BY <1>3, <1>4, <1>5, <1>6, <1>8, <1>9, <1>10, NoneAccepted DEF backend, history, Holding

LEMMA LetGoSteps ==
    ASSUME IInv, NEW w \in Workers, LetGo(w)
    PROVE  IInv'
  <1> DEFINE k == KeyAt(w)
             t == worker[w].task
  <1>1. /\ worker[w].pc = "running" /\ giving[w] = Nothing /\ GoTo(w, "resubmitting")
        /\ claims' = [claims EXCEPT ![k] = 0]
        /\ giving' = [giving EXCEPT ![w] = [key |-> k, task |-> claims[k]]]
        /\ UNCHANGED <<queue, unfinished, keyOf, backend, shutting, history>>
    BY DEF LetGo, At
  <1>2. /\ worker'[w].task = t /\ worker'[w].pc = "resubmitting"
        /\ \A v \in Workers \ {w} : worker'[v] = worker[v]
        /\ worker' \in [Workers ->
             [pc : Holding \cup {"idle", "released", "dead", "gone"}, task : Nat, dies : BOOLEAN]]
    BY <1>1, Moves DEF IInv, Holding
  <1>3. t \in Pending /\ t # 0 /\ WorkerOK(w)
    BY <1>1 DEF Pending, InHand, IInv, WorkerOK, Holding
  <1>4. k \in Keys /\ w \in Actors
    BY <1>3, Numbered DEF KeyAt, Actors
  <1>5. Typed'
    BY <1>1, <1>2, <1>4 DEF IInv, Typed, backend, history
  <1>6. Queued' = Queued /\ QueuedOnce'
    BY <1>1, SameQueue
  <1>7. Alive \subseteq Alive'
    BY <1>1, <1>2, GoesOn DEF Holding
  <1>8. KeysComeBack'
    <2>1. DOMAIN giving = Actors /\ DOMAIN giving' = Actors
      BY <1>1, <1>4 DEF IInv, Typed
    <2>2. \A a \in DOMAIN giving : giving[a] # Nothing => giving'[a] = giving[a]
      BY <1>1, <2>1
    <2> QED  BY <1>1, <1>7, <2>1, <2>2, KeysStay DEF backend, history
  <1>9. t \notin Pending'
    <2>1. t \notin Queued'
      BY <1>3, <1>6 DEF WorkerOK
    <2>2. \A v \in Workers : worker'[v].task = t => v = w
      BY <1>2, <1>3 DEF WorkerOK
    <2> QED  BY <1>2, <2>1, <2>2 DEF Pending, InHand
  <1>10. k \notin outlived => claims[k] = t
    BY <1>3 DEF IInv, Owns, KeyAt
  <1>11. GivingOK(w)'
    <2>1. giving'[w] = [key |-> k, task |-> claims[k]]
      BY <1>1, <1>4 DEF IInv, Typed
    <2>2. Fits(claims[k], k) /\ keyOf' = keyOf /\ outlived' = outlived
      BY <1>1, <1>4 DEF IInv, KeyOK, history
    <2> QED  BY <1>9, <1>10, <2>1, <2>2 DEF GivingOK, Fits
  <1>12. \A j \in Keys : \/ claims'[j] = claims[j]
                         \/ claims'[j] = 0 /\ (claims[j] \in Pending' => j \in outlived)
    <2>1. claims'[k] = 0 /\ \A j \in Keys \ {k} : claims'[j] = claims[j]
      BY <1>1, <1>4 DEF IInv, Typed
    <2>2. claims[k] \in Pending' => k \in outlived
      BY <1>9, <1>10
    <2> QED  BY <2>1, <2>2
  <1>13. \A a \in Actors : giving'[a] = giving[a] \/ GivingOK(a)'
    BY <1>1, <1>11 DEF IInv, Typed
  <1> QED
    BY <1>1, <1>2, <1>3, <1>5, <1>6, <1>8, <1>12, <1>13, NoneAccepted
       DEF backend, history, Holding

(* The worker reports its task, or is stopped by a raising call.            *)
LEMMA ReportSteps ==
    ASSUME IInv, NEW w \in Workers, Report(w) \/ Break(w)
    PROVE  IInv'
  <1> DEFINE t == worker[w].task
  <1>1. /\ worker[w].pc \in {"taken", "returned"}
        /\ worker'[w].task = t /\ worker'[w].pc = "leaving"
        /\ \A v \in Workers \ {w} : worker'[v] = worker[v]
        /\ worker' \in [Workers ->
             [pc : Holding \cup {"idle", "released", "dead", "gone"}, task : Nat, dies : BOOLEAN]]
    <2>1. CASE Report(w)
      BY <2>1, Moves DEF Report, IInv, Holding, At
    <2>2. CASE Break(w)
      BY <2>2 DEF Break, IInv, Typed, Holding, At
    <2> QED  BY <2>1, <2>2
  <1>2. UNCHANGED <<queue, unfinished, keyOf, claims, shutting, giving, history>>
    BY DEF Report, Break
  <1>3. WorkerOK(w) /\ t # 0 /\ Queued' = Queued /\ QueuedOnce'
    BY <1>1, <1>2, SameQueue DEF IInv, WorkerOK, Holding
  <1>4. t \notin Pending'
    <2>1. t \notin Queued'
      BY <1>3 DEF WorkerOK
    <2>2. \A v \in Workers : worker'[v].task = t => v = w
      BY <1>1, <1>3 DEF WorkerOK
    <2> QED  BY <1>1, <2>1, <2>2 DEF Pending, InHand
  <1>5. /\ holder' \in [Keys -> Nat] /\ lapsed' = lapsed
        /\ \A j \in Keys : holder'[j] = holder[j] \/ (holder'[j] = 0 /\ holder[j] = t)
    <2>1. CASE Report(w)
      <3>1. KeyAt(w) \in Keys
        <4>1. worker[w].pc = "returned"
          BY <2>1 DEF Report, At
        <4> QED  BY <4>1, NotPending DEF KeyAt
      <3> QED  BY <2>1, <3>1, Released DEF Report, IInv
    <2>2. CASE Break(w)
      BY <2>2 DEF Break, backend, IInv, Typed
    <2> QED  BY <2>1, <2>2
  <1>6. Typed'
    BY <1>1, <1>2, <1>5 DEF IInv, Typed, history
  <1>7. Alive \subseteq Alive'
    BY <1>1, <1>2, GoesOn DEF Holding
  <1>8. KeysComeBack'
    BY <1>2, <1>5, <1>7, KeysStay DEF history
  <1> QED
    BY <1>1, <1>2, <1>3, <1>4, <1>5, <1>6, <1>8, NoneAccepted DEF history, Holding

(* The key goes back, and the worker to the queue.                          *)
LEMMA ReleaseSteps ==
    ASSUME IInv, NEW w \in Workers, Release(w)
    PROVE  IInv'
  <1> DEFINE t == worker[w].task
             k == KeyAt(w)
  <1>1. /\ worker[w].pc = "leaving"
        /\ worker'[w].task = t /\ worker'[w].pc = "released"
        /\ \A v \in Workers \ {w} : worker'[v] = worker[v]
        /\ worker' \in [Workers ->
             [pc : Holding \cup {"idle", "released", "dead", "gone"}, task : Nat, dies : BOOLEAN]]
    BY Moves DEF Release, IInv, At
  <1>2. UNCHANGED <<queue, unfinished, keyOf, claims, shutting, giving, history>>
    BY DEF Release
  <1>3. /\ t \in 1..Len(keyOf) /\ t \notin Pending /\ keyOf[t] = k /\ k \in Keys
        /\ WorkerOK(w) /\ t # 0
    BY <1>1, NotPending DEF KeyAt, IInv, WorkerOK, Holding
  <1>4. /\ holder' \in [Keys -> Nat] /\ lapsed' = lapsed
        /\ \A j \in Keys : holder'[j] = holder[j] \/ (holder'[j] = 0 /\ j = k /\ holder[j] = t)
        /\ holder[k] = t => holder'[k] = 0 \/ k \in lapsed
    BY <1>3, Released DEF Release, IInv
  <1>5. Queued' = Queued /\ QueuedOnce' /\ Typed'
    BY <1>1, <1>2, <1>4, SameQueue DEF IInv, Typed, history
  <1>6. \A pcs : InHand(pcs) \subseteq InHand(pcs)' \cup {t}
    BY <1>1 DEF InHand
  <1>7. t \notin Pending'
    <2>1. t \notin Queued'
      BY <1>3, <1>5 DEF WorkerOK
    <2>2. \A v \in Workers : worker'[v].task = t => v = w
      BY <1>1, <1>3 DEF WorkerOK
    <2> QED  BY <1>1, <2>1, <2>2 DEF Pending, InHand
  <1>8. KeysComeBack'
    <2>1. SUFFICES ASSUME NEW j \in Keys, holder'[j] # 0, j \notin lapsed' \cup kept',
                          ~\E a \in DOMAIN giving' : giving'[a] = [key |-> j, task |-> holder'[j]]
                   PROVE  holder'[j] \in Queued' \cup InHand(Holding)'
      BY DEF KeysComeBack, Holding
    <2>2. holder'[j] = holder[j] /\ j \notin lapsed \cup kept
      BY <1>2, <1>4, <2>1 DEF history
    <2>3. holder[j] \in Queued \cup InHand(Holding)
      BY <1>2, <2>1, <2>2 DEF IInv, KeysComeBack, Holding
    <2>4. holder[j] # t
      <3>1. SUFFICES ASSUME holder[j] = t PROVE FALSE
        OBVIOUS
      <3>2. keyOf[t] = j
        BY <1>3, <3>1 DEF IInv, KeyOK, Fits
      <3> QED  BY <1>3, <1>4, <2>1, <2>2, <3>1, <3>2
    <2> QED  BY <1>5, <1>6, <2>2, <2>3, <2>4
  <1> QED
    BY <1>1, <1>2, <1>3, <1>4, <1>5, <1>7, <1>8, NoneAccepted DEF history, Holding

LEMMA BreakOffSteps ==
    ASSUME IInv, NEW w \in Workers, BreakOff(w)
    PROVE  IInv'
  <1> DEFINE t == worker[w].task
  <1>1. /\ worker[w].pc = "leaving"
        /\ worker'[w].task = t /\ worker'[w].pc = "dead"
        /\ \A v \in Workers \ {w} : worker'[v] = worker[v]
        /\ worker' \in [Workers ->
             [pc : Holding \cup {"idle", "released", "dead", "gone"}, task : Nat, dies : BOOLEAN]]
    BY Moves DEF BreakOff, IInv, At
  <1>2. /\ UNCHANGED <<queue, unfinished, keyOf, backend, claims, shutting, giving, outlived>>
        /\ kept' = kept \cup {KeyAt(w)}
    BY DEF BreakOff
  <1>3. t \in 1..Len(keyOf) /\ KeyAt(w) = keyOf[t]
    BY <1>1, NotPending DEF KeyAt
  <1>4. Queued' = Queued /\ QueuedOnce' /\ Typed'
    BY <1>1, <1>2, SameQueue DEF IInv, Typed, backend
  <1>5. \A pcs : InHand(pcs) \subseteq InHand(pcs)' \cup {t}
    BY <1>1 DEF InHand
  <1>6. KeysComeBack'
    <2>1. SUFFICES ASSUME NEW j \in Keys, holder'[j] # 0, j \notin lapsed' \cup kept',
                          ~\E a \in DOMAIN giving' : giving'[a] = [key |-> j, task |-> holder'[j]]
                   PROVE  holder'[j] \in Queued' \cup InHand(Holding)'
      BY DEF KeysComeBack, Holding
    <2>2. holder'[j] = holder[j] /\ j \notin lapsed \cup kept /\ j # keyOf[t]
      BY <1>2, <1>3, <2>1 DEF backend
    <2>3. holder[j] \in Queued \cup InHand(Holding)
      BY <1>2, <2>1, <2>2 DEF IInv, KeysComeBack, Holding
    <2>4. holder[j] # t
      BY <1>3, <2>1, <2>2 DEF IInv, KeyOK, Fits
    <2> QED  BY <1>4, <1>5, <2>2, <2>3, <2>4
  <1> QED  BY <1>1, <1>2, <1>4, <1>6, NoneAccepted DEF backend, Holding

LEMMA FinishSteps ==
    ASSUME IInv, NEW w \in Workers, Finish(w)
    PROVE  IInv'
  <1> DEFINE t == worker[w].task
             k == KeyAt(w)
  <1>1. /\ worker[w].pc = "released" /\ worker[w] \in
             [pc : Holding \cup {"idle", "released", "dead", "gone"}, task : Nat, dies : BOOLEAN]
    BY DEF Finish, At, IInv, Typed
  <1>2. /\ \/ worker'[w].pc = "dead" /\ worker'[w].task = t
           \/ worker'[w].pc = "idle" /\ worker'[w].task = 0
        /\ \A v \in Workers \ {w} : worker'[v] = worker[v]
        /\ worker' \in [Workers ->
             [pc : Holding \cup {"idle", "released", "dead", "gone"}, task : Nat, dies : BOOLEAN]]
    BY <1>1 DEF Finish, IInv, Typed, Resting, Holding
  <1>3. /\ UNCHANGED <<queue, keyOf, backend, shutting, giving, history>>
        /\ claims' = IF claims[k] = t THEN [claims EXCEPT ![k] = 0] ELSE claims
    BY DEF Finish
  <1>4. t \notin Pending /\ k \in Keys /\ WorkerOK(w) /\ t # 0
    BY <1>1, NotPending DEF KeyAt, IInv, WorkerOK, Holding
  <1>5. Queued' = Queued /\ QueuedOnce' /\ Typed'
    BY <1>2, <1>3, <1>4, SameQueue DEF IInv, Typed, backend, history
  <1>6. Alive \subseteq Alive'
    <2>1. InHand(Holding) \subseteq InHand(Holding)'
      BY <1>1, <1>2 DEF InHand, Holding
    <2> QED  BY <1>5, <2>1 DEF Alive
  <1>7. KeysComeBack'
    BY <1>3, <1>6, KeysStay DEF backend, history
  <1>8. t \notin Pending'
    <2>1. t \notin Queued'
      BY <1>4, <1>5 DEF WorkerOK
    <2>2. \A v \in Workers : worker'[v].task = t => v = w
      BY <1>2, <1>4 DEF WorkerOK
    <2> QED  BY <1>2, <2>1, <2>2 DEF Pending, InHand
  <1>9. \A j \in Keys : \/ claims'[j] = claims[j]
                        \/ claims'[j] = 0 /\ claims[j] \notin Pending'
    BY <1>3, <1>4, <1>8 DEF IInv, Typed
  <1> QED
    BY <1>2, <1>3, <1>5, <1>7, <1>9, NoneAccepted DEF backend, history, Holding

(* A worker takes the head of the queue.                                    *)
LEMMA GetSteps ==
    ASSUME IInv, NEW w \in Workers, Get(w)
    PROVE  IInv'
  <1> DEFINE h == Head(queue)
  <1>1. /\ worker[w].pc = "idle" /\ queue # <<>> /\ queue' = Tail(queue)
        /\ UNCHANGED <<keyOf, backend, claims, shutting, giving, history>>
    BY DEF Get, At
  <1>2. /\ queue' \in Seq(Nat) /\ h \in Nat /\ QueuedOnce' /\ Queued' \subseteq Queued
        /\ Queued \subseteq Queued' \cup {h} /\ (h # Stop => h \in Queued \ Queued')
    BY <1>1, QueueShrinks DEF IInv, Typed
  <1>3. worker[w].task = 0
    BY <1>1 DEF IInv, WorkerOK
  <1>4. /\ \/ h # Stop /\ worker'[w].pc = "taken" /\ worker'[w].task = h
           \/ h = Stop /\ worker'[w].pc = "gone" /\ worker'[w].task = 0
        /\ \A v \in Workers \ {w} : worker'[v] = worker[v]
        /\ worker' \in [Workers ->
             [pc : Holding \cup {"idle", "released", "dead", "gone"}, task : Nat, dies : BOOLEAN]]
    <2>1. CASE h = Stop
      BY <1>3, <2>1, Moves DEF Get, IInv
    <2>2. CASE h # Stop
      <3>1. worker' = [worker EXCEPT ![w] = [pc |-> "taken", task |-> h, dies |-> FALSE]]
        BY <2>2 DEF Get
      <3>2. [pc |-> "taken", task |-> h, dies |-> FALSE] \in
              [pc : Holding \cup {"idle", "released", "dead", "gone"}, task : Nat, dies : BOOLEAN]
        BY <1>2 DEF Holding
      <3> QED  BY <2>2, <3>1, <3>2 DEF IInv, Typed
    <2> QED  BY <2>1, <2>2
  <1>5. Typed'
    BY <1>1, <1>2, <1>4 DEF IInv, Typed, backend, history
  <1>6. Alive \subseteq Alive'
    <2>1. InHand(Holding) \subseteq InHand(Holding)'
      BY <1>1, <1>4 DEF InHand, Holding
    <2>2. h # Stop => h \in InHand(Holding)'
      BY <1>4 DEF InHand, Holding
    <2>3. Stop \notin Queued
      BY DEF Queued
    <2> QED  BY <1>2, <2>1, <2>2, <2>3 DEF Alive
  <1>7. KeysComeBack'
    BY <1>1, <1>6, KeysStay DEF backend, history
  <1>8. h # Stop => h # 0 /\ h \in Pending
    BY <1>2 DEF Stop, Pending
  <1> QED
    BY <1>1, <1>2, <1>4, <1>5, <1>7, <1>8, NoneAccepted DEF backend, history, Holding

(* A claim goes back.                                                       *)
LEMMA GiveBackSteps ==
    ASSUME IInv, NEW a \in Actors, GiveBack(a)
    PROVE  IInv'
  <1> DEFINE t == giving[a].task
             k == giving[a].key
  <1>1. /\ giving[a] # Nothing
        /\ UNCHANGED <<queue, unfinished, keyOf, claims, shutting, worker, outlived>>
        /\ giving' = [giving EXCEPT ![a] = Nothing]
        /\ \/ ReleaseClaim(k, t) /\ kept' = kept
           \/ UNCHANGED backend /\ kept' = kept \cup {k}
    BY DEF GiveBack
  <1>2. giving[a] = [key |-> k, task |-> t] /\ k \in Keys /\ GivingOK(a)
    BY <1>1 DEF IInv, Typed
  <1>3. /\ holder' \in [Keys -> Nat] /\ lapsed' = lapsed
        /\ \A j \in Keys : holder'[j] = holder[j] \/ (holder'[j] = 0 /\ j = k /\ holder[j] = t)
        /\ holder[k] = t => holder'[k] = 0 \/ k \in lapsed \cup kept'
    <2>1. CASE ReleaseClaim(k, t)
      BY <1>2, <2>1, Released DEF IInv
    <2>2. CASE UNCHANGED backend /\ kept' = kept \cup {k}
      BY <2>2 DEF backend, IInv, Typed
    <2> QED  BY <1>1, <2>1, <2>2
  <1>4. Queued' = Queued /\ QueuedOnce' /\ Typed'
    BY <1>1, <1>3, SameQueue DEF IInv, Typed
  <1>5. \A pcs : InHand(pcs)' = InHand(pcs)
    BY <1>1 DEF InHand
  <1>6. Pending' = Pending
    BY <1>4, <1>5 DEF Pending
  <1>7. KeysComeBack'
    <2>1. DOMAIN giving = Actors /\ DOMAIN giving' = Actors
      BY <1>1 DEF IInv, Typed
    <2>2. SUFFICES ASSUME NEW j \in Keys, holder'[j] # 0, j \notin lapsed' \cup kept',
                          \A b \in Actors : giving'[b] # [key |-> j, task |-> holder'[j]]
                   PROVE  holder'[j] \in Queued' \cup InHand(Holding)'
      BY <2>1 DEF KeysComeBack, Holding
    <2>3. holder'[j] = holder[j] /\ j \notin lapsed \cup kept
      BY <1>1, <1>3, <2>2
    <2>4. giving[a] # [key |-> j, task |-> holder[j]]
      BY <1>2, <1>3, <2>2, <2>3
    <2>5. \A b \in Actors : giving[b] # [key |-> j, task |-> holder[j]]
      BY <1>1, <2>2, <2>3, <2>4 DEF IInv, Typed
    <2>6. holder[j] \in Queued \cup InHand(Holding)
      BY <2>1, <2>2, <2>3, <2>5 DEF IInv, KeysComeBack, Holding
    <2> QED  BY <1>4, <1>5, <2>3, <2>6
  <1>8. \A j \in Keys : \/ holder'[j] = holder[j]
                        \/ holder'[j] = 0 /\ (holder[j] \in Pending' => j \in outlived)
    BY <1>1, <1>2, <1>3, <1>6 DEF GivingOK
  <1>9. \A b \in Actors : giving'[b] = giving[b] \/ giving'[b] = Nothing
    BY <1>1 DEF IInv, Typed
  <1> DEFINE w == CHOOSE x : x \notin Workers
  <1>10. w \in Workers =>
             /\ worker'[w].task \in {0, worker[w].task}
             /\ worker'[w].pc \in Holding \cup {"released"} => worker'[w].task # 0
             /\ worker'[w].pc \in {"idle", "gone"} => worker'[w].task = 0
             /\ worker'[w].pc \in {"taken", "running"} => worker'[w].task \in Pending
    BY <1>1 DEF IInv, WorkerOK, Pending, InHand
  <1> HIDE DEF w
  <1> QED  BY <1>1, <1>4, <1>7, <1>8, <1>9, <1>10, NoneAccepted

(* What leaves the workers, and the claims in memory, alone.                *)
LEMMA OthersKeep ==
    ASSUME IInv, UNCHANGED <<keyOf, holder, claims, worker, giving, kept>>,
           queue' \in Seq(Nat), Queued' = Queued, QueuedOnce',
           lapsed \subseteq lapsed', outlived \subseteq outlived',
           lapsed' \subseteq outlived', outlived' \subseteq Keys
    PROVE  IInv'
  <1> DEFINE w == CHOOSE x : x \notin Workers
  <1>1. Typed'
    BY DEF IInv, Typed
  <1>2. Alive \subseteq Alive'
    BY DEF Alive, InHand, Holding
  <1>3. KeysComeBack'
    BY <1>2, KeysStay
  <1>4. w \in Workers =>
             /\ worker'[w].task \in {0, worker[w].task}
             /\ worker'[w].pc \in Holding \cup {"released"} => worker'[w].task # 0
             /\ worker'[w].pc \in {"idle", "gone"} => worker'[w].task = 0
             /\ worker'[w].pc \in {"taken", "running"} => worker'[w].task \in Pending
    BY DEF IInv, WorkerOK, Pending, InHand
  <1> HIDE DEF w
  <1> QED  BY <1>1, <1>3, <1>4, NoneAccepted

LEMMA ShutdownSteps ==
    ASSUME IInv, Close \/ TellStop \/ Complete
    PROVE  IInv'
  <1>1. UNCHANGED <<keyOf, holder, lapsed, claims, worker, giving, outlived, kept>>
    BY DEF Close, TellStop, Complete, backend, history
  <1>2. queue' \in Seq(Nat) /\ Queued' = Queued /\ QueuedOnce'
    <2>1. CASE TellStop
      <3>1. queue \in Seq(Nat) /\ queue' = Append(queue, Stop) /\ Stop \in Nat
        BY <2>1 DEF TellStop, IInv, Typed, Stop
      <3>2. queue' \in Seq(Nat) /\ Queued' = Queued
        BY <3>1, QueueGrows
      <3>3. /\ Len(queue) \in Nat /\ Len(queue') = Len(queue) + 1
            /\ \A i \in 1..Len(queue) : queue'[i] = queue[i]
            /\ queue'[Len(queue) + 1] = Stop
        BY <3>1
      <3>4. \A i \in 1..Len(queue') : i \in 1..Len(queue) \/ i = Len(queue) + 1
        BY <3>3
      <3>5. \A i \in 1..Len(queue') : queue'[i] \in 0..Len(keyOf)
        BY <3>3, <3>4, Numbered DEF IInv, QueuedOnce, Stop
      <3>6. ASSUME NEW i \in 1..Len(queue'), NEW j \in 1..Len(queue'), queue'[i] = queue'[j]
            PROVE  queue'[i] = Stop \/ i = j
        <4>1. CASE i = Len(queue) + 1 \/ j = Len(queue) + 1
          BY <3>3, <3>6, <4>1
        <4>2. CASE i \in 1..Len(queue) /\ j \in 1..Len(queue)
          BY <3>3, <3>6, <4>2 DEF IInv, QueuedOnce
        <4> QED  BY <3>4, <4>1, <4>2
      <3> QED  BY <1>1, <3>2, <3>5, <3>6 DEF QueuedOnce
    <2>2. CASE Close \/ Complete
      <3>1. queue' = queue
        BY <2>2 DEF Close, Complete
      <3> QED  BY <1>1, <3>1, SameQueue DEF IInv, Typed
    <2> QED  BY <2>1, <2>2
  <1> QED  BY <1>1, <1>2, OthersKeep DEF IInv, Typed

LEMMA LapseSteps ==
    ASSUME IInv, NEW k \in Keys, Lapse(k)
    PROVE  IInv'
  <1>1. /\ UNCHANGED <<queue, keyOf, holder, claims, worker, giving, kept>>
        /\ lapsed' = lapsed \cup {k} /\ outlived' = outlived \cup {k}
    BY DEF Lapse
  <1>2. queue' \in Seq(Nat) /\ Queued' = Queued /\ QueuedOnce'
    BY <1>1, SameQueue DEF IInv, Typed
  <1> QED  BY <1>1, <1>2, OthersKeep DEF IInv, Typed

(* Accepting keeps the types.                                               *)
LEMMA AcceptTyped ==
    ASSUME IInv, NEW a \in Actors, NEW k \in Keys, Accept(a, k),
           worker' \in [Workers ->
             [pc : Holding \cup {"idle", "released", "dead", "gone"}, task : Nat, dies : BOOLEAN]]
    PROVE  Typed'
  <1> DEFINE t == Len(keyOf) + 1
  <1>1. t \in Nat /\ keyOf \in Seq(Keys) /\ queue \in Seq(Nat)
    BY DEF IInv, Typed
  <1>2. /\ holder' = [holder EXCEPT ![k] = t] /\ lapsed' = lapsed \ {k}
        /\ keyOf' = Append(keyOf, k) /\ outlived' = outlived
        /\ queue' = IF Room THEN Append(queue, t) ELSE queue
        /\ claims' = [claims EXCEPT ![k] = IF Room THEN t ELSE 0]
        /\ giving' = IF Room THEN giving ELSE [giving EXCEPT ![a] = [key |-> k, task |-> t]]
    BY DEF Accept, Claim, history
  <1> HIDE DEF t
  <1>3. queue' \in Seq(Nat) /\ keyOf' \in Seq(Keys)
    BY <1>1, <1>2
  <1>4. holder' \in [Keys -> Nat] /\ claims' \in [Keys -> Nat]
    BY <1>1, <1>2 DEF IInv, Typed
  <1>5. giving' \in [Actors -> [key : Keys, task : Nat] \cup {Nothing}]
    BY <1>1, <1>2 DEF IInv, Typed
  <1> QED  BY <1>2, <1>3, <1>4, <1>5 DEF IInv, Typed

LEMMA SubmitSteps ==
    ASSUME IInv, NEW a \in Actors, NEW k \in Keys, Submit(a, k)
    PROVE  IInv'
  <1>1. Accept(a, k) /\ giving[a] = Nothing /\ worker' = worker
    BY DEF Submit
  <1>2. Typed'
    BY <1>1, AcceptTyped DEF IInv, Typed
  <1> QED  BY <1>1, <1>2, AcceptSteps

LEMMA ResubmitSteps ==
    ASSUME IInv, NEW w \in Workers, Resubmit(w)
    PROVE  IInv'
  <1>1. /\ Accept(w, KeyAt(w)) /\ giving[w] = Nothing /\ w \in Actors
        /\ worker[w].pc = "resubmitting" /\ GoTo(w, "returned")
    BY DEF Resubmit, At, Actors
  <1>2. KeyAt(w) \in Keys
    BY <1>1, NotPending DEF KeyAt
  <1>3. /\ worker'[w].task = worker[w].task /\ worker'[w].pc = "returned"
        /\ \A v \in Workers \ {w} : worker'[v] = worker[v]
        /\ worker' \in [Workers ->
             [pc : Holding \cup {"idle", "released", "dead", "gone"}, task : Nat, dies : BOOLEAN]]
    BY <1>1, Moves DEF IInv, Holding
  <1>4. Typed'
    BY <1>1, <1>2, <1>3, AcceptTyped
  <1> QED  BY <1>1, <1>2, <1>3, <1>4, AcceptSteps

----------------------------------------------------------------------------
LEMMA InitOK == ASSUME Init PROVE IInv
  <1>1. /\ queue = <<>> /\ keyOf = <<>> /\ lapsed = {} /\ outlived = {}
        /\ holder = [k \in Keys |-> 0] /\ claims = [k \in Keys |-> 0]
        /\ worker = [w \in Workers |-> Resting]
        /\ giving = [a \in Actors |-> Nothing]
    BY DEF Init, Actors
  <1>2. Resting.pc = "idle" /\ Resting.task = 0
    BY DEF Resting
  <1>3. Queued = {} /\ QueuedOnce
    BY <1>1 DEF Queued, ToSet, QueuedOnce
  <1>4. Pending = {}
    BY <1>1, <1>2, <1>3 DEF Pending, InHand
  <1>5. Typed
    BY <1>1 DEF Typed, Resting, Holding
  <1>6. \A k \in Keys : KeyOK(k)
    BY <1>1 DEF KeyOK, Fits
  <1>7. \A w \in Workers : WorkerOK(w)
    BY <1>1, <1>2, <1>3 DEF WorkerOK, Holding
  <1>8. \A a \in Actors : GivingOK(a)
    BY <1>1 DEF GivingOK
  <1>9. KeysComeBack
    BY <1>1 DEF KeysComeBack
  <1> QED  BY <1>3, <1>4, <1>5, <1>6, <1>7, <1>8, <1>9 DEF IInv

LEMMA NextOK == ASSUME IInv, [Next]_vars PROVE IInv'
  <1>1. CASE UNCHANGED vars
    <2>1. queue' \in Seq(Nat) /\ Queued' = Queued /\ QueuedOnce'
      BY <1>1, SameQueue DEF vars, IInv, Typed
    <2> QED  BY <1>1, <2>1, OthersKeep DEF vars, IInv, Typed
  <1>2. CASE \E c \in Callers : GiveBack(c) \/ \E k \in Keys : Submit(c, k)
    BY <1>2, GiveBackSteps, SubmitSteps DEF Actors
  <1>3. ASSUME NEW w \in Workers, Work(w) \/ LetGo(w) \/ Break(w) \/ BreakOff(w)
        PROVE  IInv'
    BY <1>3, GiveBackSteps, GetSteps, StartSteps, ResubmitSteps, ReportSteps, ReleaseSteps,
       FinishSteps, LetGoSteps, BreakOffSteps DEF Work, Actors
  <1>4. CASE \E k \in Keys : Lapse(k)
    BY <1>4, LapseSteps
  <1>5. CASE Close \/ TellStop \/ Complete
    BY <1>5, ShutdownSteps
  <1> QED  BY <1>1, <1>2, <1>3, <1>4, <1>5 DEF Next

(* What the queue, its workers and the backend know of one another.         *)
THEOREM Invariance == Spec => []IInv
  <1>1. Init => IInv
    BY InitOK
  <1>2. IInv /\ [Next]_vars => IInv'
    BY NextOK
  <1> QED  BY <1>1, <1>2, PTL DEF Spec

(* submit deduplicates: while no task of a key outlives its claim, one task *)
(* of it at most is queued or runs, whatever is resubmitted or released.    *)
THEOREM Deduplicates == Spec => []OnePending
  <1>1. IInv => OnePending
    BY DEF IInv, Owns, OnePending
  <1> QED  BY <1>1, Invariance, PTL

(* No key is lost: it is that of a task still to be done with, or on its    *)
(* way back, unless a release raised or its claim has run out.              *)
THEOREM NoKeyLost == Spec => []KeysComeBack
  <1>1. IInv => KeysComeBack
    BY DEF IInv
  <1> QED  BY <1>1, Invariance, PTL

----------------------------------------------------------------------------
(* The shutdown.  An entry of the queue, and a task a worker has, each are  *)
(* counted as unfinished; no task is behind an order to stop, as submit     *)
(* refuses once the queue is closed and the orders come after that.         *)

Held == {w \in Workers : worker[w].pc \in Holding \cup {"released"}}
Counted == unfinished \in Nat /\ Cardinality(Held) + Len(queue) <= unfinished

StopsLast == \A i, j \in 1..Len(queue) : i < j /\ queue[i] = Stop => queue[j] = Stop
OnlyStops == \A i \in 1..Len(queue) : queue[i] = Stop
GoneOK == \A w \in Workers : worker[w].pc = "gone" => OnlyStops
OpenOK ==
    ~closed => /\ \A i \in 1..Len(queue) : queue[i] # Stop
               /\ \A w \in Workers : worker[w].pc # "gone"
               /\ ~complete
CompleteOK == complete => queue = <<>> /\ toStop = 0
Sized ==
    /\ Len(queue) <= MaxSize /\ Len(keyOf) <= MaxTasks /\ kept \subseteq Keys
    /\ closed \in BOOLEAN /\ complete \in BOOLEAN /\ toStop \in 0..Cardinality(Workers)

DInv == Counted /\ StopsLast /\ GoneOK /\ OpenOK /\ CompleteOK /\ Sized

LEMMA HeldFinite == IsFiniteSet(Held) /\ Cardinality(Held) \in Nat
  <1>1. Held \subseteq Workers /\ IsFiniteSet(Workers)
    BY QueueAssumption DEF QueueAssumption, Held
  <1> QED  BY <1>1, FS_Subset, FS_CardinalityType

(* An entry joins the queue: a task of an open one, or an order to stop.    *)
LEMMA EntryJoins ==
    ASSUME Typed, DInv, NEW t \in Nat, queue' = Append(queue, t), Room,
           unfinished' = unfinished + 1, Held' = Held, complete' = complete, closed' = closed,
           \A w \in Workers : worker'[w].pc = "gone" => worker[w].pc = "gone",
           (t = Stop /\ closed) \/ (t # Stop /\ ~closed), ~complete
    PROVE  Counted' /\ StopsLast' /\ GoneOK' /\ OpenOK' /\ CompleteOK' /\ Len(queue') <= MaxSize
  <1>1. /\ Len(queue) \in Nat /\ Len(queue') = Len(queue) + 1 /\ Len(queue) < MaxSize
        /\ \A i \in 1..Len(queue) : queue'[i] = queue[i]
        /\ queue'[Len(queue) + 1] = t
    BY DEF Typed, Room
  <1>2. \A i \in 1..Len(queue') : i \in 1..Len(queue) \/ i = Len(queue) + 1
    BY <1>1
  <1>3. Counted'
    BY <1>1, HeldFinite DEF DInv, Counted
  <1>4. OpenOK'
    BY <1>1, <1>2 DEF DInv, OpenOK
  <1>5. GoneOK'
    <2>1. ASSUME NEW w \in Workers, worker'[w].pc = "gone" PROVE OnlyStops'
      <3>1. OnlyStops /\ closed
        BY <2>1 DEF DInv, GoneOK, OpenOK
      <3> QED  BY <1>1, <1>2, <3>1 DEF OnlyStops
    <2> QED  BY <2>1 DEF GoneOK
  <1>6. StopsLast'
    <2> SUFFICES ASSUME NEW i \in 1..Len(queue'), NEW j \in 1..Len(queue'), i < j, queue'[i] = Stop
                 PROVE  queue'[j] = Stop
      BY DEF StopsLast
    <2>1. i \in 1..Len(queue)
      BY <1>1, <1>2
    <2>2. closed
      BY <1>1, <2>1 DEF DInv, OpenOK
    <2>3. CASE j \in 1..Len(queue)
      BY <1>1, <2>1, <2>3 DEF DInv, StopsLast
    <2>4. CASE j = Len(queue) + 1
      BY <1>1, <2>2, <2>4
    <2> QED  BY <1>2, <2>3, <2>4
  <1>7. Len(queue') <= MaxSize
    BY <1>1, QueueAssumption DEF QueueAssumption
  <1> QED  BY <1>3, <1>4, <1>5, <1>6, <1>7 DEF CompleteOK

(* A step that leaves the queue, the orders to stop and the size alone.     *)
LEMMA QueueStays ==
    ASSUME DInv, UNCHANGED <<queue, shutting>>, Counted',
           \A w \in Workers : worker'[w].pc = "gone" => worker[w].pc = "gone",
           Len(keyOf') <= MaxTasks, kept' \subseteq Keys
    PROVE  DInv'
  <1>1. GoneOK'
    BY DEF DInv, GoneOK, OnlyStops
  <1>2. OpenOK' /\ CompleteOK' /\ Sized' /\ StopsLast'
    BY DEF DInv, shutting, OpenOK, CompleteOK, Sized, StopsLast
  <1> QED  BY <1>1, <1>2 DEF DInv

(* A worker that goes on with its task stays counted.                       *)
LEMMA StillHeld ==
    ASSUME Typed, DInv, NEW w \in Workers, UNCHANGED <<queue, unfinished, shutting, keyOf>>,
           worker[w].pc \in Holding, worker'[w].pc \in Holding \cup {"released"},
           \A v \in Workers \ {w} : worker'[v] = worker[v], kept' \subseteq Keys
    PROVE  DInv'
  <1>1. Held' = Held
    BY DEF Held
  <1>2. \A v \in Workers : worker'[v].pc = "gone" => worker[v].pc = "gone"
    BY DEF Holding
  <1>3. Counted' /\ Len(keyOf') <= MaxTasks
    BY <1>1 DEF DInv, Counted, Sized
  <1> QED  BY <1>2, <1>3, QueueStays

(* A worker that is done with its task: task_done is called, or not.        *)
LEMMA NoLongerHeld ==
    ASSUME Typed, DInv, NEW w \in Workers, UNCHANGED <<queue, shutting, keyOf>>,
           unfinished' \in {unfinished, unfinished - 1},
           worker[w].pc \in Holding \cup {"released"}, worker'[w].pc \in {"idle", "dead"},
           \A v \in Workers \ {w} : worker'[v] = worker[v], kept' \subseteq Keys
    PROVE  DInv'
  <1>1. Held' = Held \ {w} /\ w \in Held
    BY DEF Held, Holding
  <1>2. Cardinality(Held') = Cardinality(Held) - 1
    BY <1>1, HeldFinite, FS_RemoveElement
  <1>3. Counted'
    <2>1. Len(queue) \in Nat /\ Cardinality(Held) \in Nat /\ Cardinality(Held) >= 1
      <3>1. Held # {} /\ Cardinality(Held) # 0
        BY <1>1, HeldFinite, FS_EmptySet
      <3> QED  BY <3>1, HeldFinite DEF Typed
    <2>2. unfinished \in Nat /\ Cardinality(Held) + Len(queue) <= unfinished
      BY DEF DInv, Counted
    <2>3. Cardinality(Held') + Len(queue) <= unfinished' /\ unfinished' \in Nat
      BY <1>2, <2>1, <2>2
    <2> QED  BY <2>3 DEF Counted
  <1>4. \A v \in Workers : worker'[v].pc = "gone" => worker[v].pc = "gone"
    OBVIOUS
  <1>5. Len(keyOf') <= MaxTasks
    BY DEF DInv, Sized
  <1> QED  BY <1>3, <1>4, <1>5, QueueStays

LEMMA AcceptDrains ==
    ASSUME Typed, DInv, NEW a, NEW k, Accept(a, k), Held' = Held,
           \A w \in Workers : worker'[w].pc = "gone" => worker[w].pc = "gone"
    PROVE  DInv'
  <1> DEFINE t == Len(keyOf) + 1
  <1>1. /\ ~closed /\ Len(keyOf) # MaxTasks /\ keyOf' = Append(keyOf, k) /\ keyOf \in Seq(Keys)
        /\ queue' = (IF Room THEN Append(queue, t) ELSE queue)
        /\ unfinished' = (IF Room THEN unfinished + 1 ELSE unfinished)
        /\ UNCHANGED <<closed, toStop, complete, kept>>
    BY DEF Accept, Refused, shutting, history, Typed
  <1>2. /\ Len(keyOf) \in Nat /\ Len(keyOf) <= MaxTasks /\ MaxTasks \in Nat
        /\ Len(Append(keyOf, k)) = t
    BY <1>1, QueueAssumption DEF QueueAssumption, DInv, Sized
  <1>3. t \in Nat /\ t # Stop /\ Len(keyOf') <= MaxTasks
    BY <1>1, <1>2 DEF Stop
  <1> HIDE DEF t
  <1>4. CASE Room
    <2>1. ~complete
      BY <1>1 DEF DInv, OpenOK
    <2>2. Counted' /\ StopsLast' /\ GoneOK' /\ OpenOK' /\ CompleteOK' /\ Len(queue') <= MaxSize
      BY <1>1, <1>3, <1>4, <2>1, EntryJoins
    <2> QED  BY <1>1, <1>3, <2>2 DEF DInv, Sized
  <1>5. CASE ~Room
    <2>1. Counted'
      BY <1>1, <1>5 DEF DInv, Counted
    <2> QED  BY <1>1, <1>3, <1>5, <2>1, QueueStays DEF DInv, Sized, shutting
  <1> QED  BY <1>4, <1>5

(* A worker takes a task, or the order to stop, behind which no task is.    *)
LEMMA GetDrains ==
    ASSUME IInv, DInv, NEW w \in Workers, Get(w)
    PROVE  DInv'
  <1>1. /\ worker[w].pc = "idle" /\ queue # <<>> /\ queue' = Tail(queue) /\ queue \in Seq(Nat)
        /\ UNCHANGED <<keyOf, closed, toStop, complete, kept>>
    BY DEF Get, At, shutting, history, IInv, Typed
  <1>2. /\ Len(queue) \in Nat /\ Len(queue) > 0 /\ Len(queue') = Len(queue) - 1
        /\ Head(queue) = queue[1]
        /\ \A i \in 1..Len(queue') : queue'[i] = queue[i + 1]
    BY <1>1
  <1>3. \A i \in 1..Len(queue') : i + 1 \in 1..Len(queue) /\ i \in Nat /\ 1 < i + 1
    BY <1>2
  <1>4. 1 \in 1..Len(queue)
    BY <1>2
  <1>5. StopsLast'
    <2> SUFFICES ASSUME NEW i \in 1..Len(queue'), NEW j \in 1..Len(queue'), i < j, queue'[i] = Stop
                 PROVE  queue'[j] = Stop
      BY DEF StopsLast
    <2>1. queue[i + 1] = Stop /\ i + 1 < j + 1
      BY <1>2
    <2>2. queue[j + 1] = Stop
      BY <1>3, <2>1 DEF DInv, StopsLast
    <2> QED  BY <1>2, <2>2
  <1>6. OnlyStops => OnlyStops'
    BY <1>2, <1>3 DEF OnlyStops
  <1>7. Sized' /\ CompleteOK'
    BY <1>1, <1>2, QueueAssumption DEF QueueAssumption, DInv, Sized, CompleteOK
  <1>8. CASE Head(queue) = Stop
    <2>1. /\ worker'[w].pc = "gone" /\ \A v \in Workers \ {w} : worker'[v] = worker[v]
          /\ unfinished' = unfinished - 1
      BY <1>1, <1>8, Moves DEF Get, IInv
    <2>2. Held' = Held
      BY <1>1, <2>1 DEF Held, Holding
    <2>3. Counted'
      BY <1>2, <2>1, <2>2, HeldFinite DEF DInv, Counted
    <2>4. OnlyStops'
      <3>1. ASSUME NEW i \in 1..Len(queue') PROVE queue'[i] = Stop
        <4>1. queue[1] = Stop /\ i + 1 \in 1..Len(queue) /\ 1 < i + 1
          BY <1>2, <1>3, <1>8
        <4>2. queue[i + 1] = Stop
          BY <1>4, <4>1 DEF DInv, StopsLast
        <4> QED  BY <1>2, <4>2
      <3> QED  BY <3>1 DEF OnlyStops
    <2>5. GoneOK'
      BY <2>4 DEF GoneOK
    <2>6. OpenOK'
      BY <1>1, <1>2, <1>4, <1>8 DEF DInv, OpenOK
    <2> QED  BY <1>5, <1>7, <2>3, <2>5, <2>6 DEF DInv
  <1>9. CASE Head(queue) # Stop
    <2>1. /\ worker'[w].pc = "taken" /\ \A v \in Workers \ {w} : worker'[v] = worker[v]
          /\ unfinished' = unfinished
      <3>1. /\ worker' = [worker EXCEPT ![w] = [pc |-> "taken", task |-> Head(queue), dies |-> FALSE]]
            /\ unfinished' = unfinished
        BY <1>9 DEF Get
      <3> QED  BY <3>1 DEF IInv, Typed
    <2>2. Held' = Held \cup {w} /\ w \notin Held
      BY <1>1, <2>1 DEF Held, Holding
    <2>3. Cardinality(Held') = Cardinality(Held) + 1
      BY <2>2, HeldFinite, FS_AddElement
    <2>4. Counted'
      BY <1>2, <2>1, <2>3, HeldFinite DEF DInv, Counted
    <2>5. GoneOK'
      BY <1>6, <2>1 DEF DInv, GoneOK
    <2>6. OpenOK'
      BY <1>1, <1>2, <1>3, <2>1 DEF DInv, OpenOK
    <2> QED  BY <1>5, <1>7, <2>4, <2>5, <2>6 DEF DInv
  <1> QED  BY <1>8, <1>9

LEMMA ShutdownDrains ==
    ASSUME IInv, DInv, Close \/ TellStop \/ Complete
    PROVE  DInv'
  <1>1. UNCHANGED <<keyOf, worker, kept>> /\ Held' = Held
    BY DEF Close, TellStop, Complete, history, Held
  <1>2. CASE Close
    <2>1. /\ UNCHANGED <<queue, unfinished, complete>> /\ closed' /\ ~closed
          /\ toStop' = Cardinality(Workers) /\ Cardinality(Workers) \in Nat
      BY <1>2, FS_CardinalityType, QueueAssumption DEF Close, QueueAssumption
    <2>2. Counted' /\ StopsLast' /\ GoneOK'
      BY <1>1, <2>1 DEF DInv, Counted, StopsLast, GoneOK, OnlyStops
    <2>3. OpenOK' /\ CompleteOK' /\ Sized'
      BY <1>1, <1>2, <2>1 DEF DInv, OpenOK, CompleteOK, Sized, Close
    <2> QED  BY <2>2, <2>3 DEF DInv
  <1>3. CASE TellStop
    <2>1. /\ closed /\ toStop > 0 /\ Room /\ queue' = Append(queue, Stop) /\ Stop \in Nat
          /\ toStop' = toStop - 1
          /\ unfinished' = unfinished + 1 /\ UNCHANGED <<closed, complete>>
      BY <1>3 DEF TellStop, Stop
    <2>2. ~complete
      BY <2>1 DEF DInv, CompleteOK
    <2>3. Counted' /\ StopsLast' /\ GoneOK' /\ OpenOK' /\ CompleteOK' /\ Len(queue') <= MaxSize
      BY <1>1, <2>1, <2>2, EntryJoins DEF IInv
    <2>4. toStop' \in 0..Cardinality(Workers)
      <3>1. Cardinality(Workers) \in Nat /\ toStop \in 0..Cardinality(Workers)
        BY FS_CardinalityType, QueueAssumption DEF QueueAssumption, DInv, Sized
      <3> QED  BY <2>1, <3>1
    <2> QED  BY <1>1, <2>1, <2>3, <2>4 DEF DInv, Sized
  <1>4. CASE Complete
    <2>1. /\ closed /\ toStop = 0 /\ unfinished = 0 /\ complete'
          /\ UNCHANGED <<queue, unfinished, closed, toStop>>
      BY <1>4 DEF Complete
    <2>2. queue = <<>>
      <3>1. Len(queue) \in Nat /\ Cardinality(Held) \in Nat /\ Cardinality(Held) + Len(queue) <= 0
        BY <2>1, HeldFinite DEF IInv, Typed, DInv, Counted
      <3>2. Len(queue) = 0
        BY <3>1
      <3> QED  BY <3>2 DEF IInv, Typed
    <2>3. Counted' /\ StopsLast' /\ GoneOK'
      BY <1>1, <2>1 DEF DInv, Counted, StopsLast, GoneOK, OnlyStops
    <2>4. OpenOK' /\ CompleteOK' /\ Sized'
      BY <1>1, <2>1, <2>2 DEF DInv, OpenOK, CompleteOK, Sized
    <2> QED  BY <2>3, <2>4 DEF DInv
  <1> QED  BY <1>2, <1>3, <1>4

LEMMA WorkDrains ==
    ASSUME IInv, DInv, NEW w \in Workers, Work(w) \/ LetGo(w) \/ Break(w) \/ BreakOff(w),
           ~GiveBack(w)
    PROVE  DInv'
  <1>1. Typed /\ kept \subseteq Keys
    BY DEF IInv, DInv, Sized
  <1>2. CASE Get(w)
    BY <1>2, GetDrains
  <1>3. CASE Start(w) \/ Return(w) \/ LetGo(w) \/ Report(w)
    <2>1. PICK pc \in Holding : GoTo(w, pc)
      BY <1>3 DEF Start, Return, LetGo, Report, Holding
    <2>2. /\ worker'[w].pc = pc /\ \A v \in Workers \ {w} : worker'[v] = worker[v]
      BY <1>1, <2>1, Moves
    <2>3. /\ worker[w].pc \in Holding /\ UNCHANGED <<queue, unfinished, shutting, keyOf, kept>>
      BY <1>3 DEF Start, Return, LetGo, Report, At, Holding, shutting, history
    <2> QED  BY <1>1, <2>2, <2>3, StillHeld
  <1>4. CASE Resubmit(w)
    <2>1. /\ worker[w].pc = "resubmitting" /\ GoTo(w, "returned") /\ Accept(w, KeyAt(w))
      BY <1>4 DEF Resubmit, At
    <2>2. /\ worker'[w].pc = "returned" /\ \A v \in Workers \ {w} : worker'[v] = worker[v]
      BY <1>1, <2>1, Moves DEF Holding
    <2>3. Held' = Held /\ \A v \in Workers : worker'[v].pc = "gone" => worker[v].pc = "gone"
      BY <2>1, <2>2 DEF Held, Holding
    <2> QED  BY <1>1, <2>1, <2>3, AcceptDrains
  <1>5. CASE Break(w)
    <2>1. /\ worker[w].pc \in Holding /\ UNCHANGED <<queue, unfinished, shutting, keyOf, kept>>
          /\ worker' = [worker EXCEPT ![w] = [pc |-> "leaving", task |-> worker[w].task, dies |-> TRUE]]
      BY <1>5 DEF Break, At, Holding, shutting, history
    <2>2. /\ worker'[w].pc = "leaving" /\ \A v \in Workers \ {w} : worker'[v] = worker[v]
      BY <1>1, <2>1 DEF Typed
    <2> QED  BY <1>1, <2>1, <2>2, StillHeld DEF Holding
  <1>6. CASE Release(w)
    <2>1. /\ worker[w].pc = "leaving" /\ GoTo(w, "released")
          /\ UNCHANGED <<queue, unfinished, shutting, keyOf, kept>>
      BY <1>6 DEF Release, At, shutting, history
    <2>2. /\ worker'[w].pc = "released" /\ \A v \in Workers \ {w} : worker'[v] = worker[v]
      BY <1>1, <2>1, Moves
    <2> QED  BY <1>1, <2>1, <2>2, StillHeld DEF Holding
  <1>7. CASE BreakOff(w)
    <2>1. /\ worker[w].pc = "leaving" /\ GoTo(w, "dead") /\ kept' = kept \cup {KeyAt(w)}
          /\ UNCHANGED <<queue, unfinished, shutting, keyOf>>
      BY <1>7 DEF BreakOff, At, shutting
    <2>2. /\ worker'[w].pc = "dead" /\ \A v \in Workers \ {w} : worker'[v] = worker[v]
      BY <1>1, <2>1, Moves
    <2>3. KeyAt(w) \in Keys
      BY <2>1, NotPending DEF KeyAt
    <2> QED  BY <1>1, <2>1, <2>2, <2>3, NoLongerHeld DEF Holding
  <1>8. CASE Finish(w)
    <2>1. /\ worker[w].pc = "released" /\ unfinished' = unfinished - 1
          /\ UNCHANGED <<queue, shutting, keyOf, kept>>
          /\ worker' = [worker EXCEPT ![w] = IF worker[w].dies THEN [worker[w] EXCEPT !.pc = "dead"]
                                             ELSE Resting]
      BY <1>8 DEF Finish, At, shutting, history
    <2>2. /\ worker'[w].pc \in {"idle", "dead"} /\ \A v \in Workers \ {w} : worker'[v] = worker[v]
      BY <1>1, <2>1 DEF Typed, Resting
    <2> QED  BY <1>1, <2>1, <2>2, NoLongerHeld
  <1> QED  BY <1>2, <1>3, <1>4, <1>5, <1>6, <1>7, <1>8 DEF Work

LEMMA NextDrains ==
    ASSUME IInv, DInv, [Next]_vars
    PROVE  DInv'
  <1>1. ASSUME UNCHANGED <<queue, unfinished, shutting, keyOf, worker>>, kept' \subseteq Keys
        PROVE  DInv'
    <2>1. Held' = Held
      BY <1>1 DEF Held
    <2> QED  BY <1>1, <2>1, QueueStays DEF DInv, Counted, Sized
  <1>2. kept \subseteq Keys
    BY DEF DInv, Sized
  <1>3. CASE UNCHANGED vars
    BY <1>1, <1>2, <1>3 DEF vars, shutting
  <1>4. ASSUME NEW a \in Actors, GiveBack(a) PROVE DInv'
    <2>1. UNCHANGED <<queue, unfinished, shutting, keyOf, worker>>
      BY <1>4 DEF GiveBack, shutting
    <2>2. giving[a].key \in Keys
      BY <1>4 DEF GiveBack, IInv, Typed
    <2>3. kept' = kept \/ kept' = kept \cup {giving[a].key}
      BY <1>4 DEF GiveBack
    <2> QED  BY <1>1, <1>2, <2>1, <2>2, <2>3
  <1>5. ASSUME NEW c \in Callers, NEW k \in Keys, Submit(c, k) PROVE DInv'
    <2>1. Accept(c, k) /\ worker' = worker
      BY <1>5 DEF Submit
    <2>2. Held' = Held
      BY <2>1 DEF Held
    <2> QED  BY <2>1, <2>2, AcceptDrains DEF IInv
  <1>6. ASSUME NEW k \in Keys, Lapse(k) PROVE DInv'
    BY <1>1, <1>2, <1>6 DEF Lapse, shutting
  <1>7. ASSUME NEW w \in Workers, Work(w) \/ LetGo(w) \/ Break(w) \/ BreakOff(w) PROVE DInv'
    BY <1>4, <1>7, WorkDrains DEF Actors
  <1> QED
    BY <1>3, <1>4, <1>5, <1>6, <1>7, ShutdownDrains DEF Next, Actors

LEMMA InitDrains == ASSUME Init PROVE DInv
  <1>1. \A w \in Workers : worker[w].pc = "idle"
    BY DEF Init, Resting
  <1>2. Held = {} /\ queue = <<>>
    BY <1>1 DEF Init, Held, Holding
  <1>3. Cardinality(Held) = 0 /\ Len(queue) = 0
    BY <1>2, FS_EmptySet
  <1>4. Cardinality(Workers) \in Nat
    BY FS_CardinalityType, QueueAssumption DEF QueueAssumption
  <1>5. Counted
    BY <1>3 DEF Init, Counted
  <1>6. StopsLast /\ GoneOK /\ OpenOK /\ CompleteOK
    BY <1>1, <1>3 DEF Init, StopsLast, GoneOK, OpenOK, CompleteOK
  <1>7. Sized
    <2>1. Len(queue) <= MaxSize /\ Len(keyOf) <= MaxTasks
      <3>1. Len(keyOf) = 0
        BY DEF Init
      <3> QED  BY <1>3, <3>1, QueueAssumption DEF QueueAssumption
    <2>2. kept \subseteq Keys /\ closed \in BOOLEAN /\ complete \in BOOLEAN
      BY DEF Init
    <2>3. toStop \in 0..Cardinality(Workers)
      BY <1>4 DEF Init
    <2> QED  BY <2>1, <2>2, <2>3 DEF Sized
  <1> QED  BY <1>5, <1>6, <1>7 DEF DInv

(* Every entry of the queue is counted, and no task is behind an order to   *)
(* stop.                                                                    *)
THEOREM ShutdownInvariance == Spec => []DInv
  <1> QED  BY InitDrains, NextDrains, Invariance, PTL DEF Spec

(* The queue "drains accepted jobs during shutdown": a thread stops only    *)
(* when no task is left in the queue, and a shutdown is complete only when  *)
(* the queue is empty, whatever threads died: the safety half of Drains.    *)
THEOREM DrainedWhenStopped == Spec => []StopsWhenDrained
  <1>1. IInv /\ DInv => StopsWhenDrained
    <2> SUFFICES ASSUME IInv, DInv PROVE StopsWhenDrained
      OBVIOUS
    <2>1. ASSUME NEW w \in Workers, worker[w].pc = "gone" PROVE Queued = {}
      <3>1. OnlyStops
        BY <2>1 DEF DInv, GoneOK
      <3> QED  BY <3>1, InQueue DEF OnlyStops, IInv, Typed
    <2> QED  BY <2>1 DEF StopsWhenDrained, DInv, CompleteOK
  <1> QED  BY <1>1, Invariance, ShutdownInvariance, PTL

(* The queue, the backend and the workers keep their type, and the queue    *)
(* its size.                                                                *)
THEOREM TypeCorrect == Spec => []TypeOK
  <1>1. IInv /\ DInv => TypeOK
    <2> SUFFICES ASSUME IInv, DInv PROVE TypeOK
      OBVIOUS
    <2>1. /\ Len(keyOf) \in Nat /\ Len(keyOf) <= MaxTasks /\ MaxTasks \in Nat
          /\ \A n \in 1..Len(keyOf) : n \in 0..MaxTasks
          /\ \A n \in 0..Len(keyOf) : n \in 0..MaxTasks
          /\ 0 \in 0..MaxTasks
      BY QueueAssumption DEF QueueAssumption, IInv, Typed, DInv, Sized
    <2>2. queue \in Seq(0..MaxTasks) /\ Len(queue) <= MaxSize
      <3>1. \A i \in 1..Len(queue) : queue[i] \in 0..MaxTasks
        BY <2>1 DEF IInv, QueuedOnce
      <3>2. queue \in Seq(Nat) /\ Len(queue) <= MaxSize
        BY DEF IInv, Typed, DInv, Sized
      <3>3. /\ Len(queue) \in Nat /\ DOMAIN queue = 1..Len(queue)
            /\ queue = [i \in 1..Len(queue) |-> queue[i]]
        BY <3>2
      <3>4. queue \in [1..Len(queue) -> 0..MaxTasks]
        BY <3>1, <3>3
      <3>5. queue \in UNION {[1..n -> 0..MaxTasks] : n \in Nat}
        BY <3>3, <3>4, Zenon
      <3>6. queue \in Seq(0..MaxTasks)
        BY <3>5, SeqDef, Zenon
      <3> QED  BY <3>2, <3>6
    <2>3. holder \in [Keys -> 0..MaxTasks] /\ claims \in [Keys -> 0..MaxTasks]
      BY <2>1 DEF IInv, Typed, KeyOK, Fits
    <2>4. giving \in [Workers \cup Callers -> GivenBack]
      <3>1. ASSUME NEW a \in Actors PROVE giving[a] \in GivenBack
        <4>1. CASE giving[a] = Nothing
          BY <4>1 DEF GivenBack
        <4>2. CASE giving[a] # Nothing
          <5>1. giving[a] \in [key : Keys, task : Nat] /\ GivingOK(a)
            BY <4>2 DEF IInv, Typed
          <5>2. giving[a].task \in 0..MaxTasks
            BY <2>1, <4>2, <5>1 DEF GivingOK, Fits
          <5> QED  BY <5>1, <5>2 DEF GivenBack
        <4> QED  BY <4>1, <4>2
      <3> QED  BY <3>1 DEF IInv, Typed, Actors
    <2>5. worker \in [Workers ->
            [pc : {"idle", "taken", "running", "resubmitting", "returned", "leaving",
                   "released", "dead", "gone"},
             task : 0..MaxTasks, dies : BOOLEAN]]
      <3>1. \A w \in Workers : worker[w].task \in 0..MaxTasks
        BY <2>1 DEF IInv, WorkerOK
      <3> QED  BY <3>1 DEF IInv, Typed, Holding
    <2>6. /\ unfinished \in Nat /\ closed \in BOOLEAN /\ complete \in BOOLEAN
          /\ toStop \in 0..Cardinality(Workers) /\ kept \subseteq Keys
      BY DEF DInv, Counted, Sized
    <2>7. /\ keyOf \in Seq(Keys) /\ Len(keyOf) <= MaxTasks
          /\ lapsed \subseteq Keys /\ outlived \subseteq Keys
      BY <2>1 DEF IInv, Typed
    <2> QED  BY <2>2, <2>3, <2>4, <2>5, <2>6, <2>7 DEF TypeOK
  <1> QED  BY <1>1, Invariance, ShutdownInvariance, PTL
==============================================================================
