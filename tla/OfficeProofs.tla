---------------------------- MODULE OfficeProofs ----------------------------
(***************************************************************************)
(* Proofs about the parts beside the core, for any number of requests,     *)
(* threads, connections, recipients, entries, readers and cases: the       *)
(* throttle (RateLimiter), the event loop with its pool of connections     *)
(* (EventLoop), mails to many (Mailing), the audit log (AuditTrail), the   *)
(* figures of a payload (Figures) and the parts side by side (MCOffice).   *)
(***************************************************************************)
EXTENDS MCOffice, DirectoryProofs, OcrProofs, FiniteSetTheorems, TLAPS

-----------------------------------------------------------------------------
(* The throttle.  The deque keeps the stamps of the newest calls that were *)
(* let in, in the order in which they were; each stamp is at most MaxWait  *)
(* older than its call.  Of the calls whose stamps it has dropped a stamp  *)
(* was out of the window of somebody's clock, which all clocks have passed *)
(* since.  Since the deque is never longer than the limit, of any two      *)
(* calls that far apart in the order the earlier one has been dropped.     *)

Dropped == Len(admitted) - Len(hits)

\* Each kept stamp belongs to a call; the calls before those are out of the
\* window, up to the wait.
DequeIsNewest ==
  /\ Len(hits) <= Len(admitted)
  /\ \A n \in 1..Len(hits) : admitted[Dropped + n] <= hits[n] + MaxWait
  /\ \A n \in 1..Dropped : admitted[n] + Window <= clock + MaxWait

\* No waiting thread's clock is in the future, or older than the longest wait.
StampsAreRecent ==
  \A w \in Workers : stamp[w] # NotWaiting =>
    stamp[w] <= clock /\ clock <= stamp[w] + MaxWait

LimiterInv ==
  /\ LimiterTypeOK
  /\ StampsAreRecent
  /\ DequeIsNewest
  /\ WindowHolds

\* Pruning drops a prefix of stamps that are out of the window, and no others.
LEMMA PruneDrops ==
  ASSUME NEW queue \in Seq(Nat), NEW now \in Nat, Window \in Nat
  PROVE  \E n \in 0..Len(queue) :
           /\ Prune(queue, now) \in Seq(Nat)
           /\ Len(Prune(queue, now)) = Len(queue) - n
           /\ \A i \in 1..Len(Prune(queue, now)) : Prune(queue, now)[i] = queue[n + i]
           /\ \A i \in 1..n : queue[i] + Window <= now
<1> DEFINE inside == {i \in DOMAIN queue : queue[i] + Window > now}
           first == CHOOSE i \in inside : \A k \in inside : i <= k
<1>1. CASE inside = {}
  <2>1. Prune(queue, now) = <<>>
    BY <1>1 DEF Prune
  <2>2. \A i \in 1..Len(queue) : queue[i] + Window <= now
    BY <1>1
  <2>3. QED
    BY <2>1, <2>2
<1>2. CASE inside # {}
  <2>1. inside \subseteq Nat
    OBVIOUS
  <2>2. \E i \in inside : \A k \in inside : i <= k
    BY <1>2, <2>1, LeastNatural
  <2>3. first \in inside /\ \A k \in inside : first <= k
    BY <2>2
  <2>4. Prune(queue, now) = SubSeq(queue, first, Len(queue))
    BY <1>2 DEF Prune
  <2>5. first \in 1..Len(queue)
    BY <2>3
  <2> HIDE DEF first
  <2>6. \A i \in 1..first - 1 : queue[i] + Window <= now
    <3>1. ASSUME NEW i \in 1..first - 1 PROVE queue[i] + Window <= now
      <4>1. i \notin inside /\ i \in DOMAIN queue
        BY <2>3, <2>5
      <4>2. QED
        BY <4>1
    <3>2. QED
      BY <3>1
  <2>7. \A i \in first..Len(queue) : queue[i] \in Nat
    BY <2>5
  <2>8. /\ SubSeq(queue, first, Len(queue)) \in Seq(Nat)
        /\ Len(SubSeq(queue, first, Len(queue))) = Len(queue) - first + 1
        /\ \A i \in 1..Len(queue) - first + 1 :
             SubSeq(queue, first, Len(queue))[i] = queue[first + i - 1]
    BY <2>5, <2>7, SubSeqProperties
  <2>9. first - 1 \in 0..Len(queue)
    BY <2>5
  <2>10. /\ Len(Prune(queue, now)) = Len(queue) - (first - 1)
         /\ \A i \in 1..Len(Prune(queue, now)) :
              Prune(queue, now)[i] = queue[(first - 1) + i]
    <3>1. Len(queue) - first + 1 = Len(queue) - (first - 1)
      BY <2>5
    <3>2. ASSUME NEW i \in 1..Len(queue) - (first - 1)
          PROVE  Prune(queue, now)[i] = queue[(first - 1) + i]
      <4>1. first + i - 1 = (first - 1) + i
        BY <2>5
      <4>2. QED
        BY <2>4, <2>8, <3>1, <4>1
    <3>3. QED
      BY <2>4, <2>8, <3>1, <3>2
  <2>11. Prune(queue, now) \in Seq(Nat)
    BY <2>4, <2>8
  <2>12. QED
    BY <2>6, <2>9, <2>10, <2>11
<1>3. QED
  BY <1>1, <1>2

-----------------------------------------------------------------------------
LEMMA InitLimiterInv == LimiterInit => LimiterInv
BY LimiterAssumption DEF LimiterInit, LimiterInv, LimiterTypeOK, StampsAreRecent, DequeIsNewest,
   Dropped, WindowHolds

\* The critical section keeps the deque in step with the calls let in.
LEMMA AllowIInv ==
  ASSUME LimiterInv, NEW w \in Workers, Allow(w)
  PROVE  LimiterInv'
<1>1. /\ clock \in Nat /\ stamp[w] \in Nat
      /\ MaxEvents \in Nat /\ Window \in Nat /\ MaxWait \in Nat
      /\ stamp[w] <= clock /\ clock <= stamp[w] + MaxWait
  BY LimiterAssumption DEF LimiterInv, LimiterTypeOK, Allow, StampsAreRecent
<1>2. hits \in Seq(Nat) /\ admitted \in Seq(Nat)
  BY DEF LimiterInv, LimiterTypeOK
<1> DEFINE kept == Prune(hits, stamp[w])
<1>3. PICK n \in 0..Len(hits) :
        /\ kept \in Seq(Nat)
        /\ Len(kept) = Len(hits) - n
        /\ \A i \in 1..Len(kept) : kept[i] = hits[n + i]
        /\ \A i \in 1..n : hits[i] + Window <= stamp[w]
  BY <1>1, <1>2, PruneDrops
<1>4. /\ hits' = IF Len(kept) >= MaxEvents THEN kept ELSE Append(kept, stamp[w])
      /\ admitted' = IF Len(kept) >= MaxEvents THEN admitted ELSE Append(admitted, clock)
      /\ stamp' = [stamp EXCEPT ![w] = NotWaiting] /\ clock' = clock /\ reboots' = reboots
  BY DEF Allow
<1> HIDE DEF kept
<1>5. StampsAreRecent' /\ stamp' \in [Workers -> Nat \cup {NotWaiting}]
  BY <1>4 DEF LimiterInv, LimiterTypeOK, StampsAreRecent
\* The sizes.
<1>6. /\ n \in Nat /\ Len(hits) \in Nat /\ Len(kept) \in Nat /\ Len(admitted) \in Nat
      /\ n <= Len(hits) /\ Len(kept) = Len(hits) - n /\ Len(hits) <= Len(admitted)
  BY <1>2, <1>3 DEF LimiterInv, DequeIsNewest
\* Whether or not the call is let in, the calls no longer kept are out of the
\* window.
<1>7. ASSUME NEW i \in 1..Len(kept)
      PROVE  admitted[Len(admitted) - Len(kept) + i] <= kept[i] + MaxWait
  <2>1. kept[i] = hits[n + i]
    BY <1>3
  <2>2. /\ n + i \in 1..Len(hits)
        /\ Len(admitted) - Len(hits) + (n + i) = Len(admitted) - Len(kept) + i
    BY <1>6
  <2>3. admitted[Len(admitted) - Len(hits) + (n + i)] <= hits[n + i] + MaxWait
    BY <2>2 DEF LimiterInv, DequeIsNewest, Dropped
  <2>4. QED
    BY <2>1, <2>2, <2>3
<1>8. ASSUME NEW i \in 1..Len(admitted) - Len(kept)
      PROVE  admitted[i] + Window <= clock + MaxWait
  <2>1. CASE i <= Len(admitted) - Len(hits)
    <3>1. i \in 1..Len(admitted) - Len(hits)
      BY <1>6, <2>1
    <3>2. QED
      BY <3>1 DEF LimiterInv, DequeIsNewest, Dropped
  <2>2. CASE i > Len(admitted) - Len(hits)
    <3>1. PICK k \in 1..n : i = Len(admitted) - Len(hits) + k
      <4>1. i - (Len(admitted) - Len(hits)) \in 1..n
        BY <1>6, <2>2
      <4>2. i = Len(admitted) - Len(hits) + (i - (Len(admitted) - Len(hits)))
        BY <1>6
      <4>3. QED
        BY <4>1, <4>2
    <3>2. k \in 1..Len(hits) /\ i \in 1..Len(admitted)
      BY <1>6
    <3>3. admitted[i] <= hits[k] + MaxWait
      BY <3>1, <3>2 DEF LimiterInv, DequeIsNewest, Dropped
    <3>4. hits[k] + Window <= stamp[w]
      BY <1>3
    <3>5. admitted[i] \in Nat /\ hits[k] \in Nat
      BY <1>2, <3>2
    <3>6. QED
      BY <1>1, <3>3, <3>4, <3>5
  <2>3. QED
    BY <1>6, <2>1, <2>2
<1>9. CASE Len(kept) >= MaxEvents
  <2>1. hits' = kept /\ admitted' = admitted
    BY <1>4, <1>9
  <2>2. Len(kept) <= MaxEvents
    BY <1>1, <1>6 DEF LimiterInv, LimiterTypeOK
  <2>3. LimiterTypeOK'
    BY <1>3, <1>4, <1>5, <2>1, <2>2 DEF LimiterInv, LimiterTypeOK
  <2>4. DequeIsNewest'
    BY <1>4, <1>6, <1>7, <1>8, <2>1 DEF DequeIsNewest, Dropped
  <2>5. WindowHolds'
    BY <2>1 DEF LimiterInv, WindowHolds
  <2>6. QED
    BY <1>5, <2>3, <2>4, <2>5 DEF LimiterInv
<1>10. CASE Len(kept) < MaxEvents
  <2>1. hits' = Append(kept, stamp[w]) /\ admitted' = Append(admitted, clock)
    BY <1>1, <1>4, <1>6, <1>10
  <2>2. /\ hits' \in Seq(Nat) /\ Len(hits') = Len(kept) + 1
        /\ \A i \in 1..Len(kept) : hits'[i] = kept[i]
        /\ hits'[Len(kept) + 1] = stamp[w]
    BY <1>1, <1>3, <2>1, AppendProperties
  <2>3. /\ admitted' \in Seq(Nat) /\ Len(admitted') = Len(admitted) + 1
        /\ \A i \in 1..Len(admitted) : admitted'[i] = admitted[i]
        /\ admitted'[Len(admitted) + 1] = clock
    BY <1>1, <1>2, <2>1, AppendProperties
  <2>4. Len(hits') <= MaxEvents
    BY <1>1, <1>6, <1>10, <2>2
  <2>5. LimiterTypeOK'
    BY <1>4, <1>5, <2>2, <2>3, <2>4 DEF LimiterInv, LimiterTypeOK
  <2>6. Dropped' = Len(admitted) - Len(kept)
    <3>1. Dropped' = (Len(admitted) + 1) - (Len(kept) + 1)
      BY <2>2, <2>3 DEF Dropped
    <3>2. QED
      BY <1>6, <3>1
  <2>7. ASSUME NEW i \in 1..Len(kept) + 1
        PROVE  admitted'[Len(admitted) - Len(kept) + i] <= hits'[i] + MaxWait
    <3>1. CASE i <= Len(kept)
      <4>1. i \in 1..Len(kept) /\ Len(admitted) - Len(kept) + i \in 1..Len(admitted)
        BY <1>6, <3>1
      <4>2. QED
        BY <1>7, <2>2, <2>3, <4>1
    <3>2. CASE i = Len(kept) + 1
      <4>1. Len(admitted) - Len(kept) + i = Len(admitted) + 1
        BY <1>6, <3>2
      <4>2. QED
        BY <1>1, <2>2, <2>3, <3>2, <4>1
    <3>3. QED
      BY <1>6, <3>1, <3>2
  <2>8. ASSUME NEW i \in 1..Len(admitted) - Len(kept)
        PROVE  admitted'[i] + Window <= clock + MaxWait
    <3>1. i \in 1..Len(admitted)
      BY <1>6
    <3>2. QED
      BY <1>8, <2>3, <3>1
  <2>9. DequeIsNewest'
    <3>1. Len(hits') <= Len(admitted')
      BY <1>6, <2>2, <2>3
    <3>2. \A i \in 1..Len(hits') : admitted'[Dropped' + i] <= hits'[i] + MaxWait
      BY <2>2, <2>6, <2>7
    <3>3. \A i \in 1..Dropped' : admitted'[i] + Window <= clock' + MaxWait
      BY <1>4, <2>6, <2>8
    <3>4. QED
      BY <3>1, <3>2, <3>3 DEF DequeIsNewest
  <2>10. ASSUME NEW i \in DOMAIN admitted', NEW j \in DOMAIN admitted', j >= i + MaxEvents
         PROVE  admitted'[j] - admitted'[i] >= Window - MaxWait
    <3>1. i \in 1..Len(admitted) + 1 /\ j \in 1..Len(admitted) + 1
      BY <2>3
    <3>2. CASE j <= Len(admitted)
      <4>1. i \in 1..Len(admitted) /\ j \in 1..Len(admitted)
        BY <1>1, <1>6, <2>10, <3>1, <3>2
      <4>2. admitted'[i] = admitted[i] /\ admitted'[j] = admitted[j]
        BY <2>3, <4>1
      <4>3. i \in DOMAIN admitted /\ j \in DOMAIN admitted
        BY <1>2, <4>1
      <4>4. QED
        BY <2>10, <4>2, <4>3 DEF LimiterInv, WindowHolds
    <3>3. CASE j = Len(admitted) + 1
      <4>1. i \in 1..Len(admitted) - Len(kept)
        BY <1>1, <1>6, <1>10, <2>10, <3>1, <3>3
      <4>2. admitted'[i] + Window <= clock + MaxWait /\ admitted'[j] = clock
        BY <2>3, <2>8, <3>3, <4>1
      <4>3. admitted'[i] \in Nat
        BY <2>3, <3>1
      <4>4. QED
        BY <1>1, <4>2, <4>3
    <3>4. QED
      BY <1>6, <3>1, <3>2, <3>3
  <2>11. WindowHolds'
    BY <2>10 DEF WindowHolds
  <2>12. QED
    BY <1>5, <2>5, <2>9, <2>11 DEF LimiterInv
<1>11. QED
  BY <1>1, <1>6, <1>9, <1>10

LEMMA NextLimiterInv == LimiterInv /\ [LimiterNext]_limiterVars => LimiterInv'
<1> SUFFICES ASSUME LimiterInv, [LimiterNext]_limiterVars PROVE LimiterInv'
  OBVIOUS
<1> USE LimiterAssumption
<1>1. ASSUME NEW w \in Workers, ReadClock(w) PROVE LimiterInv'
  BY <1>1 DEF ReadClock, LimiterInv, LimiterTypeOK, StampsAreRecent, DequeIsNewest, Dropped,
              WindowHolds
<1>2. ASSUME NEW w \in Workers, Allow(w) PROVE LimiterInv'
  BY <1>2, AllowIInv
<1>3. CASE Pass
  <2>1. UNCHANGED <<hits, stamp, admitted, reboots>> /\ clock' = clock + 1
    BY <1>3 DEF Pass
  <2>2. LimiterTypeOK' /\ WindowHolds'
    BY <2>1 DEF LimiterInv, LimiterTypeOK, WindowHolds
  <2>3. StampsAreRecent'
    BY <1>3, <2>1 DEF Pass, LimiterInv, LimiterTypeOK, StampsAreRecent
  <2>4. DequeIsNewest'
    BY <2>1 DEF LimiterInv, LimiterTypeOK, DequeIsNewest, Dropped
  <2>5. QED
    BY <2>2, <2>3, <2>4 DEF LimiterInv
<1>4. CASE Reboot
  BY <1>4 DEF Reboot, LimiterInv, LimiterTypeOK, StampsAreRecent, DequeIsNewest, Dropped,
              WindowHolds
<1>5. CASE UNCHANGED limiterVars
  BY <1>5 DEF limiterVars, LimiterInv, LimiterTypeOK, StampsAreRecent, DequeIsNewest, Dropped,
              WindowHolds
<1>6. QED
  BY <1>1, <1>2, <1>3, <1>4, <1>5 DEF LimiterNext

-----------------------------------------------------------------------------
(* The theorems.                                                           *)

\* The deque never holds more stamps than the limit, and the clock, the stamps
\* and the counts are numbers.
THEOREM LimiterTypeCorrect == LimiterSpec => []LimiterTypeOK
<1>1. LimiterInv => LimiterTypeOK
  BY DEF LimiterInv
<1>2. QED
  BY InitLimiterInv, NextLimiterInv, <1>1, PTL DEF LimiterSpec

\* For every number of threads: of any calls let in, more than the limit are
\* never within a span shorter than the window by the wait for the lock.
THEOREM ThrottleHolds == LimiterSpec => []WindowHolds
<1>1. LimiterInv => WindowHolds
  BY DEF LimiterInv
<1>2. QED
  BY InitLimiterInv, NextLimiterInv, <1>1, PTL DEF LimiterSpec

-----------------------------------------------------------------------------
(* The loop and the pool.                                                  *)

LoopTypes ==
  /\ loop \in Webhooks \cup {Free}
  /\ stage \in [Jobs -> Stage]
  /\ rowLock \in Patches \cup {Free}
  /\ prefs \in Prefs /\ latest \in Prefs
  /\ mine \in [Patches -> Prefs \cup {Free}]
  /\ sideBySide \in BOOLEAN

\* Connections are counted, so what is counted is finite.
PoolInv == IsFiniteSet(Connected) /\ Cardinality(Connected) <= Connections

\* A session holds preferences while its request has a connection, and those
\* that are committed unless another request has committed meanwhile.
ToggleInv ==
  /\ \A p \in Patches : p \in Connected <=> mine[p] # Free
  /\ ~sideBySide =>
       /\ prefs = latest
       /\ \A p \in Patches : mine[p] # Free => mine[p] = prefs

LoopInv == LoopTypes /\ PoolInv /\ ToggleInv

LEMMA InitLoopInv == LoopAssumption /\ LoopInit => LoopInv
<1> SUFFICES ASSUME LoopAssumption, LoopInit PROVE LoopInv
  OBVIOUS
<1>1. LoopTypes
  BY DEF LoopInit, LoopTypes, LoopAssumption, Stage, Prefs
<1>2. Connected = {}
  BY DEF LoopInit, Connected
<1>3. PoolInv
  BY <1>2, FS_EmptySet DEF PoolInv, LoopAssumption
<1>4. ToggleInv
  BY <1>2 DEF LoopInit, ToggleInv
<1>5. QED
  BY <1>1, <1>3, <1>4 DEF LoopInv

LEMMA NextLoopTypes ==
  ASSUME LoopTypes, ToggleInv, [LoopNext]_loopVars
  PROVE  LoopTypes'
<1> USE DEF LoopTypes, Goto, Jobs, Stage
<1>1. ASSUME NEW p \in Patches, StartPatch(p) PROVE LoopTypes'
  BY <1>1 DEF StartPatch
<1>2. ASSUME NEW p \in Patches, LoadAccount(p) PROVE LoopTypes'
  BY <1>2 DEF LoadAccount
<1>3. ASSUME NEW p \in Patches, MergeToggle(p) PROVE LoopTypes'
  BY <1>3 DEF MergeToggle
<1>4. ASSUME NEW p \in Patches, FlushAccount(p) PROVE LoopTypes'
  BY <1>4 DEF FlushAccount
<1>5. ASSUME NEW p \in Patches, CommitAccount(p) PROVE LoopTypes'
  <2>1. PICK k \in PrefKeys, value \in BOOLEAN :
          /\ prefs' = [mine[p] EXCEPT ![k] = value]
          /\ latest' = [latest EXCEPT ![k] = value]
    BY <1>5 DEF CommitAccount
  <2>2. mine[p] \in Prefs
    BY <1>5 DEF CommitAccount, ToggleInv, Connected
  <2>3. prefs' \in Prefs /\ latest' \in Prefs
    BY <2>1, <2>2 DEF Prefs
  <2>4. QED
    BY <1>5, <2>3 DEF CommitAccount
<1>6. ASSUME NEW h \in Webhooks, StartWebhook(h) PROVE LoopTypes'
  BY <1>6 DEF StartWebhook
<1>7. ASSUME NEW h \in Webhooks, ReadPayment(h) PROVE LoopTypes'
  BY <1>7 DEF ReadPayment
<1>8. ASSUME NEW h \in Webhooks, SettleOnLoop(h) \/ CloseWebhook(h) PROVE LoopTypes'
  BY <1>8 DEF SettleOnLoop, CloseWebhook
<1>9. ASSUME NEW j \in Jobs, ScheduleEnd(j) \/ TimeOut(j) PROVE LoopTypes'
  BY <1>9 DEF ScheduleEnd, TimeOut
<1>10. CASE UNCHANGED loopVars
  BY <1>10 DEF loopVars
<1>11. QED
  BY <1>1, <1>2, <1>3, <1>4, <1>5, <1>6, <1>7, <1>8, <1>9, <1>10 DEF LoopNext

\* The stages of requests other than j stay.
LEMMA GotoOne ==
  ASSUME LoopTypes, NEW j \in Jobs, NEW label \in Stage, Goto(j, label)
  PROVE  Connected' = IF label \in {"idle", "started"} THEN Connected \ {j}
                      ELSE Connected \cup {j}
BY DEF LoopTypes, Goto, Connected

\* Only one that finds room takes a connection.
LEMMA ConnectionsTaken ==
  ASSUME LoopTypes, [LoopNext]_loopVars
  PROVE  \/ Connected' \subseteq Connected
         \/ \E j \in Jobs : PoolHasOne /\ Connected' = Connected \cup {j}
<1>1. ASSUME NEW p \in Patches, LoadAccount(p)
      PROVE  PoolHasOne /\ Connected' = Connected \cup {p}
  BY <1>1, GotoOne DEF LoadAccount, Stage, Jobs
<1>2. ASSUME NEW h \in Webhooks, ReadPayment(h)
      PROVE  PoolHasOne /\ Connected' = Connected \cup {h}
  BY <1>2, GotoOne DEF ReadPayment, Stage, Jobs
<1>3. ASSUME NEW j \in Jobs, NEW label \in Stage, Goto(j, label),
             label \in {"idle", "started"} \/ stage[j] \notin {"idle", "started"}
      PROVE  Connected' \subseteq Connected
  BY <1>3, GotoOne DEF Connected
<1>4. ASSUME NEW p \in Patches,
             StartPatch(p) \/ MergeToggle(p) \/ FlushAccount(p) \/ CommitAccount(p)
      PROVE  Connected' \subseteq Connected
  BY <1>3, <1>4 DEF StartPatch, MergeToggle, FlushAccount, CommitAccount, Stage, Jobs
<1>5. ASSUME NEW h \in Webhooks, StartWebhook(h) \/ SettleOnLoop(h) \/ CloseWebhook(h)
      PROVE  Connected' \subseteq Connected
  BY <1>3, <1>5 DEF StartWebhook, SettleOnLoop, CloseWebhook, Stage, Jobs
<1>6. ASSUME NEW j \in Jobs, ScheduleEnd(j) \/ TimeOut(j)
      PROVE  Connected' \subseteq Connected
  BY <1>3, <1>6 DEF ScheduleEnd, TimeOut, Stage
<1>7. CASE UNCHANGED loopVars
  BY <1>7 DEF loopVars, Connected
<1>8. QED
  BY <1>1, <1>2, <1>4, <1>5, <1>6, <1>7 DEF LoopNext, Jobs

LEMMA NextPoolInv ==
  ASSUME LoopAssumption, LoopTypes, PoolInv, [LoopNext]_loopVars
  PROVE  PoolInv'
<1>1. CASE Connected' \subseteq Connected
  <2>1. IsFiniteSet(Connected') /\ Cardinality(Connected') <= Cardinality(Connected)
    BY <1>1, FS_Subset DEF PoolInv
  <2>2. Cardinality(Connected') \in Nat /\ Cardinality(Connected) \in Nat
    BY <2>1, FS_CardinalityType DEF PoolInv
  <2>3. QED
    BY <2>1, <2>2 DEF PoolInv, LoopAssumption
<1>2. ASSUME NEW j \in Jobs, PoolHasOne, Connected' = Connected \cup {j}
      PROVE  PoolInv'
  <2>1. /\ IsFiniteSet(Connected')
        /\ Cardinality(Connected') <= Cardinality(Connected) + 1
    <3>1. /\ IsFiniteSet(Connected \cup {j})
          /\ \/ Cardinality(Connected \cup {j}) = Cardinality(Connected)
             \/ Cardinality(Connected \cup {j}) = Cardinality(Connected) + 1
      BY FS_AddElement DEF PoolInv
    <3>2. Cardinality(Connected) \in Nat
      BY FS_CardinalityType DEF PoolInv
    <3>3. QED
      BY <1>2, <3>1, <3>2
  <2>2. Cardinality(Connected') \in Nat /\ Cardinality(Connected) \in Nat
    BY <2>1, FS_CardinalityType DEF PoolInv
  <2>3. QED
    BY <1>2, <2>1, <2>2 DEF PoolInv, PoolHasOne, LoopAssumption
<1>3. QED
  BY <1>1, <1>2, ConnectionsTaken

LEMMA NextToggleInv ==
  ASSUME LoopAssumption, LoopTypes, ToggleInv, [LoopNext]_loopVars
  PROVE  ToggleInv'
<1>1. Free \notin Prefs
  BY DEF LoopAssumption, Prefs
\* A step of request j that leaves what sessions hold.
<1>2. ASSUME NEW j \in Jobs, NEW label \in Stage, Goto(j, label),
             label \in {"idle", "started"} <=> stage[j] \in {"idle", "started"},
             UNCHANGED <<prefs, mine, latest, sideBySide>>
      PROVE  ToggleInv'
  <2>1. Connected' = Connected
    BY <1>2, GotoOne DEF Connected
  <2>2. QED
    BY <1>2, <2>1 DEF ToggleInv
<1>3. ASSUME NEW h \in Webhooks, NEW label \in Stage, Goto(h, label),
             UNCHANGED <<prefs, mine, latest, sideBySide>>
      PROVE  ToggleInv'
  <2>1. \A p \in Patches : p \in Connected' <=> p \in Connected
    BY <1>3, GotoOne DEF LoopAssumption, Jobs
  <2>2. QED
    BY <1>3, <2>1 DEF ToggleInv
<1>4. ASSUME NEW p \in Patches, StartPatch(p) \/ MergeToggle(p) \/ FlushAccount(p)
      PROVE  ToggleInv'
  BY <1>2, <1>4 DEF StartPatch, MergeToggle, FlushAccount, Stage, Jobs
<1>5. ASSUME NEW p \in Patches, LoadAccount(p) PROVE ToggleInv'
  <2>1. Connected' = Connected \cup {p} /\ p \notin Connected
    BY <1>5, GotoOne DEF LoadAccount, Stage, Jobs, Connected
  <2>2. \A q \in Patches : mine'[q] = IF q = p THEN prefs ELSE mine[q]
    BY <1>5 DEF LoadAccount, LoopTypes
  <2>3. prefs # Free /\ UNCHANGED <<prefs, latest, sideBySide>>
    BY <1>1, <1>5 DEF LoadAccount, LoopTypes
  <2>4. QED
    BY <2>1, <2>2, <2>3 DEF ToggleInv
<1>6. ASSUME NEW p \in Patches, CommitAccount(p) PROVE ToggleInv'
  <2>1. PICK k \in PrefKeys, value \in BOOLEAN :
          /\ prefs' = [mine[p] EXCEPT ![k] = value]
          /\ latest' = [latest EXCEPT ![k] = value]
    BY <1>6 DEF CommitAccount
  <2>2. Connected' = Connected \ {p} /\ p \in Connected
    BY <1>6, GotoOne DEF CommitAccount, Stage, Jobs, Connected
  <2>3. \A q \in Patches : mine'[q] = IF q = p THEN Free ELSE mine[q]
    BY <1>6 DEF CommitAccount, LoopTypes
  <2>4. ~sideBySide' => ~sideBySide /\ \A q \in Patches \ {p} : mine[q] = Free
    BY <1>6 DEF CommitAccount
  <2>5. ~sideBySide' => prefs' = latest' /\ \A q \in Patches : mine'[q] = Free
    BY <2>1, <2>2, <2>3, <2>4 DEF ToggleInv
  <2>6. QED
    BY <2>2, <2>3, <2>5 DEF ToggleInv
<1>7. ASSUME NEW h \in Webhooks,
             StartWebhook(h) \/ ReadPayment(h) \/ SettleOnLoop(h) \/ CloseWebhook(h)
      PROVE  ToggleInv'
  BY <1>3, <1>7 DEF StartWebhook, ReadPayment, SettleOnLoop, CloseWebhook, Stage
<1>8. ASSUME NEW j \in Jobs, ScheduleEnd(j) \/ TimeOut(j) PROVE ToggleInv'
  BY <1>2, <1>8 DEF ScheduleEnd, TimeOut, Stage
<1>9. CASE UNCHANGED loopVars
  BY <1>9 DEF loopVars, ToggleInv, Connected
<1>10. QED
  BY <1>4, <1>5, <1>6, <1>7, <1>8, <1>9 DEF LoopNext

LEMMA LoopInvariance == LoopInit /\ [][LoopNext]_loopVars => []LoopInv
<1>1. LoopInit => LoopInv
  BY InitLoopInv, LoopAssumption
<1>2. LoopInv /\ [LoopNext]_loopVars => LoopInv'
  BY NextLoopTypes, NextPoolInv, NextToggleInv, LoopAssumption DEF LoopInv
<1>3. QED
  BY <1>1, <1>2, PTL

\* The variables of EventLoop keep their types; there are never more
\* connections in use than the pool has.
THEOREM LoopTypeCorrect == LoopSpec => []LoopTypeOK
<1>1. LoopInv => LoopTypeOK
  BY DEF LoopInv, LoopTypes, PoolInv, LoopTypeOK
<1>2. QED
  BY <1>1, LoopInvariance, PTL DEF LoopSpec

\* Unless profile updates overlap, every toggle is kept, for any number of
\* requests, connections and preferences.
THEOREM TogglesAreKept == LoopSpec => []TogglesKept
<1>1. LoopInv => TogglesKept
  BY DEF LoopInv, ToggleInv, TogglesKept
<1>2. QED
  BY <1>1, LoopInvariance, PTL DEF LoopSpec

-----------------------------------------------------------------------------
(* Mails to many.                                                          *)

\* Of those who were to get the mail all the while, the ones not yet reached
\* are still to do; the mails sent are the ones received, but for failures.
MailInv ==
  /\ loopState = "new" => todo = {} /\ received = {} /\ steady = {}
  /\ loopState \in {"finished", "died"} => todo = {}
  /\ loopState # "finished" => audited = {}
  /\ steady \subseteq {m \in ToGetIt : Wanted(read[m])}
  /\ loopState \in {"sending", "finished"} => steady \subseteq todo \cup received \cup failed
  /\ todo \subseteq {m \in Recipients : read[m].status = "ACTIVE"}
  /\ \A m \in received : Wanted(read[m])
  /\ sent \subseteq received /\ received \subseteq sent \cup failed
  /\ audited \subseteq sent
  /\ loopState = "finished" /\ kind = "maintenance" => audited = sent

LEMMA InitMailing == MailingInit => MailingTypeOK /\ MailInv
BY DEF MailingInit, MailingTypeOK, MailInv, RecipientRow, NotifDefault

LEMMA NextMailTypes ==
  ASSUME MailingTypeOK, [MailingNext]_mailVars
  PROVE  MailingTypeOK'
<1> USE DEF MailingTypeOK
<1>1. ASSUME ChangeRecipient PROVE MailingTypeOK'
  BY <1>1 DEF ChangeRecipient, StillSteady
<1>2. ASSUME ChangeActivity PROVE MailingTypeOK'
  BY <1>2 DEF ChangeActivity, StillSteady
<1>3. ASSUME ReadAccounts PROVE MailingTypeOK'
  BY <1>3 DEF ReadAccounts, ToGetIt
<1>4. ASSUME NEW m \in Recipients, PassOver(m) \/ SendMail(m) PROVE MailingTypeOK'
  BY <1>4 DEF PassOver, SendMail
<1>5. ASSUME NEW m \in Recipients, MailFails(m) PROVE MailingTypeOK'
  BY <1>5 DEF MailFails
<1>6. ASSUME FinishMailing \/ MailingDies PROVE MailingTypeOK'
  BY <1>6 DEF FinishMailing, MailingDies
<1>7. CASE UNCHANGED mailVars
  BY <1>7 DEF mailVars
<1>8. QED
  BY <1>1, <1>2, <1>3, <1>4, <1>5, <1>6, <1>7 DEF MailingNext

LEMMA NextMailInv ==
  ASSUME MailingTypeOK, MailInv, [MailingNext]_mailVars
  PROVE  MailInv'
<1>1. ASSUME ChangeRecipient \/ ChangeActivity PROVE MailInv'
  <2>1. /\ UNCHANGED <<kind, loopState, read, todo, sent, failed, received, audited>>
        /\ steady' = steady \cap ToGetIt'
    BY <1>1 DEF ChangeRecipient, ChangeActivity, StillSteady
  <2>2. steady' \subseteq {m \in ToGetIt' : Wanted(read'[m])} /\ steady' \subseteq steady
    BY <2>1 DEF MailInv, Wanted
  <2>3. \A m \in received' : Wanted(read'[m])
    BY <2>1 DEF MailInv, Wanted
  <2>4. QED
    BY <2>1, <2>2, <2>3 DEF MailInv
<1>2. ASSUME ReadAccounts PROVE MailInv'
  <2>1. /\ loopState = "new" /\ loopState' = "sending" /\ received' = {}
        /\ read' = recipient /\ recipient' = recipient
        /\ todo' = {m \in Recipients : recipient[m].status = "ACTIVE"}
        /\ steady' = ToGetIt /\ ToGetIt' = ToGetIt
        /\ UNCHANGED <<kind, sent, failed, received, audited>>
    BY <1>2 DEF ReadAccounts, MailInv, ToGetIt, Wanted, WorthAMail
  <2>2. steady' \subseteq {m \in ToGetIt' : Wanted(read'[m])} /\ steady' \subseteq todo'
    BY <2>1 DEF ToGetIt, Wanted
  <2>3. QED
    BY <2>1, <2>2 DEF MailInv
<1>3. ASSUME NEW m \in Recipients, PassOver(m) PROVE MailInv'
  <2>1. /\ m \in todo /\ todo' = todo \ {m} /\ ToGetIt' = ToGetIt
        /\ UNCHANGED <<kind, loopState, read, sent, failed, received, audited, steady>>
    BY <1>3 DEF PassOver, ToGetIt, Wanted, WorthAMail
  <2>2. m \notin steady
    BY <1>3 DEF PassOver, Skipped, MailInv, Wanted, ToGetIt
  <2>3. QED
    BY <2>1, <2>2 DEF MailInv, Wanted
<1>4. ASSUME NEW m \in Recipients, SendMail(m) \/ MailFails(m) PROVE MailInv'
  <2>1. /\ m \in todo /\ todo' = todo \ {m} /\ ToGetIt' = ToGetIt /\ ~Skipped(m)
        /\ UNCHANGED <<kind, loopState, read, audited, steady>>
    BY <1>4 DEF SendMail, MailFails, ToGetIt, Wanted, WorthAMail
  <2>2. \/ sent' = sent \cup {m} /\ received' = received \cup {m} /\ failed' = failed
        \/ /\ sent' = sent /\ failed' = failed \cup {m}
           /\ received' = received \/ received' = received \cup {m}
    BY <1>4 DEF SendMail, MailFails
  <2>3. Wanted(read[m]) /\ loopState \notin {"new", "finished", "died"}
    BY <2>1 DEF MailInv, Skipped, Wanted
  <2>4. QED
    BY <2>1, <2>2, <2>3 DEF MailInv, Wanted
<1>5. ASSUME FinishMailing \/ MailingDies PROVE MailInv'
  <2>1. /\ ToGetIt' = ToGetIt /\ loopState = "sending"
        /\ UNCHANGED <<kind, read, sent, failed, received, steady>>
    BY <1>5 DEF FinishMailing, MailingDies, ToGetIt, Wanted, WorthAMail
  <2>2. \/ /\ loopState' = "finished" /\ todo = {} /\ todo' = todo
           /\ audited' = IF kind = "maintenance" THEN sent ELSE {}
        \/ loopState' = "died" /\ todo' = {} /\ audited' = audited
    BY <1>5 DEF FinishMailing, MailingDies
  <2>3. QED
    BY <2>1, <2>2 DEF MailInv, Wanted
<1>6. CASE UNCHANGED mailVars
  BY <1>6 DEF mailVars, MailInv, ToGetIt, Wanted, WorthAMail
<1>7. QED
  BY <1>1, <1>2, <1>3, <1>4, <1>5, <1>6 DEF MailingNext

LEMMA MailingInvariance == MailingSpec => [](MailingTypeOK /\ MailInv)
<1>1. MailingInit => MailingTypeOK /\ MailInv
  BY InitMailing
<1>2. MailingTypeOK /\ MailInv /\ [MailingNext]_mailVars => MailingTypeOK' /\ MailInv'
  BY NextMailTypes, NextMailInv
<1>3. QED
  BY <1>1, <1>2, PTL DEF MailingSpec

\* The variables of Mailing keep their types.
THEOREM MailingTypeCorrect == MailingSpec => []MailingTypeOK
BY MailingInvariance, PTL

\* A loop that finished has reached everybody who was to get its mail all the
\* while, but for failed sends, and nobody else; its audit entries are of
\* mails sent, for any number of recipients.
THEOREM MailsAreAccountedFor == MailingSpec => []MailsAccountedFor
<1>1. MailInv => MailsAccountedFor
  BY DEF MailInv, MailsAccountedFor
<1>2. QED
  BY <1>1, MailingInvariance, PTL

-----------------------------------------------------------------------------
(* The audit log.                                                          *)

Shares(e) == Cardinality(EntriesAt(stampOf[e])) > 1

\* What comes before e however equal stamps are ordered.
Above(e) == {f \in logged : stampOf[f] > stampOf[e]}

\* A transaction's entries are committed together and later ones are stamped
\* later.  An entry not yet seen that shares its stamp with no other is still
\* below the pages read.
TrailInv ==
  /\ \A e \in Entries : stampOf[e] # Unwritten => stampOf[e] <= lastStamp
  /\ \A e \in logged, f \in Entries : stampOf[f] = stampOf[e] => f \in logged
  /\ \A b \in Browsers :
       /\ browser[b].had \subseteq logged
       /\ browser[b].state = "new" => browser[b].offset = 0 /\ browser[b].had = {}
       /\ browser[b].state = "paging" => \A e \in browser[b].had \ browser[b].seen :
            Shares(e) \/ Cardinality(Above(e)) >= browser[b].offset
       /\ browser[b].state = "done" => \A e \in browser[b].had \ browser[b].seen : Shares(e)

LEMMA InitTrail == TrailInit => TrailTypeOK /\ TrailInv
BY DEF TrailInit, TrailTypeOK, TrailInv, Browsing

LEMMA LoggedStamps ==
  ASSUME TrailTypeOK, TrailInv, NEW e \in logged
  PROVE  e \in Entries /\ stampOf[e] \in Nat /\ stampOf[e] <= lastStamp
BY DEF TrailTypeOK, TrailInv

LEMMA NextTrailTypes ==
  ASSUME TrailAssumption, TrailTypeOK, TrailInv, [TrailNext]_trailVars
  PROVE  TrailTypeOK'
<1>1. ASSUME RecordEntries PROVE TrailTypeOK'
  <2>1. PICK added \in SUBSET {e \in Entries : stampOf[e] = Unwritten} :
          stampOf' = [e \in Entries |-> IF e \in added THEN lastStamp + 1 ELSE stampOf[e]]
    BY <1>1 DEF RecordEntries
  <2>2. QED
    BY <1>1, <2>1 DEF RecordEntries, TrailTypeOK, TrailAssumption
<1>2. ASSUME CommitEntries PROVE TrailTypeOK'
  BY <1>2 DEF CommitEntries, TrailTypeOK, EntriesAt, Uncommitted
<1>3. ASSUME RollBackEntries PROVE TrailTypeOK'
  <2>1. PICK f \in Entries \ logged :
          /\ stampOf[f] # Unwritten
          /\ stampOf' = [e \in Entries |->
               IF stampOf[e] = stampOf[f] THEN Unwritten ELSE stampOf[e]]
    BY <1>3 DEF RollBackEntries, Uncommitted
  <2>2. \A e \in logged : stampOf[e] # stampOf[f]
    BY <2>1 DEF TrailInv
  <2>3. QED
    BY <1>3, <2>1, <2>2 DEF RollBackEntries, TrailTypeOK
<1>4. ASSUME NEW b \in Browsers, ReadPage(b) PROVE TrailTypeOK'
  <2>1. PICK page \in SUBSET logged :
          browser' = [browser EXCEPT ![b] =
            [offset |-> @.offset + PageSize,
             seen   |-> @.seen \cup page,
             had    |-> IF @.state = "new" THEN logged ELSE @.had,
             state  |-> IF Cardinality(page) < PageSize THEN "done" ELSE "paging"]]
    BY <1>4 DEF ReadPage
  <2>2. browser[b] \in Browsing /\ logged \subseteq Entries /\ PageSize \in Nat
    BY DEF TrailTypeOK, TrailAssumption
  <2>3. browser'[b] \in Browsing
    BY <2>1, <2>2 DEF Browsing, TrailTypeOK
  <2>4. QED
    BY <1>4, <2>1, <2>3 DEF ReadPage, TrailTypeOK
<1>5. CASE UNCHANGED trailVars
  BY <1>5 DEF trailVars, TrailTypeOK
<1>6. QED
  BY <1>1, <1>2, <1>3, <1>4, <1>5 DEF TrailNext

\* What is committed keeps its stamp and shares it with the same entries.
LEMMA StampsStay ==
  ASSUME TrailAssumption, TrailTypeOK, TrailInv, [TrailNext]_trailVars, NEW e \in logged
  PROVE  /\ e \in logged' /\ stampOf'[e] = stampOf[e]
         /\ {f \in Entries : stampOf'[f] = stampOf'[e]} = EntriesAt(stampOf[e])
<1>1. e \in Entries /\ stampOf[e] \in Nat /\ stampOf[e] <= lastStamp /\ lastStamp \in Nat
  BY LoggedStamps DEF TrailTypeOK
<1>2. CASE RecordEntries
  <2>1. PICK added \in SUBSET {f \in Entries : stampOf[f] = Unwritten} :
          stampOf' = [f \in Entries |-> IF f \in added THEN lastStamp + 1 ELSE stampOf[f]]
    BY <1>2 DEF RecordEntries
  <2>2. /\ stampOf[e] # Unwritten /\ stampOf[e] # lastStamp + 1
        /\ \A f \in added : stampOf'[f] = lastStamp + 1 /\ stampOf[f] = Unwritten
        /\ \A f \in Entries \ added : stampOf'[f] = stampOf[f]
    BY <1>1, <2>1 DEF TrailAssumption
  <2>3. QED
    BY <1>1, <1>2, <2>2 DEF RecordEntries, EntriesAt
<1>3. CASE RollBackEntries
  <2>1. PICK g \in Entries \ logged :
          /\ stampOf[g] # Unwritten
          /\ stampOf' = [f \in Entries |->
               IF stampOf[f] = stampOf[g] THEN Unwritten ELSE stampOf[f]]
    BY <1>3 DEF RollBackEntries, Uncommitted
  <2>2. stampOf[e] # stampOf[g] /\ stampOf[e] # Unwritten
    BY <1>1, <2>1 DEF TrailInv, TrailAssumption
  <2>3. QED
    BY <1>1, <1>3, <2>1, <2>2 DEF RollBackEntries, EntriesAt
<1>4. CASE CommitEntries
  BY <1>1, <1>4 DEF CommitEntries, EntriesAt
<1>5. CASE UNCHANGED <<lastStamp, stampOf, logged>>
  BY <1>1, <1>5 DEF EntriesAt
<1>6. QED
  BY <1>2, <1>3, <1>4, <1>5 DEF TrailNext, ReadPage, trailVars

\* A page misses an entry that shares its stamp with no other only if that is
\* below all of it.
LEMMA PageIsAbove ==
  ASSUME TrailAssumption, TrailTypeOK, TrailInv, NEW offset \in Nat,
         NEW page \in SUBSET logged, IsPage(page, offset),
         NEW e \in logged \ page, ~Shares(e), Cardinality(Above(e)) >= offset
  PROVE  Cardinality(page) = PageSize /\ Cardinality(Above(e)) >= offset + PageSize
<1>1. IsFiniteSet(logged) /\ e \in Entries /\ e \in EntriesAt(stampOf[e])
  BY FS_Subset DEF TrailTypeOK, TrailAssumption, EntriesAt
<1>2. \A f \in logged : f # e => stampOf[f] # stampOf[e]
  <2> SUFFICES ASSUME NEW f \in logged, f # e, stampOf[f] = stampOf[e] PROVE FALSE
    OBVIOUS
  <2>1. f \in EntriesAt(stampOf[e])
    BY DEF EntriesAt, TrailTypeOK
  <2>2. IsFiniteSet(EntriesAt(stampOf[e]))
    BY FS_Subset DEF EntriesAt, TrailAssumption
  <2>3. Cardinality({e, f}) = 2
    <3>1. IsFiniteSet({e}) /\ Cardinality({e}) = 1
      BY FS_Singleton
    <3>2. Cardinality({e} \cup {f}) = Cardinality({e}) + 1
      BY <3>1, FS_AddElement
    <3>3. {e} \cup {f} = {e, f}
      OBVIOUS
    <3>4. QED
      BY <3>1, <3>2, <3>3
  <2>4. Cardinality({e, f}) <= Cardinality(EntriesAt(stampOf[e]))
    BY <1>1, <2>1, <2>2, FS_Subset
  <2>5. Cardinality(EntriesAt(stampOf[e])) \in Nat
    BY <2>2, FS_CardinalityType
  <2>6. QED
    BY <2>3, <2>4, <2>5 DEF Shares
\* A top without e is above it; a top with e holds all that is above it.
<1>3. ASSUME NEW top, IsTop(top), e \notin top PROVE top \subseteq Above(e)
  <2> SUFFICES ASSUME NEW f \in top PROVE f \in Above(e)
    OBVIOUS
  <2>1. f \in logged /\ f # e /\ stampOf[e] <= stampOf[f]
    BY <1>3 DEF IsTop
  <2>2. stampOf[e] \in Nat /\ stampOf[f] \in Nat
    BY <2>1, LoggedStamps
  <2>3. QED
    BY <1>2, <2>1, <2>2 DEF Above
<1>4. ASSUME NEW top, IsTop(top), e \in top PROVE Above(e) \cup {e} \subseteq top
  <2> SUFFICES ASSUME NEW f \in Above(e), f \notin top PROVE FALSE
    BY <1>4
  <2>1. f \in logged /\ stampOf[f] > stampOf[e] /\ stampOf[f] <= stampOf[e]
    BY <1>4 DEF IsTop, Above
  <2>2. QED
    BY <2>1, LoggedStamps
<1>5. IsFiniteSet(Above(e)) /\ Cardinality(Above(e)) \in Nat
  BY <1>1, FS_Subset, FS_CardinalityType DEF Above
<1>6. /\ IsFiniteSet(Above(e) \cup {e})
      /\ Cardinality(Above(e) \cup {e}) = Cardinality(Above(e)) + 1
  <2>1. e \notin Above(e)
    BY LoggedStamps DEF Above
  <2>2. QED
    BY <1>5, <2>1, FS_AddElement
<1>7. Cardinality(logged) > offset
  <2>1. Cardinality(Above(e) \cup {e}) <= Cardinality(logged)
    BY <1>1, FS_Subset DEF Above
  <2>2. Cardinality(logged) \in Nat
    BY <1>1, FS_CardinalityType
  <2>3. QED
    BY <1>5, <1>6, <2>1, <2>2
<1>8. PICK skipped \in SUBSET logged :
        /\ IsTop(skipped) /\ IsTop(skipped \cup page) /\ page \cap skipped = {}
        /\ Cardinality(skipped) = offset
        /\ \/ Cardinality(page) = PageSize
           \/ Cardinality(page) < PageSize /\ skipped \cup page = logged
  <2>1. ~(Cardinality(logged) <= offset)
    BY <1>1, <1>7, FS_CardinalityType
  <2>2. QED
    BY <2>1 DEF IsPage
<1>9. IsFiniteSet(skipped) /\ IsFiniteSet(page)
  BY <1>1, FS_Subset
<1>10. e \notin skipped
  <2>1. SUFFICES ASSUME e \in skipped PROVE FALSE
    OBVIOUS
  <2>2. Cardinality(Above(e) \cup {e}) <= Cardinality(skipped)
    BY <1>4, <1>8, <1>9, <2>1, FS_Subset
  <2>3. QED
    BY <1>5, <1>6, <1>8, <2>2
<1>11. e \notin skipped \cup page
  BY <1>10
<1>12. Cardinality(page) = PageSize
  BY <1>8, <1>11
<1>13. Cardinality(skipped \cup page) = offset + PageSize
  <2>1. Cardinality(skipped \cup page) =
          Cardinality(skipped) + Cardinality(page) - Cardinality(skipped \cap page)
    BY <1>9, FS_Union
  <2>2. Cardinality(skipped \cap page) = 0
    <3>1. skipped \cap page = {}
      BY <1>8
    <3>2. QED
      BY <3>1, FS_EmptySet
  <2>3. QED
    BY <1>8, <1>12, <2>1, <2>2 DEF TrailAssumption
<1>14. Cardinality(skipped \cup page) <= Cardinality(Above(e))
  BY <1>3, <1>5, <1>8, <1>11, FS_Subset
<1>15. QED
  BY <1>12, <1>13, <1>14

\* Nothing that was above e goes, and it shares its stamp as before.
LEMMA AboveGrows ==
  ASSUME TrailAssumption, TrailTypeOK, TrailInv, TrailTypeOK', [TrailNext]_trailVars,
         NEW e \in logged
  PROVE  /\ Shares(e)' <=> Shares(e)
         /\ Cardinality(Above(e))' >= Cardinality(Above(e))
<1>1. Shares(e)' <=> Shares(e)
  <2>1. EntriesAt(stampOf[e])' = EntriesAt(stampOf[e])
    BY StampsStay DEF EntriesAt
  <2>2. QED
    BY <2>1 DEF Shares
<1>2. Above(e) \subseteq Above(e)'
  BY StampsStay DEF Above
<1>3. IsFiniteSet(Above(e)') /\ IsFiniteSet(Above(e))
  BY FS_Subset DEF Above, TrailTypeOK, TrailAssumption
<1>4. Cardinality(Above(e)) <= Cardinality(Above(e)')
  BY <1>2, <1>3, FS_Subset
<1>5. Cardinality(Above(e)) \in Nat /\ Cardinality(Above(e)') \in Nat
  BY <1>3, FS_CardinalityType
<1>6. QED
  BY <1>1, <1>4, <1>5

LEMMA NextTrailInv ==
  ASSUME TrailAssumption, TrailTypeOK, TrailInv, TrailTypeOK', [TrailNext]_trailVars
  PROVE  TrailInv'
<1>1. /\ \A e \in Entries : stampOf'[e] # Unwritten => stampOf'[e] <= lastStamp'
      /\ \A e \in logged', f \in Entries : stampOf'[f] = stampOf'[e] => f \in logged'
  <2>1. CASE RecordEntries
    <3>1. PICK added \in SUBSET {f \in Entries : stampOf[f] = Unwritten} :
            stampOf' = [f \in Entries |-> IF f \in added THEN lastStamp + 1 ELSE stampOf[f]]
      BY <2>1 DEF RecordEntries
    <3>2. lastStamp' = lastStamp + 1 /\ logged' = logged /\ lastStamp \in Nat
      BY <2>1 DEF RecordEntries, TrailTypeOK
    <3>3. \A e \in Entries : stampOf[e] # Unwritten => stampOf[e] \in Nat
      BY DEF TrailTypeOK
    <3>4. \A e \in Entries : stampOf'[e] # Unwritten => stampOf'[e] <= lastStamp'
      BY <3>1, <3>2, <3>3 DEF TrailInv
    <3>5. \A e \in logged : e \notin added /\ stampOf[e] # lastStamp + 1
      BY <3>1, <3>2, LoggedStamps DEF TrailAssumption
    <3>6. QED
      BY <3>1, <3>2, <3>4, <3>5 DEF TrailInv, TrailTypeOK
  <2>2. CASE RollBackEntries
    <3>1. PICK g \in Entries \ logged :
            /\ stampOf[g] # Unwritten
            /\ stampOf' = [f \in Entries |->
                 IF stampOf[f] = stampOf[g] THEN Unwritten ELSE stampOf[f]]
      BY <2>2 DEF RollBackEntries, Uncommitted
    <3>2. logged' = logged /\ lastStamp' = lastStamp
      BY <2>2 DEF RollBackEntries
    <3>3. \A e \in logged : e \in Entries /\ stampOf[e] # stampOf[g] /\ stampOf[e] # Unwritten
      BY <3>1, LoggedStamps DEF TrailInv, TrailAssumption
    <3>4. QED
      BY <3>1, <3>2, <3>3 DEF TrailInv
  <2>3. CASE CommitEntries
    BY <2>3 DEF CommitEntries, EntriesAt, TrailInv
  <2>4. CASE UNCHANGED <<lastStamp, stampOf, logged>>
    BY <2>4 DEF TrailInv
  <2>5. QED
    BY <2>1, <2>2, <2>3, <2>4 DEF TrailNext, ReadPage, trailVars
<1>2. logged \subseteq logged'
  BY StampsStay
<1>3. ASSUME NEW b \in Browsers, browser'[b] = browser[b]
      PROVE  /\ browser'[b].had \subseteq logged'
             /\ browser'[b].state = "new" => browser'[b].offset = 0 /\ browser'[b].had = {}
             /\ browser'[b].state = "paging" => \A e \in browser'[b].had \ browser'[b].seen :
                  Shares(e)' \/ Cardinality(Above(e))' >= browser'[b].offset
             /\ browser'[b].state = "done" =>
                  \A e \in browser'[b].had \ browser'[b].seen : Shares(e)'
  <2>1. \A e \in browser[b].had : e \in logged
    BY DEF TrailInv
  <2>2. \A e \in browser[b].had : /\ Shares(e)' <=> Shares(e)
                                  /\ Cardinality(Above(e))' >= Cardinality(Above(e))
    BY <2>1, AboveGrows
  <2>3. \A e \in logged : Cardinality(Above(e)) \in Nat /\ Cardinality(Above(e))' \in Nat
    <3>1. ASSUME NEW e \in logged PROVE IsFiniteSet(Above(e)') /\ IsFiniteSet(Above(e))
      BY FS_Subset DEF Above, TrailTypeOK, TrailAssumption
    <3>2. QED
      BY <3>1, FS_CardinalityType
  <2>4. browser[b].offset \in Nat
    BY DEF TrailTypeOK, Browsing
  <2>5. browser[b].state = "paging" => \A e \in browser[b].had \ browser[b].seen :
          Shares(e)' \/ Cardinality(Above(e))' >= browser[b].offset
    BY <2>1, <2>2, <2>3, <2>4 DEF TrailInv
  <2>6. browser[b].state = "done" => \A e \in browser[b].had \ browser[b].seen : Shares(e)'
    BY <2>2 DEF TrailInv
  <2>7. QED
    BY <1>2, <1>3, <2>5, <2>6 DEF TrailInv
<1>4. ASSUME NEW b \in Browsers, ReadPage(b) PROVE TrailInv'
  <2>1. PICK page \in SUBSET logged :
          /\ IsPage(page, browser[b].offset)
          /\ browser' = [browser EXCEPT ![b] =
               [offset |-> @.offset + PageSize,
                seen   |-> @.seen \cup page,
                had    |-> IF @.state = "new" THEN logged ELSE @.had,
                state  |-> IF Cardinality(page) < PageSize THEN "done" ELSE "paging"]]
    BY <1>4 DEF ReadPage
  <2>2. UNCHANGED <<lastStamp, stampOf, logged>> /\ browser[b].state # "done"
    BY <1>4 DEF ReadPage
  <2>3. /\ browser[b] \in Browsing
        /\ \A c \in Browsers : c # b => browser'[c] = browser[c]
        /\ browser'[b].offset = browser[b].offset + PageSize
        /\ browser'[b].seen = browser[b].seen \cup page
        /\ browser'[b].had = IF browser[b].state = "new" THEN logged ELSE browser[b].had
        /\ browser'[b].state = IF Cardinality(page) < PageSize THEN "done" ELSE "paging"
    BY <2>1 DEF TrailTypeOK
  <2>4. /\ browser'[b].had \subseteq logged /\ browser'[b].state # "new"
        /\ browser[b].offset \in Nat
    BY <2>3 DEF TrailInv, Browsing
  <2>5. ASSUME NEW e \in browser'[b].had \ browser'[b].seen, ~Shares(e)
        PROVE  /\ Cardinality(page) = PageSize
               /\ Cardinality(Above(e)) >= browser[b].offset + PageSize
    <3>1. e \in logged \ page
      BY <2>3, <2>4, <2>5
    <3>2. Cardinality(Above(e)) >= browser[b].offset
      <4>1. CASE browser[b].state = "new"
        <5>1. IsFiniteSet(Above(e))
          BY FS_Subset DEF Above, TrailTypeOK, TrailAssumption
        <5>2. Cardinality(Above(e)) \in Nat
          BY <5>1, FS_CardinalityType
        <5>3. QED
          BY <4>1, <5>2 DEF TrailInv
      <4>2. CASE browser[b].state = "paging"
        BY <2>3, <2>5, <4>2 DEF TrailInv
      <4>3. QED
        BY <2>2, <2>3, <4>1, <4>2 DEF Browsing
    <3>3. QED
      BY <2>1, <2>4, <2>5, <3>1, <3>2, PageIsAbove
  <2>6. \A e \in logged : /\ Shares(e)' <=> Shares(e)
                          /\ Cardinality(Above(e))' = Cardinality(Above(e))
    BY <2>2 DEF Shares, Above, EntriesAt
  <2>7. \A e \in browser'[b].had \ browser'[b].seen :
          Shares(e)' \/ Cardinality(Above(e))' >= browser'[b].offset
    BY <2>3, <2>4, <2>5, <2>6
  <2>8. browser'[b].state = "done" =>
          \A e \in browser'[b].had \ browser'[b].seen : Shares(e)'
    BY <2>3, <2>4, <2>5, <2>6 DEF TrailAssumption
  <2>9. \A c \in Browsers \ {b} :
             /\ browser'[c].had \subseteq logged'
             /\ browser'[c].state = "new" => browser'[c].offset = 0 /\ browser'[c].had = {}
             /\ browser'[c].state = "paging" => \A e \in browser'[c].had \ browser'[c].seen :
                  Shares(e)' \/ Cardinality(Above(e))' >= browser'[c].offset
             /\ browser'[c].state = "done" =>
                  \A e \in browser'[c].had \ browser'[c].seen : Shares(e)'
    BY <1>3, <2>3
  <2>10. QED
    BY <1>1, <2>2, <2>4, <2>7, <2>8, <2>9 DEF TrailInv
<1>5. ASSUME browser' = browser PROVE TrailInv'
  BY <1>1, <1>3, <1>5 DEF TrailInv
<1>6. QED
  BY <1>4, <1>5
     DEF TrailNext, RecordEntries, CommitEntries, RollBackEntries, trailVars

LEMMA TrailInvariance == TrailSpec => [](TrailTypeOK /\ TrailInv)
<1>1. TrailInit => TrailTypeOK /\ TrailInv
  BY InitTrail
<1>2. TrailTypeOK /\ TrailInv /\ [TrailNext]_trailVars => TrailTypeOK' /\ TrailInv'
  BY NextTrailTypes, NextTrailInv, TrailAssumption
<1>3. QED
  BY <1>1, <1>2, PTL DEF TrailSpec

\* The variables of AuditTrail keep their types.
THEOREM TrailTypeCorrect == TrailSpec => []TrailTypeOK
BY TrailInvariance, PTL

\* Paging to the end misses nothing that was there at the first page, unless
\* it shares its stamp, for any number of entries and readers and any page size.
THEOREM PagingSkipsNothing == TrailSpec => []NothingSkipped
<1>1. TrailInv => NothingSkipped
  BY DEF TrailInv, NothingSkipped, Shares
<1>2. QED
  BY <1>1, TrailInvariance, PTL

-----------------------------------------------------------------------------
(* Figures.                                                                *)

QueryName ==
  {"period", "current", "reference", "this week", "this week's flagged", "this month",
   "last month", "own", "own by agent", "own pending", "own flagged", "all", "recent", "read",
   "tried", "spoofed", "matched", "enrolled", "flagged", "owners", "institutions"}

LEMMA QueryNames ==
  ASSUME NEW view \in View
  PROVE  /\ DOMAIN Queries(view) = 1..Len(Queries(view)) /\ Len(Queries(view)) \in Nat
         /\ \A i \in DOMAIN Queries(view) : Queries(view)[i] \in QueryName
<1>1. CASE view = "stats"
  <2>1. Queries(view) = StatsQueries
    BY <1>1 DEF Queries
  <2>2. DOMAIN StatsQueries = 1..2 /\ Len(StatsQueries) = 2
    BY DEF StatsQueries
  <2>3. {StatsQueries[1], StatsQueries[2]} \subseteq QueryName
    BY DEF StatsQueries, QueryName
  <2>4. \A i \in 1..2 : i \in {1, 2}
    OBVIOUS
  <2>5. QED
    BY <2>1, <2>2, <2>3, <2>4
<1>2. CASE view = "report"
  <2>1. Queries(view) = ReportQueries
    BY <1>2 DEF Queries
  <2>2. DOMAIN ReportQueries = 1..2 /\ Len(ReportQueries) = 2
    BY DEF ReportQueries
  <2>3. {ReportQueries[1], ReportQueries[2]} \subseteq QueryName
    BY DEF ReportQueries, QueryName
  <2>4. \A i \in 1..2 : i \in {1, 2}
    OBVIOUS
  <2>5. QED
    BY <2>1, <2>2, <2>3, <2>4
<1>3. CASE view = "drift"
  <2>1. Queries(view) = DriftQueries
    BY <1>3 DEF Queries
  <2>2. DOMAIN DriftQueries = 1..2 /\ Len(DriftQueries) = 2
    BY DEF DriftQueries
  <2>3. {DriftQueries[1], DriftQueries[2]} \subseteq QueryName
    BY DEF DriftQueries, QueryName
  <2>4. \A i \in 1..2 : i \in {1, 2}
    OBVIOUS
  <2>5. QED
    BY <2>1, <2>2, <2>3, <2>4
<1>4. CASE view = "digest"
  <2>1. Queries(view) = DigestQueries
    BY <1>4 DEF Queries
  <2>2. DOMAIN DigestQueries = 1..3 /\ Len(DigestQueries) = 3
    BY DEF DigestQueries
  <2>3. {DigestQueries[1], DigestQueries[2], DigestQueries[3]} \subseteq QueryName
    BY DEF DigestQueries, QueryName
  <2>4. \A i \in 1..3 : i \in {1, 2, 3}
    OBVIOUS
  <2>5. QED
    BY <2>1, <2>2, <2>3, <2>4
<1>5. CASE view = "detail"
  <2>1. Queries(view) = DetailQueries
    BY <1>5 DEF Queries
  <2>2. DOMAIN DetailQueries = 1..5 /\ Len(DetailQueries) = 5
    BY DEF DetailQueries
  <2>3. {DetailQueries[1], DetailQueries[2], DetailQueries[3], DetailQueries[4],
         DetailQueries[5]}
        \subseteq QueryName
    BY DEF DetailQueries, QueryName
  <2>4. \A i \in 1..5 : i \in {1, 2, 3, 4, 5}
    OBVIOUS
  <2>5. QED
    BY <2>1, <2>2, <2>3, <2>4
<1>6. CASE view = "list"
  <2>1. Queries(view) = ListQueries
    BY <1>6 DEF Queries
  <2>2. DOMAIN ListQueries = 1..2 /\ Len(ListQueries) = 2
    BY DEF ListQueries
  <2>3. {ListQueries[1], ListQueries[2]} \subseteq QueryName
    BY DEF ListQueries, QueryName
  <2>4. \A i \in 1..2 : i \in {1, 2}
    OBVIOUS
  <2>5. QED
    BY <2>1, <2>2, <2>3, <2>4
<1>7. CASE view = "platform"
  <2>1. Queries(view) = PlatformQueries
    BY <1>7 DEF Queries
  <2>2. DOMAIN PlatformQueries = 1..5 /\ Len(PlatformQueries) = 5
    BY DEF PlatformQueries
  <2>3. {PlatformQueries[1], PlatformQueries[2], PlatformQueries[3], PlatformQueries[4],
         PlatformQueries[5]}
        \subseteq QueryName
    BY DEF PlatformQueries, QueryName
  <2>4. \A i \in 1..5 : i \in {1, 2, 3, 4, 5}
    OBVIOUS
  <2>5. QED
    BY <2>1, <2>2, <2>3, <2>4
<1>8. CASE view = "models"
  <2>1. Queries(view) = ModelQueries
    BY <1>8 DEF Queries
  <2>2. DOMAIN ModelQueries = 1..10 /\ Len(ModelQueries) = 10
    BY DEF ModelQueries
  <2>3. {ModelQueries[1], ModelQueries[2], ModelQueries[3], ModelQueries[4],
         ModelQueries[5], ModelQueries[6], ModelQueries[7], ModelQueries[8],
         ModelQueries[9], ModelQueries[10]}
        \subseteq QueryName
    BY DEF ModelQueries, QueryName
  <2>4. \A i \in 1..10 : i \in {1, 2, 3, 4, 5, 6, 7, 8, 9, 10}
    OBVIOUS
  <2>5. QED
    BY <2>1, <2>2, <2>3, <2>4
<1>9. CASE view = "operations"
  <2>1. Queries(view) = OperationsQueries
    BY <1>9 DEF Queries
  <2>2. DOMAIN OperationsQueries = 1..6 /\ Len(OperationsQueries) = 6
    BY DEF OperationsQueries
  <2>3. {OperationsQueries[1], OperationsQueries[2], OperationsQueries[3],
         OperationsQueries[4], OperationsQueries[5], OperationsQueries[6]}
        \subseteq QueryName
    BY DEF OperationsQueries, QueryName
  <2>4. \A i \in 1..6 : i \in {1, 2, 3, 4, 5, 6}
    OBVIOUS
  <2>5. QED
    BY <2>1, <2>2, <2>3, <2>4
<1>10. QED
  BY <1>1, <1>2, <1>3, <1>4, <1>5, <1>6, <1>7, <1>8, <1>9 DEF View

\* A report and its export are of the same period.
LEMMA ReportPeriods ==
  ASSUME NEW i \in DOMAIN Queries("report")
  PROVE  Queries("report")[i] = "period" /\ i \in {1, 2}
<1>1. Queries("report") = ReportQueries
  BY DEF Queries
<1>2. /\ DOMAIN ReportQueries = 1..2
      /\ ReportQueries[1] = "period" /\ ReportQueries[2] = "period"
  BY DEF ReportQueries
<1>3. i \in {1, 2}
  BY <1>1, <1>2
<1>4. QED
  BY <1>1, <1>2, <1>3

\* So are the windows of a drift test, the earlier first.
LEMMA DriftWindows ==
  ASSUME NEW i \in DOMAIN Queries("drift")
  PROVE  \/ i = 1 /\ Queries("drift")[i] = "reference"
         \/ i = 2 /\ Queries("drift")[i] = "current"
<1>1. Queries("drift") = DriftQueries
  BY DEF Queries
<1>2. /\ DOMAIN DriftQueries = 1..2
      /\ DriftQueries[1] = "reference" /\ DriftQueries[2] = "current"
  BY DEF DriftQueries
<1>3. i \in {1, 2}
  BY <1>1, <1>2
<1>4. QED
  BY <1>1, <1>2, <1>3

\* A part is counted before the total.
LEMMA PartsFirst ==
  ASSUME NEW view \in View, NEW i \in DOMAIN Queries(view), NEW j \in DOMAIN Queries(view),
         <<view, Queries(view)[i], Queries(view)[j]>> \in PartOfTotal
  PROVE  i < j
<1>1. CASE view = "detail"
  <2>1. Queries(view) = DetailQueries
    BY <1>1 DEF Queries
  <2>2. /\ DOMAIN DetailQueries = 1..5
        /\ DetailQueries[1] = "this month" /\ DetailQueries[2] = "last month"
        /\ DetailQueries[3] = "own" /\ DetailQueries[4] = "own flagged"
        /\ DetailQueries[5] = "own by agent"
    BY DEF DetailQueries
  <2>3. DetailQueries[i] \in {"this month", "last month"} /\ DetailQueries[j] = "own"
    BY <1>1, <2>1 DEF PartOfTotal
  <2>4. i \in {1, 2} /\ j = 3
    <3>1. \A k \in 1..5 : k \in {1, 2, 3, 4, 5}
      OBVIOUS
    <3>2. QED
      BY <2>1, <2>2, <2>3, <3>1
  <2>5. QED
    BY <2>4
<1>2. CASE view = "list"
  <2>1. Queries(view) = ListQueries
    BY <1>2 DEF Queries
  <2>2. /\ DOMAIN ListQueries = 1..2
        /\ ListQueries[1] = "owners" /\ ListQueries[2] = "institutions"
    BY DEF ListQueries
  <2>3. ListQueries[i] = "owners" /\ ListQueries[j] = "institutions"
    BY <1>2, <2>1 DEF PartOfTotal
  <2>4. i \in {1, 2} /\ j \in {1, 2}
    BY <2>1, <2>2
  <2>5. QED
    BY <2>2, <2>3, <2>4
<1>3. QED
  BY <1>1, <1>2 DEF PartOfTotal

LEMMA Selects ==
  ASSUME NEW q
  PROVE  /\ Selected("period", q) = {v \in Own(q) : InPeriod(v, q)}
         /\ Selected("current", q) =
              {v \in Own(q) : case[v].is.stages = 3 /\ InCurrent(v, q)}
         /\ Selected("reference", q) =
              {v \in Own(q) : case[v].is.stages = 3 /\ InReference(v, q)}
         /\ Selected("this week", q) = {v \in Own(q) : q.on < case[v].created + Lookback}
         /\ Selected("this week's flagged", q) =
              {v \in Own(q) : case[v].is.flagged /\ q.on < case[v].created + Lookback}
         /\ Selected("this month", q) = {v \in Own(q) : case[v].created >= q.on}
         /\ Selected("last month", q) = {v \in Own(q) : case[v].created + 1 = q.on}
         /\ Selected("own", q) = Own(q)
         /\ Selected("own by agent", q) = {v \in Own(q) : case[v].byAgent}
         /\ Selected("own pending", q) = {v \in Own(q) : case[v].status = "PENDING"}
         /\ Selected("own flagged", q) = {v \in Own(q) : case[v].is.flagged}
         /\ Selected("all", q) = Committed
         /\ Selected("recent", q) = {v \in Committed : date < case[v].created + Lookback}
         /\ Selected("spoofed", q) = {v \in Committed : case[v].is.stages = 2}
         /\ Selected("read", q) = {v \in Committed : case[v].is.stages >= 1}
         /\ Selected("tried", q) = {v \in Committed : case[v].is.stages >= 2}
         /\ Selected("matched", q) = {v \in Committed : case[v].is.stages = 3}
         /\ Selected("enrolled", q) = {v \in Committed : case[v].is.verdict = "VERIFIED"}
         /\ Selected("flagged", q) = {v \in Committed : case[v].is.flagged}
         /\ Selected("owners", q) = {case[v].of : v \in Committed}
         /\ Selected("institutions", q) = institution
BY DEF Selected

LEMMA SelectsRows ==
  ASSUME FiguresTypeOK, NEW q, NEW name \in QueryName
  PROVE  Selected(name, q) \subseteq Cases \cup Institutions
<1>1. Committed \subseteq Cases /\ Own(q) \subseteq Cases /\ institution \subseteq Institutions
  BY DEF Committed, Own, FiguresTypeOK
<1>2. {case[v].of : v \in Committed} \subseteq Institutions
  BY DEF Committed, FiguresTypeOK, CaseRow
<1>3. CASE name \in {"period", "current", "reference", "own", "own by agent", "own pending"}
  BY <1>1, <1>3 DEF Selected
<1>4. CASE name \in {"this week", "this week's flagged", "this month", "last month",
                    "own flagged"}
  BY <1>1, <1>4 DEF Selected
<1>5. CASE name \in {"all", "recent", "read", "tried", "spoofed", "matched"}
  BY <1>1, <1>5 DEF Selected
<1>6. CASE name \in {"enrolled", "flagged", "owners", "institutions"}
  BY <1>1, <1>2, <1>6 DEF Selected
<1>7. QED
  BY <1>3, <1>4, <1>5, <1>6 DEF QueryName

CaseInv ==
  \A v \in Cases : case[v] # Absent =>
    /\ case[v].created <= date
    /\ \/ case[v].status \in {"open", case[v].is.verdict}
       \/ case[v].is.verdict = "PENDING" /\ case[v].status \in {"APPROVED", "REJECTED"}

\* The requested period of a report is over.
Over(q) == q.view = "report" /\ q.last < q.on

\* A request runs its queries in order; if its period is over, what it does not
\* see when it begins is under way.
ReaderInv ==
  \A r \in Readers :
    /\ reader[r] = Absent => published[r] = <<>>
    /\ reader[r] # Absent =>
         /\ reader[r].on <= date
         /\ Len(published[r]) <= Len(Queries(reader[r].view))
         /\ Over(reader[r]) => \A v \in Open :
              case[v].of = reader[r].of /\ InPeriod(v, reader[r]) => v \in reader[r].late

\* What a query of request q has counted, against the rows as they are now.
Counted(name, rows, q) ==
  /\ name \in Grows => DOMAIN rows \subseteq Selected(name, q)
  /\ name \in {"this month", "last month"} => DOMAIN rows \subseteq Own(q)
  /\ name = "owners" => DOMAIN rows \subseteq institution
  /\ name = "reference" => \A v \in DOMAIN rows : v \in Committed /\ InReference(v, q)
  /\ q.view = "report" => \A v \in DOMAIN rows :
       /\ v \in Committed
       /\ rows[v] = "VERIFIED" <=> case[v].status = "VERIFIED"
       /\ case[v].status = "PENDING" => rows[v] = "PENDING"
  /\ Over(q) => Selected("period", q) \subseteq DOMAIN rows \cup q.late

CountedInv ==
  \A r \in Readers : \A i \in DOMAIN published[r] : \A name, rows, q :
    q = reader[r] /\ name = Queries(q.view)[i] /\ rows = published[r][i] =>
      Counted(name, rows, q)

FiguresInv == FiguresTypeOK /\ CaseInv /\ ReaderInv /\ CountedInv /\ FiguresAgree

LEMMA InitFigures == FiguresAssumption /\ FiguresInit => FiguresInv
<1> SUFFICES ASSUME FiguresAssumption, FiguresInit PROVE FiguresInv
  OBVIOUS
<1>1. \A r \in Readers : published[r] = <<>> /\ reader[r] = Absent
  BY DEF FiguresInit
<1>2. DOMAIN <<>> = {} /\ Len(<<>>) = 0
  OBVIOUS
<1>3. FiguresTypeOK
  BY DEF FiguresInit, FiguresTypeOK, FiguresAssumption
<1>4. CaseInv /\ ReaderInv /\ CountedInv
  BY <1>1, <1>2 DEF FiguresInit, CaseInv, ReaderInv, CountedInv
<1>5. FiguresAgree
  BY <1>1, <1>2 DEF FiguresAgree, FiguresInOrder, WindowsDisjoint, ReportStands
<1>6. QED
  BY <1>3, <1>4, <1>5 DEF FiguresInv

\* A case once submitted keeps what it is; committed, it is decided at most.
CasesGoOn ==
  /\ date <= date' /\ institution \subseteq institution'
  /\ \A v \in Cases : case[v] # Absent =>
       /\ case'[v] # Absent
       /\ case'[v].of = case[v].of /\ case'[v].created = case[v].created
       /\ case'[v].is = case[v].is
  /\ Committed' \subseteq Committed \cup Open
  /\ \A v \in Committed :
       /\ case'[v].status # "open"
       /\ case'[v].status = "VERIFIED" <=> case[v].status = "VERIFIED"
       /\ case'[v].status = "PENDING" => case[v].status = "PENDING"

LEMMA OneCase ==
  ASSUME FiguresTypeOK, NEW v \in Cases, NEW row, case' = [case EXCEPT ![v] = row],
         UNCHANGED <<date, institution>>,
         IF case[v] = Absent THEN row.status = "open" ELSE row # Absent,
         case[v] # Absent =>
           row.of = case[v].of /\ row.created = case[v].created /\ row.is = case[v].is,
         v \in Committed =>
           /\ row.status # "open"
           /\ row.status = "VERIFIED" <=> case[v].status = "VERIFIED"
           /\ row.status = "PENDING" => case[v].status = "PENDING"
  PROVE  CasesGoOn
<1>1. case'[v] = row /\ \A u \in Cases : u # v => case'[u] = case[u]
  BY DEF FiguresTypeOK
<1>2. date <= date' /\ institution \subseteq institution'
  BY DEF FiguresTypeOK
<1>3. ASSUME NEW u \in Cases, case[u] # Absent
      PROVE  /\ case'[u] # Absent
             /\ case'[u].of = case[u].of /\ case'[u].created = case[u].created
             /\ case'[u].is = case[u].is
  BY <1>1, <1>3
<1>4. ASSUME NEW u \in Committed
      PROVE  /\ case'[u].status # "open"
             /\ case'[u].status = "VERIFIED" <=> case[u].status = "VERIFIED"
             /\ case'[u].status = "PENDING" => case[u].status = "PENDING"
  <2>1. u \in Cases /\ case[u].status # "open"
    BY DEF Committed
  <2>2. QED
    BY <1>1, <2>1
<1>5. Committed' \subseteq Committed \cup Open
  BY <1>1 DEF Committed, Open
<1>6. QED
  BY <1>2, <1>3, <1>4, <1>5 DEF CasesGoOn

LEMMA NextCases ==
  ASSUME FiguresAssumption, FiguresTypeOK, CaseInv, [FiguresNext]_figureVars
  PROVE  CasesGoOn
<1>1. \A v \in Cases : case[v] # Absent => case[v] \in CaseRow
  BY DEF FiguresTypeOK
<1>2. \A v \in Cases, status \in CaseStatus : case[v] # Absent =>
        [case[v] EXCEPT !.status = status] \in CaseRow
  BY <1>1 DEF CaseRow
<1>3. ASSUME NEW v \in Cases, SubmitCase(v) PROVE CasesGoOn
  <2>1. PICK row : case' = [case EXCEPT ![v] = row] /\ row.status = "open"
    <3>1. PICK m \in institution, agent \in BOOLEAN, o \in Outcome :
            case' = [case EXCEPT ![v] =
              [of |-> m, byAgent |-> agent, created |-> date, status |-> "open", is |-> o]]
      BY <1>3 DEF SubmitCase
    <3>2. [of |-> m, byAgent |-> agent, created |-> date, status |-> "open", is |-> o].status
            = "open"
      OBVIOUS
    <3>3. QED
      BY <3>1, <3>2
  <2>2. case[v] = Absent /\ v \notin Committed /\ UNCHANGED <<date, institution>>
    BY <1>3 DEF SubmitCase, Committed
  <2>3. QED
    BY <2>1, <2>2, OneCase
<1>4. ASSUME NEW v \in Cases, CommitCase(v) PROVE CasesGoOn
  <2> DEFINE row == [case[v] EXCEPT !.status = case[v].is.verdict]
  <2>1. /\ case[v] # Absent /\ v \notin Committed /\ case' = [case EXCEPT ![v] = row]
        /\ UNCHANGED <<date, institution>>
    BY <1>4 DEF CommitCase, Open, Committed
  <2>2. case[v] \in CaseRow /\ case[v].is.verdict \in CaseStatus
    BY <1>1, <2>1 DEF CaseRow, Outcome, CaseStatus
  <2>3. /\ row # Absent /\ row.of = case[v].of /\ row.created = case[v].created
        /\ row.is = case[v].is
    BY <1>2, <2>1, <2>2 DEF FiguresAssumption, CaseRow
  <2>4. QED
    BY <2>1, <2>3, OneCase
<1>5. ASSUME NEW v \in Cases, DecideCase(v) PROVE CasesGoOn
  <2>1. PICK status \in {"APPROVED", "REJECTED"} : case' = [case EXCEPT ![v].status = status]
    BY <1>5 DEF DecideCase
  <2> DEFINE row == [case[v] EXCEPT !.status = status]
  <2>2. /\ case[v] \in CaseRow /\ v \in Committed /\ case[v].is.verdict = "PENDING"
        /\ UNCHANGED <<date, institution>> /\ case' = [case EXCEPT ![v] = row]
    BY <1>1, <1>5, <2>1 DEF DecideCase, Committed
  <2>3. row.status = status /\ case[v].status # "VERIFIED"
    BY <2>2 DEF CaseRow, CaseInv, Committed
  <2>4. /\ row # Absent /\ row.of = case[v].of /\ row.created = case[v].created
        /\ row.is = case[v].is
    BY <1>2, <2>2 DEF FiguresAssumption, CaseRow, CaseStatus, Committed
  <2>5. QED
    BY <2>2, <2>3, <2>4, OneCase
<1>6. CASE case' = case /\ institution \subseteq institution' /\ date <= date'
  BY <1>6 DEF CasesGoOn, Committed, Open
<1>7. QED
  <2>1. date \in Nat
    BY DEF FiguresTypeOK, FiguresAssumption
  <2>2. CASE SignUp \/ NextDate \/ \E r \in Readers : Ask(r) \/ RunQuery(r)
    BY <1>6, <2>1, <2>2 DEF SignUp, NextDate, Ask, RunQuery
  <2>3. CASE UNCHANGED figureVars
    BY <1>6, <2>1, <2>3 DEF figureVars
  <2>4. QED
    BY <1>3, <1>4, <1>5, <2>2, <2>3 DEF FiguresNext

LEMMA NextCaseInv ==
  ASSUME FiguresAssumption, FiguresTypeOK, CaseInv, [FiguresNext]_figureVars
  PROVE  CaseInv'
<1>1. date \in Nat /\ \A v \in Cases : case[v] # Absent => case[v] \in CaseRow
  BY DEF FiguresTypeOK, FiguresAssumption
<1>2. ASSUME NEW v \in Cases, SubmitCase(v) PROVE CaseInv'
  <2>1. PICK m \in institution, agent \in BOOLEAN, o \in Outcome :
          case' = [case EXCEPT ![v] =
            [of |-> m, byAgent |-> agent, created |-> date, status |-> "open", is |-> o]]
    BY <1>2 DEF SubmitCase
  <2>2. /\ case'[v].created = date /\ case'[v].status = "open"
        /\ \A u \in Cases : u # v => case'[u] = case[u]
    BY <2>1 DEF FiguresTypeOK
  <2>3. date' = date
    BY <1>2 DEF SubmitCase
  <2>4. QED
    BY <1>1, <2>2, <2>3 DEF CaseInv
<1>3. ASSUME NEW v \in Cases, NEW status, case' = [case EXCEPT ![v].status = status],
             case[v] # Absent, date' = date,
             \/ status = case[v].is.verdict
             \/ case[v].is.verdict = "PENDING" /\ status \in {"APPROVED", "REJECTED"}
      PROVE  CaseInv'
  <2>1. /\ case'[v].created = case[v].created /\ case'[v].status = status
        /\ case'[v].is = case[v].is
        /\ \A u \in Cases : u # v => case'[u] = case[u]
    BY <1>1, <1>3 DEF FiguresTypeOK, CaseRow
  <2>2. QED
    BY <1>3, <2>1 DEF CaseInv
<1>4. ASSUME NEW v \in Cases, CommitCase(v) \/ DecideCase(v) PROVE CaseInv'
  BY <1>3, <1>4 DEF CommitCase, DecideCase, Open, Committed
<1>5. ASSUME case' = case, date' = date \/ date' = date + 1 PROVE CaseInv'
  <2>1. \A v \in Cases : case[v] # Absent => case[v].created \in Nat
    BY <1>1 DEF CaseRow
  <2>2. QED
    BY <1>1, <1>5, <2>1 DEF CaseInv
<1>6. QED
  BY <1>2, <1>4, <1>5 DEF FiguresNext, SignUp, NextDate, Ask, RunQuery, figureVars

\* A request fixes its range of dates, and what is under way in it.
LEMMA Asked ==
  ASSUME NEW r \in Readers, Ask(r)
  PROVE  \E view \in View, m \in institution, first \in 1..LastDate, last \in 1..LastDate,
            late \in SUBSET Cases :
           /\ reader' = [reader EXCEPT ![r] =
                [view |-> view, of |-> m, first |-> first, last |-> last, on |-> date,
                 late |-> late]]
           /\ late = {v \in Open : case[v].of = m /\ case[v].created \in first..last}
<1>1. PICK view \in View, m \in institution, first \in 1..LastDate, last \in 1..LastDate :
        LET q == [view |-> view, of |-> m, first |-> first, last |-> last, on |-> date,
                  late |-> {}]
        IN /\ first <= last
           /\ view \notin {"stats", "report"} => first = 1 /\ last = 1
           /\ reader' = [reader EXCEPT ![r] =
                [q EXCEPT !.late = {v \in Open : case[v].of = m /\ InPeriod(v, q)}]]
  BY Zenon DEF Ask
<1> DEFINE q == [view |-> view, of |-> m, first |-> first, last |-> last, on |-> date,
                 late |-> {}]
           late == {v \in Open : case[v].of = m /\ case[v].created \in first..last}
<1>2. late \in SUBSET Cases
  BY DEF Open
<1>3. {v \in Open : case[v].of = m /\ InPeriod(v, q)} = late
  BY DEF InPeriod
<1>4. reader' = [reader EXCEPT ![r] = [q EXCEPT !.late = late]]
  BY <1>1, <1>3, Zenon
<1>5. \A some : [q EXCEPT !.late = some] =
        [view |-> view, of |-> m, first |-> first, last |-> last, on |-> date, late |-> some]
  OBVIOUS
<1>6. reader' = [reader EXCEPT ![r] =
        [view |-> view, of |-> m, first |-> first, last |-> last, on |-> date, late |-> late]]
  <2> HIDE DEF late, q
  <2>1. [q EXCEPT !.late = late] =
        [view |-> view, of |-> m, first |-> first, last |-> last, on |-> date, late |-> late]
    BY <1>5
  <2>2. QED
    BY <1>4, <2>1
<1>7. QED
  BY <1>2, <1>6

LEMMA NextFigureTypes ==
  ASSUME FiguresAssumption, FiguresTypeOK, ReaderInv, [FiguresNext]_figureVars
  PROVE  FiguresTypeOK'
<1> DEFINE Figure == UNION {[rows -> {"COUNTED"} \cup CaseStatus] :
                              rows \in SUBSET (Cases \cup Institutions)}
<1>1. /\ date \in 1..LastDate /\ institution \subseteq Institutions
      /\ case \in [Cases -> CaseRow \cup {Absent}]
      /\ \A v \in Cases : case[v] # Absent => case[v] \in CaseRow /\ case[v].of \in institution
      /\ reader \in [Readers -> Request \cup {Absent}]
      /\ published \in [Readers -> Seq(Figure)]
  BY DEF FiguresTypeOK
<1>2. ASSUME NEW v \in Cases, NEW row \in CaseRow, row.of \in institution,
             case' = [case EXCEPT ![v] = row], UNCHANGED <<date, institution, reader, published>>
      PROVE  FiguresTypeOK'
  <2>1. case' \in [Cases -> CaseRow \cup {Absent}]
    BY <1>1, <1>2
  <2>2. \A u \in Cases : case'[u] # Absent => case'[u].of \in institution
    BY <1>1, <1>2
  <2>3. QED
    BY <1>1, <1>2, <2>1, <2>2 DEF FiguresTypeOK
<1>3. ASSUME NEW v \in Cases, SubmitCase(v) PROVE FiguresTypeOK'
  <2>1. PICK m \in institution, agent \in BOOLEAN, o \in Outcome :
          case' = [case EXCEPT ![v] =
            [of |-> m, byAgent |-> agent, created |-> date, status |-> "open", is |-> o]]
    BY <1>3 DEF SubmitCase
  <2>2. [of |-> m, byAgent |-> agent, created |-> date, status |-> "open", is |-> o]
          \in CaseRow
    BY <1>1 DEF CaseRow, CaseStatus
  <2>3. QED
    BY <1>2, <1>3, <2>1, <2>2 DEF SubmitCase
<1>4. ASSUME NEW v \in Cases, NEW status \in CaseStatus, case[v] # Absent,
             case' = [case EXCEPT ![v].status = status],
             UNCHANGED <<date, institution, reader, published>>
      PROVE  FiguresTypeOK'
  <2> DEFINE row == [case[v] EXCEPT !.status = status]
  <2>1. row \in CaseRow /\ row.of = case[v].of /\ case' = [case EXCEPT ![v] = row]
    BY <1>1, <1>4 DEF CaseRow
  <2>2. QED
    BY <1>1, <1>2, <1>4, <2>1
<1>5. ASSUME NEW v \in Cases, CommitCase(v) \/ DecideCase(v) PROVE FiguresTypeOK'
  <2>1. case[v] # Absent => case[v].is.verdict \in CaseStatus
    BY <1>1 DEF CaseRow, Outcome, CaseStatus
  <2>2. QED
    BY <1>4, <1>5, <2>1 DEF CommitCase, DecideCase, Open, Committed, CaseStatus
<1>6. ASSUME SignUp \/ NextDate PROVE FiguresTypeOK'
  <2>1. UNCHANGED <<case, reader, published>> /\ institution \subseteq institution'
    BY <1>6 DEF SignUp, NextDate
  <2>2. date' \in 1..LastDate /\ institution' \subseteq Institutions
    BY <1>1, <1>6 DEF SignUp, NextDate, FiguresAssumption
  <2>3. QED
    BY <1>1, <2>1, <2>2 DEF FiguresTypeOK
<1>7. ASSUME NEW r \in Readers, Ask(r) PROVE FiguresTypeOK'
  <2>1. PICK view \in View, m \in institution, first \in 1..LastDate, last \in 1..LastDate,
             late \in SUBSET Cases :
          reader' = [reader EXCEPT ![r] =
            [view |-> view, of |-> m, first |-> first, last |-> last, on |-> date,
             late |-> late]]
    BY <1>7, Asked
  <2>2. [view |-> view, of |-> m, first |-> first, last |-> last, on |-> date,
         late |-> late] \in Request
    BY <1>1, <2>1 DEF Request, FiguresAssumption
  <2>3. reader' \in [Readers -> Request \cup {Absent}]
    BY <1>1, <2>1, <2>2
  <2>4. UNCHANGED <<date, institution, case, published>>
    BY <1>7 DEF Ask
  <2>5. QED
    BY <1>1, <2>3, <2>4 DEF FiguresTypeOK
<1>8. ASSUME NEW r \in Readers, RunQuery(r) PROVE FiguresTypeOK'
  <2> DEFINE q == reader[r]
             name == Queries(q.view)[Len(published[r]) + 1]
  <2>1. /\ q \in Request /\ Len(published[r]) + 1 \in DOMAIN Queries(q.view)
        /\ published' = [published EXCEPT ![r] = Append(published[r], Rows(name, q))]
        /\ UNCHANGED <<date, institution, case, reader>>
    BY <1>1, <1>8 DEF RunQuery
  <2>2. name \in QueryName
    BY <2>1, QueryNames DEF Request
  <2>3. Selected(name, q) \subseteq Cases \cup Institutions
    BY <2>2, SelectsRows
  <2>4. \A row \in Selected(name, q) : q.view = "report" => case[row].status \in CaseStatus
    <3>1. ASSUME q.view = "report" PROVE \A row \in Selected(name, q) : row \in Committed
      <4>1. name = "period"
        BY <2>1, <3>1, ReportPeriods
      <4>2. Own(q) \subseteq Committed
        BY DEF Own
      <4>3. Selected("period", q) \subseteq Own(q)
        BY Selects
      <4>4. QED
        BY <4>1, <4>2, <4>3
    <3>2. \A row \in Committed : case[row].status \in CaseStatus
      BY <1>1 DEF Committed, CaseRow
    <3>3. QED
      BY <3>1, <3>2
  <2>5. Rows(name, q) \in [Selected(name, q) -> {"COUNTED"} \cup CaseStatus]
    BY <2>4 DEF Rows
  <2>6. Rows(name, q) \in Figure
    BY <2>3, <2>5
  <2>7. Append(published[r], Rows(name, q)) \in Seq(Figure)
    BY <1>1, <2>6
  <2>8. published' \in [Readers -> Seq(Figure)]
    BY <1>1, <2>1, <2>7
  <2>9. QED
    BY <1>1, <2>1, <2>8 DEF FiguresTypeOK
<1>9. CASE UNCHANGED figureVars
  BY <1>9 DEF figureVars, FiguresTypeOK
<1>10. QED
  BY <1>3, <1>5, <1>6, <1>7, <1>8, <1>9 DEF FiguresNext

-----------------------------------------------------------------------------
\* Requests that have begun go on; what they have counted stays.
LEMMA ReadersGoOn ==
  ASSUME FiguresTypeOK, ReaderInv, [FiguresNext]_figureVars, NEW r \in Readers
  PROVE  /\ reader[r] # Absent => reader'[r] = reader[r]
         /\ \A i \in DOMAIN published[r] :
              /\ reader[r] \in Request /\ reader'[r] = reader[r]
              /\ i \in DOMAIN published'[r] /\ published'[r][i] = published[r][i]
         /\ published[r] \in Seq(UNION {[rows -> {"COUNTED"} \cup CaseStatus] :
                                          rows \in SUBSET (Cases \cup Institutions)})
<1> DEFINE Figure == UNION {[rows -> {"COUNTED"} \cup CaseStatus] :
                              rows \in SUBSET (Cases \cup Institutions)}
<1>1. published[r] \in Seq(Figure) /\ reader[r] \in Request \cup {Absent}
  BY DEF FiguresTypeOK
<1>2. reader[r] = Absent => DOMAIN published[r] = {}
  BY DEF ReaderInv
<1>3. ASSUME reader[r] # Absent PROVE reader'[r] = reader[r]
  BY <1>3 DEF FiguresTypeOK, FiguresNext, SubmitCase, CommitCase, DecideCase, Ask, RunQuery,
              SignUp, NextDate, figureVars
<1>4. \/ published'[r] = published[r]
      \/ \E rows : published'[r] = Append(published[r], rows)
  <2>1. ASSUME NEW s \in Readers, RunQuery(s)
        PROVE  \/ published'[r] = published[r]
               \/ \E rows : published'[r] = Append(published[r], rows)
    <3>1. PICK rows : published' = [published EXCEPT ![s] = Append(published[s], rows)]
      BY <2>1 DEF RunQuery
    <3>2. QED
      BY <3>1 DEF FiguresTypeOK
  <2>2. CASE published' = published
    BY <2>2
  <2>3. QED
    BY <2>1, <2>2 DEF FiguresNext, SubmitCase, CommitCase, DecideCase, Ask, SignUp, NextDate,
                      figureVars
<1>5. ASSUME NEW i \in DOMAIN published[r]
      PROVE  i \in DOMAIN published'[r] /\ published'[r][i] = published[r][i]
  <2> HIDE DEF Figure
  <2>1. i \in 1..Len(published[r])
    BY <1>1
  <2>2. QED
    BY <1>1, <1>4, <2>1
<1>6. QED
  BY <1>1, <1>2, <1>3, <1>5

\* What a query selects is selected later, too.
LEMMA SelectedGrows ==
  ASSUME FiguresTypeOK, CasesGoOn, NEW q, NEW name \in Grows
  PROVE  Selected(name, q) \subseteq Selected(name, q)'
<1>1. /\ Committed \subseteq Committed'
      /\ \A v \in Committed : /\ case'[v].of = case[v].of /\ case'[v].created = case[v].created
                              /\ case'[v].is = case[v].is
  BY DEF CasesGoOn, Committed
<1>2. Own(q) \subseteq Own(q)' /\ institution \subseteq institution' /\ Own(q) \subseteq Committed
  BY <1>1 DEF Own, CasesGoOn
<1>3. CASE name = "period"
  BY <1>1, <1>2, <1>3 DEF Selected, InPeriod
<1>4. CASE name \in {"own", "own flagged"}
  BY <1>1, <1>2, <1>4 DEF Selected
<1>5. CASE name \in {"all", "read", "tried", "matched", "enrolled"}
  BY <1>1, <1>5 DEF Selected
<1>6. CASE name \in {"flagged", "institutions"}
  BY <1>1, <1>2, <1>6 DEF Selected
<1>7. QED
  BY <1>3, <1>4, <1>5, <1>6 DEF Grows

\* A new verification is dated today: what is open in a period that was over
\* when a request began was so then.
LEMMA PeriodsEnd ==
  ASSUME FiguresAssumption, FiguresTypeOK, CaseInv, ReaderInv, [FiguresNext]_figureVars,
         NEW r \in Readers, reader[r] # Absent, Over(reader[r]),
         NEW v \in Open', case'[v].of = reader[r].of,
         case'[v].created \in reader[r].first..reader[r].last
  PROVE  v \in reader[r].late
<1>1. /\ v \in Cases /\ reader[r] \in Request /\ date \in Nat
      /\ reader[r].on \in Nat /\ reader[r].last \in Nat
  BY DEF Open, FiguresTypeOK, Request, FiguresAssumption
<1>2. CASE case' = case
  BY <1>2 DEF Open, ReaderInv, InPeriod
<1>3. ASSUME NEW u \in Cases, SubmitCase(u) PROVE v \in reader[r].late
  <2>1. CASE u = v
    <3>1. case'[v].created = date
      BY <1>1, <1>3, <2>1 DEF SubmitCase, FiguresTypeOK
    <3>2. reader[r].last < reader[r].on /\ reader[r].on <= date
      BY DEF Over, ReaderInv
    <3>3. case'[v].created <= reader[r].last
      BY <1>1, <3>1
    <3>4. QED
      BY <1>1, <3>1, <3>2, <3>3
  <2>2. CASE u # v
    <3>1. case'[v] = case[v]
      BY <1>1, <1>3, <2>2 DEF SubmitCase, FiguresTypeOK
    <3>2. QED
      BY <3>1 DEF Open, ReaderInv, InPeriod
  <2>3. QED
    BY <2>1, <2>2
<1>4. ASSUME NEW u \in Cases, NEW status, case' = [case EXCEPT ![u].status = status],
             case[u] # Absent, status # "open"
      PROVE  v \in reader[r].late
  <2>1. u # v
    <3>1. case'[u].status = status
      BY <1>4 DEF FiguresTypeOK, CaseRow
    <3>2. QED
      BY <1>4, <3>1 DEF Open
  <2>2. case'[v] = case[v]
    BY <1>1, <1>4, <2>1 DEF FiguresTypeOK
  <2>3. QED
    BY <2>2 DEF Open, ReaderInv, InPeriod
<1>5. ASSUME NEW u \in Cases, CommitCase(u) \/ DecideCase(u) PROVE v \in reader[r].late
  <2>1. case[u] # Absent => case[u].is.verdict # "open"
    BY DEF FiguresTypeOK, CaseRow, Outcome
  <2>2. QED
    BY <1>4, <1>5, <2>1 DEF CommitCase, DecideCase, Open, Committed
<1>6. QED
  BY <1>2, <1>3, <1>5 DEF FiguresNext, Ask, RunQuery, SignUp, NextDate, figureVars

LEMMA NextReaderInv ==
  ASSUME FiguresAssumption, FiguresTypeOK, CaseInv, ReaderInv, [FiguresNext]_figureVars
  PROVE  ReaderInv'
<1> SUFFICES ASSUME NEW r \in Readers
             PROVE  /\ reader'[r] = Absent => published'[r] = <<>>
                    /\ reader'[r] # Absent =>
                         /\ reader'[r].on <= date'
                         /\ Len(published'[r]) <= Len(Queries(reader'[r].view))
                         /\ Over(reader'[r]) => \A v \in Open' :
                              case'[v].of = reader'[r].of
                              /\ case'[v].created \in reader'[r].first..reader'[r].last
                              => v \in reader'[r].late
  BY DEF ReaderInv, Over, InPeriod
<1>1. /\ date \in Nat /\ date' \in Nat /\ date <= date'
      /\ reader[r] \in Request \cup {Absent}
  <2>1. date <= date'
    BY NextCases DEF CasesGoOn
  <2>2. FiguresTypeOK'
    BY NextFigureTypes
  <2>3. QED
    BY <2>1, <2>2 DEF FiguresTypeOK, FiguresAssumption
<1>2. ASSUME reader[r] # Absent
      PROVE  /\ reader'[r] = reader[r] /\ reader[r].on <= date'
             /\ Len(published'[r]) <= Len(Queries(reader[r].view))
  <2>1. reader'[r] = reader[r]
    BY <1>2, ReadersGoOn
  <2>2. reader[r].on <= date'
    <3>1. reader[r].on \in Nat /\ reader[r].on <= date
      BY <1>1, <1>2 DEF ReaderInv, Request
    <3>2. QED
      BY <1>1, <3>1
  <2>3. Len(published'[r]) <= Len(Queries(reader[r].view))
    <3>1. CASE RunQuery(r)
      <4>1. /\ Len(published[r]) + 1 \in DOMAIN Queries(reader[r].view)
            /\ \E rows : published'[r] = Append(published[r], rows)
        BY <3>1 DEF RunQuery, FiguresTypeOK
      <4>2. Len(published[r]) + 1 <= Len(Queries(reader[r].view))
        <5>1. reader[r].view \in View
          BY <1>1, <1>2 DEF Request
        <5>2. QED
          BY <4>1, <5>1, QueryNames
      <4>3. Len(published'[r]) = Len(published[r]) + 1
        BY <4>1, ReadersGoOn
      <4>4. QED
        BY <4>2, <4>3
    <3>2. CASE ~RunQuery(r)
      <4>1. published'[r] = published[r]
        BY <3>2 DEF FiguresTypeOK, FiguresNext, SubmitCase, CommitCase, DecideCase, Ask,
                    RunQuery, SignUp, NextDate, figureVars
      <4>2. QED
        BY <1>2, <4>1 DEF ReaderInv
    <3>3. QED
      BY <3>1, <3>2
  <2>4. QED
    BY <2>1, <2>2, <2>3
<1>3. CASE reader[r] # Absent
  BY <1>2, <1>3, PeriodsEnd
<1>4. CASE reader[r] = Absent /\ Ask(r)
  <2>1. PICK view \in View, m \in institution, first \in 1..LastDate, last \in 1..LastDate,
             late \in SUBSET Cases :
          /\ reader' = [reader EXCEPT ![r] =
               [view |-> view, of |-> m, first |-> first, last |-> last, on |-> date,
                late |-> late]]
          /\ late = {v \in Open : case[v].of = m /\ case[v].created \in first..last}
    BY <1>4, Asked
  <2>2. reader'[r] = [view |-> view, of |-> m, first |-> first, last |-> last, on |-> date,
                      late |-> late]
    BY <2>1 DEF FiguresTypeOK
  <2>3. published'[r] = <<>> /\ case' = case /\ date' = date /\ Open' = Open
    BY <1>4 DEF Ask, ReaderInv, Open
  <2>4. Len(<<>>) = 0 /\ Len(Queries(view)) \in Nat
    BY QueryNames
  <2>5. QED
    BY <1>1, <2>1, <2>2, <2>3, <2>4
<1>5. CASE reader[r] = Absent /\ ~Ask(r)
  <2>1. reader'[r] = Absent /\ published'[r] = published[r]
    <3>1. ASSUME NEW s \in Readers, RunQuery(s) PROVE published'[r] = published[r]
      BY <1>5, <3>1 DEF RunQuery, FiguresTypeOK
    <3>2. ASSUME NEW s \in Readers, Ask(s) PROVE reader'[r] = reader[r]
      <4>1. s # r /\ \E row : reader' = [reader EXCEPT ![s] = row]
        BY <1>5, <3>2, Asked
      <4>2. QED
        BY <4>1 DEF FiguresTypeOK
    <3>3. \/ reader' = reader /\ published' = published
          \/ \E s \in Readers : RunQuery(s) /\ reader' = reader
          \/ \E s \in Readers : Ask(s) /\ published' = published
      BY DEF FiguresNext, SubmitCase, CommitCase, DecideCase, Ask, RunQuery, SignUp, NextDate,
             figureVars
    <3>4. QED
      BY <1>5, <3>1, <3>2, <3>3
  <2>2. QED
    BY <1>5, <2>1 DEF ReaderInv
<1>6. QED
  BY <1>3, <1>4, <1>5

\* The next figure is put after those that are there.
Ran(r) ==
  LET q == reader[r]
      next == Len(published[r]) + 1
  IN /\ q \in Request /\ next \in DOMAIN Queries(q.view) /\ reader'[r] = q
     /\ published'[r] = Append(published[r], Rows(Queries(q.view)[next], q))
     /\ DOMAIN published[r] = 1..Len(published[r])
     /\ DOMAIN published'[r] = 1..next
     /\ published'[r][next] = Rows(Queries(q.view)[next], q)
     /\ \A i \in DOMAIN published[r] : published'[r][i] = published[r][i]

LEMMA RunsNext ==
  ASSUME FiguresTypeOK, ReaderInv, [FiguresNext]_figureVars, NEW r \in Readers, RunQuery(r)
  PROVE  Ran(r)
<1> DEFINE Figure == UNION {[rows -> {"COUNTED"} \cup CaseStatus] :
                              rows \in SUBSET (Cases \cup Institutions)}
           q == reader[r]
           next == Len(published[r]) + 1
           rows == Rows(Queries(q.view)[next], q)
<1>1. /\ q \in Request /\ next \in DOMAIN Queries(q.view) /\ reader'[r] = q
      /\ published'[r] = Append(published[r], rows)
  BY DEF RunQuery, FiguresTypeOK
<1>2. published[r] \in Seq(Figure)
  BY ReadersGoOn
<1>3. /\ DOMAIN published[r] = 1..Len(published[r])
      /\ DOMAIN published'[r] = 1..next
      /\ published'[r][next] = rows
      /\ \A i \in DOMAIN published[r] : published'[r][i] = published[r][i]
  <2> HIDE DEF Figure, rows
  <2>1. QED
    BY <1>1, <1>2
<1>4. QED
  BY <1>1, <1>3 DEF Ran

\* What has been counted stays explained.
LEMMA CountedStays ==
  ASSUME FiguresTypeOK, ReaderInv, CasesGoOn, NEW r \in Readers, reader[r] # Absent,
         NEW q, q = reader[r], NEW name, NEW rows, Counted(name, rows, q)
  PROVE  Counted(name, rows, q)'
<1>1. /\ Committed \subseteq Committed'
      /\ \A v \in Committed : /\ case'[v].of = case[v].of /\ case'[v].created = case[v].created
                              /\ case'[v].is = case[v].is
  BY DEF CasesGoOn, Committed
<1>2. name \in Grows => DOMAIN rows \subseteq Selected(name, q)'
  BY SelectedGrows DEF Counted
<1>3. name \in {"this month", "last month"} => DOMAIN rows \subseteq Own(q)'
  <2>1. Own(q) \subseteq Own(q)'
    BY <1>1 DEF Own
  <2>2. QED
    BY <2>1 DEF Counted
<1>4. name = "owners" => DOMAIN rows \subseteq institution'
  BY DEF Counted, CasesGoOn
<1>5. name = "reference" => \A v \in DOMAIN rows : v \in Committed' /\ InReference(v, q)'
  BY <1>1 DEF Counted, InReference
<1>6. q.view = "report" => \A v \in DOMAIN rows :
        /\ v \in Committed'
        /\ rows[v] = "VERIFIED" <=> case'[v].status = "VERIFIED"
        /\ case'[v].status = "PENDING" => rows[v] = "PENDING"
  <2>1. ASSUME q.view = "report", NEW v \in DOMAIN rows
        PROVE  /\ v \in Committed
               /\ rows[v] = "VERIFIED" <=> case[v].status = "VERIFIED"
               /\ case[v].status = "PENDING" => rows[v] = "PENDING"
    BY <2>1 DEF Counted
  <2>2. QED
    BY <1>1, <2>1 DEF CasesGoOn
<1>7. ASSUME Over(q) PROVE Selected("period", q)' \subseteq DOMAIN rows \cup q.late
  <2> SUFFICES ASSUME NEW v \in Selected("period", q)'
               PROVE  v \in DOMAIN rows \cup q.late
    OBVIOUS
  <2>1. v \in Committed' /\ case'[v].of = q.of /\ case'[v].created \in q.first..q.last
    BY DEF Selected, Own, InPeriod
  <2>2. CASE v \in Committed
    <3>1. v \in Selected("period", q)
      BY <1>1, <2>1, <2>2 DEF Selected, Own, InPeriod
    <3>2. QED
      BY <1>7, <3>1 DEF Counted
  <2>3. CASE v \in Open
    <3>1. case[v].of = q.of /\ InPeriod(v, q)
      BY <2>1, <2>3 DEF CasesGoOn, InPeriod, Open
    <3>2. QED
      BY <1>7, <2>3, <3>1 DEF ReaderInv
  <2>4. QED
    BY <2>1, <2>2, <2>3 DEF CasesGoOn
<1>8. Over(q)' <=> Over(q)
  BY DEF Over
<1>9. QED
  BY <1>2, <1>3, <1>4, <1>5, <1>6, <1>7, <1>8 DEF Counted

\* So is what a query counts now.
LEMMA CountedNow ==
  ASSUME FiguresTypeOK, NEW q \in Request, NEW i \in DOMAIN Queries(q.view)
  PROVE  LET name == Queries(q.view)[i] IN Counted(name, Rows(name, q), q)
<1> DEFINE name == Queries(q.view)[i]
           rows == Rows(name, q)
<1>1. DOMAIN rows = Selected(name, q)
  BY DEF Rows
<1>2. \A v \in Committed : case[v].of \in institution
  BY DEF Committed, FiguresTypeOK
<1>3. /\ Own(q) \subseteq Committed
      /\ Selected("period", q) \subseteq Own(q)
      /\ Selected("this month", q) \subseteq Own(q)
      /\ Selected("last month", q) \subseteq Own(q)
  <2>1. Own(q) \subseteq Committed
    BY DEF Own
  <2>2. Selected("period", q) \subseteq Own(q)
    BY DEF Selected
  <2>3. Selected("this month", q) \subseteq Own(q)
    BY DEF Selected
  <2>4. Selected("last month", q) \subseteq Own(q)
    BY DEF Selected
  <2>5. QED
    BY <2>1, <2>2, <2>3, <2>4
<1>4. Selected("owners", q) \subseteq institution
  BY <1>2 DEF Selected
<1>5. \A v \in Selected("reference", q) : v \in Committed /\ InReference(v, q)
  BY Selects DEF Own
<1>6. q.view = "report" => /\ name = "period"
                           /\ \A v \in DOMAIN rows : rows[v] = case[v].status
  BY ReportPeriods DEF Rows
<1>7. QED
  <2> HIDE DEF rows, name
  <2>1. q.view = "report" => \A v \in DOMAIN rows : v \in Committed
    BY <1>1, <1>3, <1>6
  <2>2. Counted(name, rows, q)
    BY <1>1, <1>3, <1>4, <1>5, <1>6, <2>1 DEF Counted, Over
  <2>3. QED
    BY <2>2 DEF rows, name

LEMMA NextCountedInv ==
  ASSUME FiguresAssumption, FiguresTypeOK, CaseInv, ReaderInv, CountedInv,
         [FiguresNext]_figureVars
  PROVE  CountedInv'
<1> SUFFICES ASSUME NEW r \in Readers, NEW i \in DOMAIN published'[r],
                    NEW name, NEW rows, NEW q,
                    q = reader'[r], name = Queries(q.view)[i], rows = published'[r][i]
             PROVE  Counted(name, rows, q)'
  BY DEF CountedInv
<1>1. CasesGoOn
  BY NextCases
<1>2. reader[r] = Absent => DOMAIN published[r] = {}
  BY DEF ReaderInv
<1>3. CASE i \in DOMAIN published[r]
  <2>1. q = reader[r] /\ rows = published[r][i] /\ reader[r] # Absent
    BY <1>2, <1>3, ReadersGoOn
  <2>2. Counted(name, rows, q)
    BY <1>3, <2>1 DEF CountedInv
  <2>3. QED
    BY <1>1, <2>1, <2>2, CountedStays
<1>4. CASE i \notin DOMAIN published[r]
  <2>1. RunQuery(r)
    <3>1. published'[r] # published[r]
      BY <1>4
    <3>2. ASSUME NEW s \in Readers, RunQuery(s), s # r PROVE published'[r] = published[r]
      BY <3>2 DEF RunQuery, FiguresTypeOK
    <3>3. \E s \in Readers : RunQuery(s)
      BY <3>1 DEF FiguresNext, SubmitCase, CommitCase, DecideCase, Ask, SignUp, NextDate,
                  figureVars
    <3>4. QED
      BY <3>1, <3>2, <3>3
  <2>2. Ran(r)
    BY <2>1, RunsNext
  <2>3. /\ q = reader[r] /\ q \in Request /\ i = Len(published[r]) + 1
        /\ i \in DOMAIN Queries(q.view) /\ rows = Rows(name, q)
    BY <1>4, <2>2 DEF Ran
  <2>4. Counted(name, rows, q)
    BY <2>3, CountedNow
  <2>5. QED
    BY <1>1, <2>1, <2>3, <2>4, CountedStays DEF RunQuery
<1>5. QED
  BY <1>3, <1>4

-----------------------------------------------------------------------------
\* One reader's part of what the runs state.
InOrder(view, figures) ==
  \A i, j \in DOMAIN figures :
    \/ <<view, Queries(view)[i], Queries(view)[j]>> \in PartOfTotal
    \/ Queries(view)[i] = Queries(view)[j] /\ Queries(view)[i] \in Grows /\ i < j
    => DOMAIN figures[i] \subseteq DOMAIN figures[j]

Disjoint(view, figures) ==
  view = "drift" /\ Len(figures) = 2 => DOMAIN figures[1] \cap DOMAIN figures[2] = {}

Stands(q, figures) ==
  q.view = "report" /\ Len(figures) = 2 =>
    /\ \A v \in DOMAIN figures[1] :
         /\ figures[2][v] = "VERIFIED" <=> figures[1][v] = "VERIFIED"
         /\ figures[2][v] = "PENDING" => figures[1][v] = "PENDING"
    /\ q.last < q.on => DOMAIN figures[2] \ DOMAIN figures[1] \subseteq q.late

Agree(q, figures) ==
  InOrder(q.view, figures) /\ Disjoint(q.view, figures) /\ Stands(q, figures)

LEMMA AgreeByReader ==
  ASSUME ReaderInv
  PROVE  FiguresAgree <=>
           \A r \in Readers : reader[r] # Absent => Agree(reader[r], published[r])
<1>1. \A r \in Readers : reader[r] = Absent => DOMAIN published[r] = {}
  BY DEF ReaderInv
<1>2. FiguresInOrder <=>
        \A r \in Readers : reader[r] # Absent => InOrder(reader[r].view, published[r])
  BY <1>1 DEF FiguresInOrder, InOrder
<1>3. WindowsDisjoint <=>
        \A r \in Readers : reader[r] # Absent => Disjoint(reader[r].view, published[r])
  BY DEF WindowsDisjoint, Disjoint
<1>4. ReportStands <=>
        \A r \in Readers : reader[r] # Absent => Stands(reader[r], published[r])
  BY DEF ReportStands, Stands
<1>5. QED
  BY <1>2, <1>3, <1>4 DEF FiguresAgree, Agree

\* The next figure agrees with those that are there.
LEMMA AgreeNext ==
  ASSUME FiguresAssumption, FiguresTypeOK, ReaderInv, CountedInv, NEW r \in Readers, Ran(r),
         Agree(reader[r], published[r])
  PROVE  Agree(reader[r], published'[r])
<1> DEFINE q == reader[r]
           old == published[r]
           new == published'[r]
           next == Len(old) + 1
           name(i) == Queries(q.view)[i]
<1>1. /\ q \in Request /\ q.view \in View /\ next \in DOMAIN Queries(q.view)
      /\ Len(old) \in Nat /\ DOMAIN old = 1..Len(old) /\ DOMAIN new = 1..next
      /\ \A i \in DOMAIN old : new[i] = old[i]
      /\ DOMAIN new[next] = Selected(name(next), q)
      /\ new[next] = Rows(name(next), q)
      /\ Len(new) = next
  <2>1. published[r] \in Seq(UNION {[rows -> {"COUNTED"} \cup CaseStatus] :
                                      rows \in SUBSET (Cases \cup Institutions)})
    BY DEF FiguresTypeOK
  <2>2. Len(old) \in Nat
    BY <2>1
  <2>3. Len(new) = next
    BY <2>1 DEF Ran
  <2>4. QED
    BY <2>2, <2>3 DEF Ran, Request, Rows
<1>2. \A i \in DOMAIN old : Counted(name(i), old[i], q)
  BY DEF CountedInv
<1>3. \A i \in DOMAIN new : i \in DOMAIN old \/ i = next
  BY <1>1
<1>4. \A i \in DOMAIN new : i \in DOMAIN Queries(q.view)
  <2>1. DOMAIN Queries(q.view) = 1..Len(Queries(q.view)) /\ Len(Queries(q.view)) \in Nat
    BY <1>1, QueryNames
  <2>2. QED
    BY <1>1, <2>1
<1>5. Agree(q, old)
  OBVIOUS
<1>6. /\ Selected("own", q) = Own(q) /\ Selected("institutions", q) = institution
      /\ \A v \in Selected("current", q) : v \in Committed /\ InCurrent(v, q)
  <2>1. Selected("own", q) = Own(q) /\ Selected("institutions", q) = institution
    BY DEF Selected
  <2>2. \A v \in Selected("current", q) : v \in Own(q) /\ InCurrent(v, q)
    BY DEF Selected
  <2>3. QED
    BY <2>1, <2>2 DEF Own
<1>7. /\ q.on \in Nat /\ Lookback \in Nat
      /\ \A v \in Committed : case[v].created \in Nat
  BY <1>1 DEF Request, FiguresAssumption, Committed, FiguresTypeOK, CaseRow
<1>8. \A i, j \in DOMAIN new : <<q.view, name(i), name(j)>> \in PartOfTotal => i < j
  BY <1>1, <1>4, PartsFirst
<1>9. q.view = "drift" /\ next = 2 => name(1) = "reference" /\ name(2) = "current"
  <2>1. SUFFICES ASSUME q.view = "drift", next = 2
                 PROVE  name(1) = "reference" /\ name(2) = "current"
    OBVIOUS
  <2>2. 1 \in DOMAIN Queries("drift") /\ 2 \in DOMAIN Queries("drift")
    BY <1>1, <1>4, <2>1
  <2>3. QED
    BY <2>1, <2>2, DriftWindows
<1>10. q.view = "report" => \A i \in DOMAIN new : name(i) = "period"
  BY <1>4, ReportPeriods
<1>11. q.view = "report" => \A v \in DOMAIN new[next] : new[next][v] = case[v].status
  BY <1>1 DEF Rows
<1> HIDE DEF q, old, new, name
<1>12. InOrder(q.view, new)
  <2> SUFFICES ASSUME NEW i \in DOMAIN new, NEW j \in DOMAIN new,
                      \/ <<q.view, name(i), name(j)>> \in PartOfTotal
                      \/ name(i) = name(j) /\ name(i) \in Grows /\ i < j
               PROVE  DOMAIN new[i] \subseteq DOMAIN new[j]
    BY DEF InOrder, name
  <2>1. i < j
    BY <1>8
  <2>2. i \in DOMAIN old
    BY <1>1, <2>1
  <2>3. CASE j \in DOMAIN old
    BY <1>1, <1>5, <2>2, <2>3 DEF Agree, InOrder, name
  <2>4. CASE j = next
    <3>1. Counted(name(i), old[i], q) /\ new[i] = old[i]
      BY <1>1, <1>2, <2>2
    <3>2. CASE name(i) = name(j) /\ name(i) \in Grows
      BY <1>1, <2>4, <3>1, <3>2 DEF Counted
    <3>3. CASE <<q.view, name(i), name(j)>> \in PartOfTotal
      <4>1. \/ name(i) \in {"this month", "last month"} /\ name(j) = "own"
            \/ name(i) = "owners" /\ name(j) = "institutions"
        BY <3>3 DEF PartOfTotal
      <4>2. QED
        BY <1>1, <1>6, <2>4, <3>1, <4>1 DEF Counted
    <3>4. QED
      BY <3>2, <3>3
  <2>5. QED
    BY <1>3, <2>3, <2>4
<1>13. Disjoint(q.view, new)
  <2> SUFFICES ASSUME q.view = "drift", Len(new) = 2,
                      NEW v \in DOMAIN new[1], v \in DOMAIN new[2]
               PROVE  FALSE
    BY DEF Disjoint
  <2>1. next = 2 /\ 1 \in DOMAIN old /\ new[1] = old[1]
    BY <1>1
  <2>2. v \in Committed /\ InReference(v, q)
    BY <1>2, <1>9, <2>1 DEF Counted
  <2>3. InCurrent(v, q)
    BY <1>1, <1>6, <1>9, <2>1
  <2>4. QED
    BY <1>7, <2>2, <2>3 DEF InReference, InCurrent
<1>14. Stands(q, new)
  <2> SUFFICES ASSUME q.view = "report", Len(new) = 2
               PROVE  /\ \A v \in DOMAIN new[1] :
                           /\ new[2][v] = "VERIFIED" <=> new[1][v] = "VERIFIED"
                           /\ new[2][v] = "PENDING" => new[1][v] = "PENDING"
                      /\ q.last < q.on => DOMAIN new[2] \ DOMAIN new[1] \subseteq q.late
    BY DEF Stands
  <2>1. next = 2 /\ 1 \in DOMAIN old /\ new[1] = old[1]
    BY <1>1
  <2>2. Counted("period", old[1], q) /\ DOMAIN new[2] = Selected("period", q)
    BY <1>1, <1>2, <1>10, <2>1
  <2>3. DOMAIN new[1] \subseteq DOMAIN new[2]
    BY <2>1, <2>2 DEF Counted, Grows
  <2>4. ASSUME NEW v \in DOMAIN new[1]
        PROVE  /\ new[2][v] = "VERIFIED" <=> new[1][v] = "VERIFIED"
               /\ new[2][v] = "PENDING" => new[1][v] = "PENDING"
    <3>1. new[2][v] = case[v].status
      BY <1>11, <2>1, <2>3
    <3>2. /\ old[1][v] = "VERIFIED" <=> case[v].status = "VERIFIED"
          /\ case[v].status = "PENDING" => old[1][v] = "PENDING"
      BY <2>1, <2>2 DEF Counted
    <3>3. QED
      BY <2>1, <3>1, <3>2
  <2>5. q.last < q.on => DOMAIN new[2] \ DOMAIN new[1] \subseteq q.late
    BY <2>1, <2>2 DEF Counted, Over
  <2>6. QED
    BY <2>4, <2>5
<1>15. QED
  BY <1>12, <1>13, <1>14 DEF Agree, q, new

LEMMA NextAgree ==
  ASSUME FiguresAssumption, FiguresInv, [FiguresNext]_figureVars
  PROVE  FiguresAgree'
<1> USE DEF FiguresInv
<1>1. ReaderInv'
  BY NextReaderInv
<1>2. ASSUME NEW r \in Readers, reader'[r] # Absent
      PROVE  Agree(reader'[r], published'[r])
  <2>1. CASE RunQuery(r)
    <3>1. Ran(r) /\ reader[r] # Absent
      BY <2>1, RunsNext DEF RunQuery
    <3>2. Agree(reader[r], published[r])
      BY <3>1, AgreeByReader
    <3>3. reader'[r] = reader[r]
      BY <3>1 DEF Ran
    <3>4. QED
      BY <3>1, <3>2, <3>3, AgreeNext
  <2>2. CASE ~RunQuery(r)
    <3>1. published'[r] = published[r]
      BY <2>2 DEF FiguresTypeOK, FiguresNext, SubmitCase, CommitCase, DecideCase, Ask,
                  RunQuery, SignUp, NextDate, figureVars
    <3>2. CASE reader[r] # Absent
      BY <3>1, <3>2, AgreeByReader, ReadersGoOn
    <3>3. CASE reader[r] = Absent
      <4>1. published'[r] = <<>>
        BY <3>1, <3>3 DEF ReaderInv
      <4>2. DOMAIN <<>> = {} /\ Len(<<>>) = 0
        OBVIOUS
      <4>3. QED
        BY <4>1, <4>2 DEF Agree, InOrder, Disjoint, Stands
    <3>4. QED
      BY <3>2, <3>3
  <2>3. QED
    BY <2>1, <2>2
<1>3. \A r \in Readers : reader'[r] = Absent => DOMAIN published'[r] = {}
  BY <1>1 DEF ReaderInv
<1>4. FiguresInOrder'
  BY <1>2, <1>3 DEF FiguresInOrder, InOrder, Agree
<1>5. WindowsDisjoint'
  BY <1>2 DEF WindowsDisjoint, Disjoint, Agree
<1>6. ReportStands'
  BY <1>2 DEF ReportStands, Stands, Agree
<1>7. QED
  BY <1>4, <1>5, <1>6 DEF FiguresAgree

LEMMA FiguresInvariance == FiguresSpec => []FiguresInv
<1>1. FiguresInit => FiguresInv
  BY InitFigures, FiguresAssumption
<1>2. FiguresInv /\ [FiguresNext]_figureVars => FiguresInv'
  BY NextFigureTypes, NextCaseInv, NextReaderInv, NextCountedInv, NextAgree,
     FiguresAssumption DEF FiguresInv
<1>3. QED
  BY <1>1, <1>2, PTL DEF FiguresSpec

\* The variables of Figures keep their types.
THEOREM FiguresTypeCorrect == FiguresSpec => []FiguresTypeOK
<1>1. FiguresInv => FiguresTypeOK
  BY DEF FiguresInv
<1>2. QED
  BY <1>1, FiguresInvariance, PTL

\* What a payload shows is consistent, although its queries are not of one
\* moment, for any number of readers, verifications, institutions and dates.
THEOREM PayloadsAgree == FiguresSpec => []FiguresAgree
<1>1. FiguresInv => FiguresAgree
  BY DEF FiguresInv
<1>2. QED
  BY <1>1, FiguresInvariance, PTL


-----------------------------------------------------------------------------
(* The parts side by side.                                                 *)

Scenes == {"directory", "limiter", "loop", "figures", "trail", "mailing", "ocr"}

\* Where the parts are explored together each of them does what it does alone,
\* so whatever is proved of a part holds there too.  OcrFields starts only where
\* it is the part explored, and the fairness of the loop is not part of this.
THEOREM PartsKeepTheirSpecs ==
  Spec => /\ DirectorySpec /\ LimiterSpec
          /\ LoopInit /\ [][LoopNext]_loopVars
          /\ FiguresSpec /\ TrailSpec /\ MailingSpec
          /\ scene = "ocr" => OcrSpec
<1>1. Init => /\ DirectoryInit /\ LimiterInit /\ LoopInit
              /\ FiguresInit /\ TrailInit /\ MailingInit
              /\ scene = "ocr" => OcrInit
  BY DEF Init
<1>2. [Next]_vars => [DirectoryNext]_directoryVars
  BY DEF Next, vars
<1>3. [Next]_vars => [LimiterNext]_limiterVars
  BY DEF Next, vars
<1>4. [Next]_vars => [LoopNext]_loopVars
  BY DEF Next, vars
<1>5. [Next]_vars => [FiguresNext]_figureVars
  BY DEF Next, vars
<1>6. [Next]_vars => [TrailNext]_trailVars
  BY DEF Next, vars
<1>7. [Next]_vars => [MailingNext]_mailVars
  BY DEF Next, vars
<1>8. [Next]_vars => [OcrNext]_ocrVars
  BY DEF Next, vars
<1>9. QED
  BY <1>1, <1>2, <1>3, <1>4, <1>5, <1>6, <1>7, <1>8, PTL
  DEF Spec, DirectorySpec, LimiterSpec, FiguresSpec, TrailSpec, MailingSpec, OcrSpec

\* Each part keeps its types wherever it is explored, for every value of its
\* constants.
THEOREM OfficeTypeCorrect == Spec => []TypeOK
<1>1. Init => scene \in Scenes
  BY DEF Init, Scenes
<1>2. scene \in Scenes /\ [Next]_vars => (scene \in Scenes)'
  BY DEF Next, vars
<1>3. scene = "ocr" /\ [Next]_vars => (scene = "ocr")'
  BY DEF Next, vars
<1>4. ~(scene = "ocr") /\ [Next]_vars => ~(scene = "ocr")'
  BY DEF Next, vars
<1>5. LoopInit /\ [][LoopNext]_loopVars => []LoopTypeOK
  <2>1. LoopInv => LoopTypeOK
    BY DEF LoopInv, LoopTypes, PoolInv, LoopTypeOK
  <2>2. QED
    BY <2>1, LoopInvariance, PTL
<1>6. /\ scene \in Scenes
      /\ DirectoryTypeOK /\ LimiterTypeOK /\ LoopTypeOK
      /\ FiguresTypeOK /\ TrailTypeOK /\ MailingTypeOK
      /\ scene = "ocr" => OcrTypeOK
      => TypeOK
  <2> SUFFICES ASSUME scene \in Scenes,
                      DirectoryTypeOK, LimiterTypeOK, LoopTypeOK, FiguresTypeOK, TrailTypeOK,
                      MailingTypeOK, scene = "ocr" => OcrTypeOK
               PROVE  TypeOK
    OBVIOUS
  <2>1. CASE scene = "directory"
    BY <2>1 DEF TypeOK
  <2>2. CASE scene = "limiter"
    BY <2>2 DEF TypeOK
  <2>3. CASE scene = "loop"
    BY <2>3 DEF TypeOK
  <2>4. CASE scene = "figures"
    BY <2>4 DEF TypeOK
  <2>5. CASE scene = "trail"
    BY <2>5 DEF TypeOK
  <2>6. CASE scene = "mailing"
    BY <2>6 DEF TypeOK
  <2>7. CASE scene = "ocr"
    BY <2>7 DEF TypeOK
  <2>8. QED
    BY <2>1, <2>2, <2>3, <2>4, <2>5, <2>6, <2>7 DEF Scenes
<1>7. QED
  BY <1>1, <1>2, <1>3, <1>4, <1>5, <1>6, PartsKeepTheirSpecs, DirectoryTypeCorrect,
     LimiterTypeCorrect, FiguresTypeCorrect, TrailTypeCorrect, MailingTypeCorrect,
     OcrTypeCorrect, PTL DEF Spec

=============================================================================
