---------------------------- MODULE RateLimiter ----------------------------
(***************************************************************************)
(* The partner route's throttle: a deque of the hits of one key, pruned    *)
(* and counted under a lock by threads that read the clock before they     *)
(* take it.  Time stamps are therefore neither ordered in the deque nor    *)
(* the times at which calls are let in; MaxWait bounds how far the two are *)
(* apart.  State is kept in memory: a restart forgets it.                  *)
(***************************************************************************)
EXTENDS Integers, Sequences

CONSTANTS
  Workers,      \* threads serving partner requests at once
  MaxEvents, Window,
  MaxWait,      \* the longest a thread waits between clock and lock
  LastInstant,  \* bound: the clock runs from Window to LastInstant
  MaxReboots,   \* bound
  NotWaiting

ASSUME LimiterAssumption ==
  /\ {MaxEvents, Window, MaxWait} \subseteq Nat
  /\ MaxWait < Window
  /\ NotWaiting \notin Nat

VARIABLES
  clock,     \* time.monotonic()
  hits,      \* the deque of the key
  stamp,     \* stamp[w]: the time w read, while it waits for the lock
  admitted,  \* history: when calls were let in by this process
  reboots

limiterVars == <<clock, hits, stamp, admitted, reboots>>

LimiterTypeOK ==
  /\ clock \in Nat /\ reboots \in Nat
  /\ hits \in Seq(Nat) /\ Len(hits) <= MaxEvents
  /\ stamp \in [Workers -> Nat \cup {NotWaiting}]
  /\ admitted \in Seq(Nat)

LimiterInit ==
  /\ clock = Window
  /\ hits = <<>> /\ admitted = <<>>
  /\ stamp = [w \in Workers |-> NotWaiting]
  /\ reboots = 0

\* authenticate_partner let the caller in; now = time.monotonic().
ReadClock(w) ==
  /\ stamp[w] = NotWaiting
  /\ stamp' = [stamp EXCEPT ![w] = clock]
  /\ UNCHANGED <<clock, hits, admitted, reboots>>

\* (Mutant: hits that are one instant inside the window are pruned, too.)
PruneEarly(queue, now) ==
  LET inside == {i \in DOMAIN queue : queue[i] + Window > now + 1}
  IN IF inside = {} THEN <<>>
     ELSE SubSeq(queue, CHOOSE i \in inside : \A k \in inside : i <= k, Len(queue))

\* Hits leave from the front for as long as the first is out of the window;
\* one that is out of order may be kept behind a later one.
Prune(queue, now) ==
  LET inside == {i \in DOMAIN queue : queue[i] + Window > now}
  IN IF inside = {} THEN <<>>
     ELSE SubSeq(queue, CHOOSE i \in inside : \A k \in inside : i <= k, Len(queue))

\* (Mutant: one more than the limit.)
AllowOneMore(w) ==
  /\ stamp[w] # NotWaiting
  /\ LET kept == Prune(hits, stamp[w]) IN
       IF Len(kept) > MaxEvents
         THEN hits' = kept /\ UNCHANGED admitted
         ELSE hits' = Append(kept, stamp[w]) /\ admitted' = Append(admitted, clock)
  /\ stamp' = [stamp EXCEPT ![w] = NotWaiting]
  /\ UNCHANGED <<clock, reboots>>

\* The critical section; a refused call is answered with 429.
Allow(w) ==
  /\ stamp[w] # NotWaiting
  /\ LET kept == Prune(hits, stamp[w]) IN
       IF Len(kept) >= MaxEvents
         THEN hits' = kept /\ UNCHANGED admitted
         ELSE hits' = Append(kept, stamp[w]) /\ admitted' = Append(admitted, clock)
  /\ stamp' = [stamp EXCEPT ![w] = NotWaiting]
  /\ UNCHANGED <<clock, reboots>>

\* Nobody waits longer than MaxWait.
Pass ==
  /\ clock < LastInstant
  /\ \A w \in Workers : stamp[w] # NotWaiting => clock < stamp[w] + MaxWait
  /\ clock' = clock + 1
  /\ UNCHANGED <<hits, stamp, admitted, reboots>>

Reboot ==
  /\ reboots < MaxReboots
  /\ reboots' = reboots + 1
  /\ hits' = <<>> /\ admitted' = <<>>
  /\ stamp' = [w \in Workers |-> NotWaiting]
  /\ UNCHANGED clock

LimiterNext ==
  \/ \E w \in Workers : ReadClock(w) \/ Allow(w)
  \/ Pass
  \/ Reboot

LimiterSpec == LimiterInit /\ [][LimiterNext]_limiterVars

-----------------------------------------------------------------------------
\* "Allow at most max_events per window_seconds", of one process, up to the
\* wait for the lock: no more are let in within any span that is shorter than
\* the window by that wait.
WindowHolds ==
  \A i, j \in DOMAIN admitted :
    j >= i + MaxEvents => admitted[j] - admitted[i] >= Window - MaxWait

=============================================================================
