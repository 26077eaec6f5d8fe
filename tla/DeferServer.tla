---------------------------- MODULE DeferServer ----------------------------
(***************************************************************************)
(* The defer-transaction scheduler of the transaction pool                 *)
(* (src/core/txpool/defer.go).  A red-black tree of index entries          *)
(* (trigger time, referred hash) is shared by                              *)
(*   - the ticker goroutine deferTicker, which sleeps until the time held  *)
(*     in the atomic nextScheduleTime, then hands every due entry to       *)
(*     txpool.AddDefertx;                                                  *)
(*   - the txpool goroutine, which calls StoreDeferTx (insert, and restart *)
(*     the ticker if the new entry is earlier than nextScheduleTime) and   *)
(*     DelDeferTx;                                                         *)
(*   - the node's shutdown path, which calls Stop.                         *)
(* Stopping a ticker is a hand-shake over the unbuffered channel quitCh:   *)
(* the stopper sends, the ticker receives in its select and sends back,    *)
(* the stopper receives.  Every send/receive pair on quitCh is one         *)
(* rendezvous step between any ready sender and any ready receiver, as Go  *)
(* pairs them.                                                             *)
(*                                                                         *)
(* Time is an integer clock in units of minTickerTime (one second).        *)
(* An index entry is a pair <<time, hash>>; hashes are small integers so   *)
(* the tree order of compareDeferTx can be stated.                         *)
(***************************************************************************)
EXTENDS Integers, FiniteSets, FiniteSetsExt

CONSTANTS
  Entries,       \* the index entries <<trigger time, referred hash>> that may ever be stored
  InitPool,      \* entries rebuilt from the chain by buildIndex at start-up
  Tickers,       \* identities for ticker goroutines (one is started, the others may be spawned)
  StoreCallers,  \* goroutines calling StoreDeferTx / DelDeferTx (the txpool loop)
  StopCallers,   \* goroutines calling Stop (the shutdown path); may be empty
  AddResults,    \* outcomes txpool.AddDefertx may return: "ok", "dup", "full", "other"
  MinTick,       \* minTickerTime in clock units
  MaxTime        \* bound on the clock

ASSUME
  /\ Entries \subseteq (Nat \X Nat)
  /\ InitPool \subseteq Entries
  /\ Tickers # {}
  /\ StoreCallers \cap StopCallers = {}
  /\ AddResults \subseteq {"ok", "dup", "full", "other"}
  /\ MinTick \in Nat \ {0}
  /\ MaxTime \in Nat

Callers == StoreCallers \cup StopCallers

\* math.MaxInt64, stored in nextScheduleTime when the tree is exhausted:
\* later than any time the clock reaches.
Never == MaxTime + MinTick + 1

NoEntry == <<-1, -1>>

\* The ticker started by Start.
FirstTicker == CHOOSE t \in Tickers : TRUE

VARIABLES
  pool,       \* the red-black tree d.pool, as the set of its keys
  next,       \* d.nextScheduleTime
  now,        \* time.Now(), in clock units
  tpc,        \* control point of each ticker goroutine
  wake,       \* the time the ticker's time.After(scheduled) fires
  cur,        \* the entry the ticker's iterator points at
  cpc,        \* control point of each caller goroutine
  arg         \* the index entry a StoreDeferTx call is working on

vars == <<pool, next, now, tpc, wake, cur, cpc, arg>>

TickerStates == {"unborn", "top", "sleep", "loop", "endLoop", "reply", "exited"}
CallerStates == {"idle", "load", "store", "send", "recv", "spawn", "done"}

Live(t) == tpc[t] \notin {"unborn", "exited"}

-----------------------------------------------------------------------------
(* The tree order: compareDeferTx orders by Time, then by hash bytes.      *)
compareDeferTx(a, b) == a[1] < b[1] \/ (a[1] = b[1] /\ a[2] < b[2])

\* The leftmost key of a non-empty tree.
First(S) == CHOOSE x \in S : \A y \in S \ {x} : compareDeferTx(x, y)

\* iter.Next() after key e: the least key of the tree greater than e.
Successor(S, e) == LET G == {x \in S : compareDeferTx(e, x)}
                   IN IF G = {} THEN NoEntry ELSE First(G)

-----------------------------------------------------------------------------
Init ==
  /\ pool = InitPool
  /\ next = 0
  /\ now = 0
  /\ tpc = [t \in Tickers |-> IF t = FirstTicker THEN "top" ELSE "unborn"]
  /\ wake = [t \in Tickers |-> 0]
  /\ cur = [t \in Tickers |-> NoEntry]
  /\ cpc = [c \in Callers |-> "idle"]
  /\ arg = [c \in Callers |-> NoEntry]

(* ---- StoreDeferTx ---------------------------------------------------- *)
\* Insert the index under the write lock.
StoreInsert(c, e) ==
  /\ c \in StoreCallers
  /\ cpc[c] = "idle"
  /\ e \in Entries
  /\ pool' = pool \cup {e}
  /\ arg' = [arg EXCEPT ![c] = e]
  /\ cpc' = [cpc EXCEPT ![c] = "load"]
  /\ UNCHANGED <<next, now, tpc, wake, cur>>

\* idx.Time < d.nextScheduleTime.Load(): a plain load, not a compare-and-swap.
StoreLoad(c) ==
  /\ cpc[c] = "load"
  /\ cpc' = [cpc EXCEPT ![c] = IF arg[c][1] < next THEN "store" ELSE "idle"]
  /\ UNCHANGED <<pool, next, now, tpc, wake, cur, arg>>

\* d.nextScheduleTime.Store(idx.Time), then restartDeferTicker.
StoreNext(c) ==
  /\ cpc[c] = "store"
  /\ next' = arg[c][1]
  /\ cpc' = [cpc EXCEPT ![c] = "send"]
  /\ UNCHANGED <<pool, now, tpc, wake, cur, arg>>

\* go d.deferTicker() at the end of restartDeferTicker.  The new goroutine
\* takes an identity no running ticker holds: a never-started one or one
\* whose goroutine has returned.
Spawn(c) ==
  /\ cpc[c] = "spawn"
  /\ \E t \in Tickers : ~Live(t)
  /\ LET t == CHOOSE u \in Tickers : ~Live(u)
     IN tpc' = [tpc EXCEPT ![t] = "top"]
  /\ cpc' = [cpc EXCEPT ![c] = "idle"]
  /\ UNCHANGED <<pool, next, now, wake, cur, arg>>

(* ---- DelDeferTx and Stop --------------------------------------------- *)
DelDeferTx(c, e) ==
  /\ c \in StoreCallers
  /\ cpc[c] = "idle"
  /\ e \in Entries
  /\ pool' = pool \ {e}
  /\ UNCHANGED <<next, now, tpc, wake, cur, cpc, arg>>

\* Stop calls stopDeferTicker: send on quitCh, then receive the reply.
Stop(c) ==
  /\ c \in StopCallers
  /\ cpc[c] = "idle"
  /\ cpc' = [cpc EXCEPT ![c] = "send"]
  /\ UNCHANGED <<pool, next, now, tpc, wake, cur, arg>>

(* ---- quitCh ------------------------------------------------------------ *)
\* Goroutines blocked sending on quitCh: stoppers, and tickers replying.
Senders == {c \in Callers : cpc[c] = "send"} \cup {t \in Tickers : tpc[t] = "reply"}
\* Goroutines ready to receive: stoppers awaiting the reply, and tickers in
\* their select (the case <-d.quitCh).
Receivers == {c \in Callers : cpc[c] = "recv"} \cup {t \in Tickers : tpc[t] = "sleep"}

\* Fault: the ticker returns on quit without sending the reply.
RendezvousNoReply(s, r) ==
  /\ s \in Senders /\ r \in Receivers /\ s # r
  /\ cpc' = [c \in Callers |->
               IF c = s THEN "recv"
               ELSE IF c = r THEN (IF c \in StopCallers THEN "done" ELSE "spawn")
               ELSE cpc[c]]
  /\ tpc' = [t \in Tickers |->
               IF t = s \/ t = r THEN "exited" ELSE tpc[t]]
  /\ UNCHANGED <<pool, next, now, wake, cur, arg>>

\* One send paired with one receive.  A stopper that has sent goes on to
\* receive; a ticker that has replied returns; a stopper that has received
\* goes on (restart spawns, Stop is done); a ticker that has received replies.
Rendezvous(s, r) ==
  /\ s \in Senders /\ r \in Receivers /\ s # r
  /\ cpc' = [c \in Callers |->
               IF c = s THEN "recv"
               ELSE IF c = r THEN (IF c \in StopCallers THEN "done" ELSE "spawn")
               ELSE cpc[c]]
  /\ tpc' = [t \in Tickers |->
               IF t = s THEN "exited" ELSE IF t = r THEN "reply" ELSE tpc[t]]
  /\ UNCHANGED <<pool, next, now, wake, cur, arg>>

(* ---- deferTicker ----------------------------------------------------- *)
\* Fault: minTickerTime is added to the schedule instead of bounding it.
TickerTopPad(t) ==
  /\ tpc[t] = "top"
  /\ wake' = [wake EXCEPT ![t] = next + MinTick]
  /\ tpc' = [tpc EXCEPT ![t] = "sleep"]
  /\ UNCHANGED <<pool, next, now, cur, cpc, arg>>

\* Loop head: scheduled := max(nextScheduleTime - now, minTickerTime).
TickerTop(t) ==
  /\ tpc[t] = "top"
  /\ wake' = [wake EXCEPT ![t] = Max({next, now + MinTick})]
  /\ tpc' = [tpc EXCEPT ![t] = "sleep"]
  /\ UNCHANGED <<pool, next, now, cur, cpc, arg>>

\* time.After fires: take a fresh iterator and its first key.
TickerFire(t) ==
  /\ tpc[t] = "sleep"
  /\ now >= wake[t]
  /\ cur' = [cur EXCEPT ![t] = IF pool = {} THEN NoEntry ELSE First(pool)]
  /\ tpc' = [tpc EXCEPT ![t] = IF pool = {} THEN "endLoop" ELSE "loop"]
  /\ UNCHANGED <<pool, next, now, wake, cpc, arg>>

\* The current key is not due yet: store its time and break.
TickerNotDue(t) ==
  /\ tpc[t] = "loop"
  /\ cur[t][1] > now
  /\ next' = cur[t][1]
  /\ tpc' = [tpc EXCEPT ![t] = "top"]
  /\ UNCHANGED <<pool, now, wake, cur, cpc, arg>>

\* Fault: ErrCacheFull leaves the loop as if the tree were exhausted.
TickerCacheFullEnd(t) ==
  /\ tpc[t] = "loop"
  /\ cur[t][1] <= now
  /\ "full" \in AddResults
  /\ next' = Never
  /\ tpc' = [tpc EXCEPT ![t] = "top"]
  /\ UNCHANGED <<pool, now, wake, cur, cpc, arg>>

\* AddDefertx returns ErrCacheFull: store the key's time and break.
TickerCacheFull(t) ==
  /\ tpc[t] = "loop"
  /\ cur[t][1] <= now
  /\ "full" \in AddResults
  /\ next' = cur[t][1]
  /\ tpc' = [tpc EXCEPT ![t] = "top"]
  /\ UNCHANGED <<pool, now, wake, cur, cpc, arg>>

\* Moving the iterator on: the next key, or the end of the tree.
Advance(t, S) ==
  LET s == Successor(S, cur[t])
  IN /\ cur' = [cur EXCEPT ![t] = s]
     /\ tpc' = [tpc EXCEPT ![t] = IF s = NoEntry THEN "endLoop" ELSE "loop"]

\* AddDefertx returns nil or a dup error: remove the key, go to the next.
TickerAdded(t) ==
  /\ tpc[t] = "loop"
  /\ cur[t][1] <= now
  /\ AddResults \cap {"ok", "dup"} # {}
  /\ pool' = pool \ {cur[t]}
  /\ Advance(t, pool')
  /\ UNCHANGED <<next, now, wake, cpc, arg>>

\* Any other error: keep the key, go to the next.
TickerAddFailed(t) ==
  /\ tpc[t] = "loop"
  /\ cur[t][1] <= now
  /\ "other" \in AddResults
  /\ Advance(t, pool)
  /\ UNCHANGED <<pool, next, now, wake, cpc, arg>>

\* The iterator is exhausted: nextScheduleTime := math.MaxInt64.
TickerEnd(t) ==
  /\ tpc[t] = "endLoop"
  /\ next' = Never
  /\ tpc' = [tpc EXCEPT ![t] = "top"]
  /\ UNCHANGED <<pool, now, wake, cur, cpc, arg>>

TickerBody(t) ==
  \/ TickerTop(t) \/ TickerNotDue(t) \/ TickerCacheFull(t)
  \/ TickerAdded(t) \/ TickerAddFailed(t) \/ TickerEnd(t)

(* ---- the clock ---------------------------------------------------------- *)
\* Time passes while no timer is overdue and no ticker is inside its loop
\* body: a timer fires at its deadline, and one pass over the due keys
\* takes far less than minTickerTime.
Tick ==
  /\ now < MaxTime
  /\ \A t \in Tickers :
        /\ tpc[t] \notin {"top", "loop", "endLoop"}
        /\ tpc[t] = "sleep" => now < wake[t]
  /\ now' = now + 1
  /\ UNCHANGED <<pool, next, tpc, wake, cur, cpc, arg>>

-----------------------------------------------------------------------------
Next ==
  \/ \E c \in Callers, e \in Entries : StoreInsert(c, e) \/ DelDeferTx(c, e)
  \/ \E c \in Callers : StoreLoad(c) \/ StoreNext(c) \/ Spawn(c) \/ Stop(c)
  \/ \E s, r \in Callers \cup Tickers : Rendezvous(s, r)
  \/ \E t \in Tickers : TickerFire(t) \/ TickerBody(t)
  \/ Tick

\* Goroutines that can run keep running (weak fairness); a select with a
\* ready quitCh case eventually takes it, because Go picks uniformly among
\* ready cases (strong fairness on each sender's rendezvous); the clock
\* keeps advancing.
Fairness ==
  /\ \A t \in Tickers : WF_vars(TickerBody(t)) /\ WF_vars(TickerFire(t))
  /\ \A c \in Callers : WF_vars(StoreLoad(c) \/ StoreNext(c) \/ Spawn(c))
  /\ \A c \in Callers : SF_vars(\E r \in Tickers : Rendezvous(c, r))
  /\ \A t \in Tickers : SF_vars(\E r \in Callers \cup Tickers : Rendezvous(t, r))
  /\ WF_vars(Tick)

Spec == Init /\ [][Next]_vars /\ Fairness

-----------------------------------------------------------------------------
TypeOK ==
  /\ pool \subseteq Entries
  /\ next \in 0..Never
  /\ now \in 0..MaxTime
  /\ tpc \in [Tickers -> TickerStates]
  /\ wake \in [Tickers -> 0..Never]
  /\ cur \in [Tickers -> Entries \cup {NoEntry}]
  /\ cpc \in [Callers -> CallerStates]
  /\ arg \in [Callers -> Entries \cup {NoEntry}]

\* Every restartDeferTicker started by StoreDeferTx returns: the stop
\* hand-shake on quitCh never leaves the txpool goroutine blocked.
RestartCompletes ==
  \A c \in StoreCallers : cpc[c] = "send" ~> cpc[c] = "idle"

\* Every Stop returns: its send on quitCh is taken by the ticker's select
\* and the ticker's reply is received.
StopCompletes ==
  \A c \in StopCallers : cpc[c] = "send" ~> cpc[c] = "done"

\* When nobody is inside StoreDeferTx and every ticker is asleep, a timer is
\* due no later than minTickerTime after the earliest key becomes due
\* (spec 8.5: a deferred tx is materialised no later than one slot after
\* its trigger time).
Quiet ==
  /\ \A c \in Callers : cpc[c] \in {"idle", "done"}
  /\ \A t \in Tickers : tpc[t] \in {"unborn", "sleep", "exited"}

WakeBeforeDue ==
  \A t \in Tickers :
     (tpc[t] = "sleep" /\ pool # {}) =>
        wake[t] <= Max({First(pool)[1], now}) + MinTick

\* Once Stop has returned, no deferTicker goroutine is left running.
StopLeavesNoTicker ==
  (\E c \in StopCallers : cpc[c] = "done") => \A t \in Tickers : ~Live(t)

=============================================================================
