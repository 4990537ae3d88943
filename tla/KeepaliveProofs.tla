-------------------------- MODULE KeepaliveProofs --------------------------
(***************************************************************************)
(* The longest silence of the keepalive thread, for every interval, answer *)
(* time and delay, and for any number of callers.                          *)
(***************************************************************************)
EXTENDS Keepalive, TLAPS

LEMMA ConstantTypes ==
  /\ Interval \in Nat /\ PingTimeout \in Nat /\ Inactivity \in Nat
  /\ Reply \in Nat /\ Late \in Nat /\ Slack \in Nat
  /\ MaxNow \in Nat /\ MaxAllow \in Nat
  /\ Interval > 0
  /\ Rest \in Nat /\ Rest >= Interval /\ Rest >= Reply
  /\ Quiet \in Nat /\ Quiet = Interval + Rest + Late + Slack
  /\ LostPing \in Nat /\ LostPing = Quiet + PingTimeout + Late
  /\ None = -1
<1>1. /\ Interval \in Nat /\ PingTimeout \in Nat /\ Inactivity \in Nat
      /\ Reply \in Nat /\ Late \in Nat /\ Slack \in Nat
      /\ MaxNow \in Nat /\ MaxAllow \in Nat /\ Interval > 0
  BY KeepaliveAssumption
<1>2. Rest \in Nat /\ Rest >= Interval /\ Rest >= Reply
  BY <1>1 DEF Rest
<1> QED BY <1>1, <1>2 DEF Quiet, LostPing, None

\* The bound is a consequence of the invariant: of the thread's wait, or of the
\* caller that covers it, or of its command.
LEMMA GapInvBounds == GapInv => GapBound
<1> SUFFICES ASSUME GapInv, up PROVE now - heard <= Quiet + allow
  BY DEF GapBound
<1> USE ConstantTypes DEF GapInv, TypeOK
<1>1. CASE Covered
  <2>1. PICK u \in Users :
          marked[u] # None /\ marked[u] - heard <= Interval + Rest + Late + allow
    BY <1>1 DEF Covered
  <2>2. now <= marked[u] + Slack
    BY <2>1 DEF ClockInv
  <2>3. marked[u] \in Int
    BY <2>1
  <2> QED BY <2>1, <2>2, <2>3
<1>2. CASE kpc = "wait" /\ ~Covered
  <2>1. now <= due + Late /\ due - Interval - heard <= Rest + allow
    BY <1>2 DEF WaitInv
  <2> QED BY <2>1
<1>3. CASE Asking
  <2>1. now - heard <= Rest + allow
    BY <1>3 DEF AskInv
  <2> QED BY <2>1
<1>4. kpc # "reopen"
  BY DEF ClockInv
<1> QED BY <1>1, <1>2, <1>3, <1>4 DEF Asking

\* Who covers the thread goes on to, when the caller's stamp and the device
\* have not moved and the allowance has not shrunk.
LEMMA CoveredStays ==
  ASSUME TypeOK, Covered, heard' = heard, allow' \in Nat, allow <= allow',
         \A u \in Users : marked[u] # None => marked'[u] = marked[u]
  PROVE  Covered'
<1> USE ConstantTypes DEF TypeOK
<1>1. PICK u \in Users :
        marked[u] # None /\ marked[u] - heard <= Interval + Rest + Late + allow
  BY DEF Covered
<1>2. marked[u] \in Int /\ marked'[u] = marked[u]
  BY <1>1
<1>3. marked'[u] - heard' <= Interval + Rest + Late + allow'
  BY <1>1, <1>2
<1>4. marked'[u] # None
  BY <1>1, <1>2
<1> QED BY <1>3, <1>4 DEF Covered

LEMMA InitGap == Init => GapInv
<1> SUFFICES ASSUME Init PROVE GapInv
  OBVIOUS
<1> USE ConstantTypes DEF Init
<1>1. TypeOK
  BY DEF TypeOK
<1>2. ClockInv
  BY DEF ClockInv, Asking
<1>3. WaitInv
  BY DEF WaitInv
<1>4. AskInv
  BY DEF AskInv, Asking
<1> QED BY <1>1, <1>2, <1>3, <1>4 DEF GapInv

-----------------------------------------------------------------------------
(* Time and the world                                                      *)

LEMMA TickGap == ASSUME GapInv, Tick PROVE GapInv'
<1> USE ConstantTypes DEF GapInv
<1>1. TypeOK'
  BY DEF TypeOK, Tick
<1>2. ClockInv'
  BY DEF TypeOK, Tick, ClockInv, Asking
<1>3. WaitInv'
  <2> SUFFICES ASSUME kpc = "wait" PROVE WaitInv'
    BY DEF WaitInv, Tick
  <2>1. Covered => Covered'
    BY CoveredStays DEF Tick, TypeOK
  <2>2. due' <= now' + Interval /\ now' <= due' + Late
    BY DEF WaitInv, Tick, TypeOK
  <2>3. up' => due' - Interval - heard' <= Rest + allow' \/ Covered'
    BY <2>1 DEF WaitInv, Tick
  <2>4. up' /\ last' > due' - Interval => last' - heard' <= allow' \/ Covered'
    BY <2>1 DEF WaitInv, Tick
  <2> QED BY <2>2, <2>3, <2>4 DEF WaitInv
<1>4. AskInv'
  BY DEF TypeOK, Tick, AskInv, Asking
<1> QED BY <1>1, <1>2, <1>3, <1>4

LEMMA ForgetsGap == ASSUME GapInv, Forgets PROVE GapInv'
<1> USE ConstantTypes DEF GapInv
<1>1. Covered => Covered'
  BY DEF Covered, Forgets
<1> QED BY <1>1 DEF TypeOK, ClockInv, WaitInv, AskInv, Asking, Forgets

LEMMA DropsGap == ASSUME GapInv, Drops PROVE GapInv'
<1> USE ConstantTypes DEF GapInv, Drops
<1>0. /\ kpc' \in {"wait", "ping", "apply", "reopen"}
      /\ due' \in Nat
  BY DEF TypeOK, Waits
<1>1. TypeOK'
  BY <1>0 DEF TypeOK
<1>2. ClockInv'
  BY DEF TypeOK, ClockInv, Asking, Waits
<1>3. WaitInv' /\ AskInv'
  BY DEF TypeOK, ClockInv, WaitInv, AskInv, Asking, Waits
<1> QED BY <1>1, <1>2, <1>3

LEMMA ReopensGap == ASSUME GapInv, Reopens PROVE GapInv'
<1> USE ConstantTypes DEF GapInv, Reopens
<1>1. TypeOK'
  BY DEF TypeOK, Waits
<1>2. ClockInv'
  BY DEF TypeOK, ClockInv, Asking, Waits
<1>3. WaitInv'
  BY DEF TypeOK, ClockInv, WaitInv, Waits
<1>4. AskInv'
  BY DEF ClockInv, AskInv, Asking, Waits
<1> QED BY <1>1, <1>2, <1>3, <1>4

-----------------------------------------------------------------------------
(* Callers                                                                 *)

\* A caller that stamps while the session is up covers the thread's next wait.
LEMMA UserMarksGap == ASSUME GapInv, NEW u \in Users, UserMarks(u) PROVE GapInv'
<1> USE ConstantTypes DEF GapInv, UserMarks
<1>1. TypeOK'
  BY DEF TypeOK
<1>2. ClockInv'
  BY DEF TypeOK, ClockInv, Asking
<1>3. WaitInv'
  <2> SUFFICES ASSUME kpc = "wait" PROVE WaitInv'
    BY DEF WaitInv
  <2>1. Covered => Covered'
    BY CoveredStays DEF TypeOK
  <2>2. ASSUME up, ~Covered PROVE Covered'
    <3>1. now - heard <= Interval + Rest + Late + allow
      BY <2>2 DEF WaitInv, TypeOK
    <3>2. marked'[u] = now /\ now # None
      BY <2>2 DEF TypeOK
    <3> QED BY <3>1, <3>2 DEF Covered
  <2> QED BY <2>1, <2>2 DEF WaitInv
<1>4. AskInv'
  BY DEF AskInv, Asking
<1> QED BY <1>1, <1>2, <1>3, <1>4

LEMMA UserWritesGap == ASSUME GapInv, NEW u \in Users, UserWrites(u) PROVE GapInv'
<1> USE ConstantTypes DEF GapInv, UserWrites, Hears
<1>1. TypeOK'
  BY DEF TypeOK
<1>2. ClockInv'
  BY DEF TypeOK, ClockInv, Asking
<1>3. WaitInv'
  BY DEF TypeOK, ClockInv, WaitInv, Asking
<1>4. AskInv'
  BY DEF TypeOK, ClockInv, AskInv, Asking
<1> QED BY <1>1, <1>2, <1>3, <1>4

LEMMA UserUnheardGap == ASSUME GapInv, NEW u \in Users, UserUnheard(u) PROVE GapInv'
<1> USE ConstantTypes DEF GapInv, UserUnheard, Allow
<1>1. TypeOK'
  BY DEF TypeOK
<1>2. ClockInv'
  BY DEF TypeOK, ClockInv, Asking
<1>3. up /\ now - heard <= allow'
  BY GapInvBounds DEF GapBound, ClockInv, TypeOK
<1>4. WaitInv'
  BY <1>3 DEF TypeOK, ClockInv, WaitInv
<1>5. AskInv'
  BY DEF TypeOK, AskInv, Asking
<1> QED BY <1>1, <1>2, <1>4, <1>5

-----------------------------------------------------------------------------
(* The thread                                                              *)

LEMMA AskGap ==
  ASSUME GapInv, up, NEW step \in {"ping", "apply"}, NEW c \in BOOLEAN, Ask(step, c),
         UNCHANGED <<now, last, marked, up>>
  PROVE  GapInv'
<1> USE ConstantTypes DEF GapInv
<1>1. TypeOK'
  BY DEF TypeOK, Ask, Allow
<1>2. ClockInv'
  BY DEF TypeOK, ClockInv, Ask, Asking
<1>3. WaitInv'
  BY DEF WaitInv, Ask
<1>4. AskInv'
  BY GapInvBounds DEF TypeOK, ClockInv, AskInv, Ask, Asking, Allow, GapBound
<1> QED BY <1>1, <1>2, <1>3, <1>4

\* A stamp younger than the interval is younger than the wait that ends, so
\* it is a caller's, and the caller was heard or is about to be.
LEMMA KeeperSkipsGap == ASSUME GapInv, KeeperSkips PROVE GapInv'
<1> USE ConstantTypes DEF GapInv, KeeperSkips, Awake, Waits
<1>1. TypeOK'
  BY DEF TypeOK
<1>2. ClockInv'
  BY DEF TypeOK, ClockInv, Asking
<1>3. WaitInv'
  <2>1. Covered => Covered'
    BY CoveredStays DEF TypeOK
  <2>2. last > due - Interval
    BY DEF TypeOK, Fresh
  <2>3. now - heard <= Rest + allow \/ Covered
    BY <2>2 DEF TypeOK, WaitInv, Fresh
  <2> QED BY <2>1, <2>3 DEF TypeOK, WaitInv, ClockInv
<1>4. AskInv'
  BY DEF AskInv, Asking
<1> QED BY <1>1, <1>2, <1>3, <1>4

LEMMA KeeperReopensGap == ASSUME GapInv, KeeperReopens PROVE GapInv'
<1> USE ConstantTypes DEF GapInv, KeeperReopens, EntersRecovery, Awake
<1> QED BY DEF TypeOK, ClockInv, WaitInv, AskInv, Asking

\* The thread goes back to its wait soon after the device was heard, or late by
\* what the allowance covers.
LEMMA BackToWait ==
  ASSUME GapInv, Asking, Waits, reply = "none" => now >= due,
         last' \in {last, now}, UNCHANGED <<now, marked, up, reply, heard, conf, allow>>
  PROVE  GapInv'
<1> USE ConstantTypes DEF GapInv, Waits
<1>1. TypeOK'
  BY DEF TypeOK
<1>2. ClockInv'
  BY DEF TypeOK, ClockInv, Asking
<1>3. now - heard <= Rest + allow
  BY DEF TypeOK, AskInv
<1>4. WaitInv'
  <2>1. due' = now + Interval /\ last' <= now /\ now \in Nat
    BY DEF TypeOK, ClockInv
  <2>2. due' - Interval = now /\ due' <= now + Interval /\ now <= due' + Late
    BY <2>1
  <2>3. due' - Interval - heard <= Rest + allow
    BY <1>3, <2>2
  <2>4. ~(last' > due' - Interval)
    BY <1>1, <2>1, <2>2 DEF TypeOK
  <2> QED BY <2>2, <2>3, <2>4 DEF WaitInv
<1>5. AskInv'
  BY DEF AskInv, Asking
<1> QED BY <1>1, <1>2, <1>4, <1>5

LEMMA NextGap == GapInv /\ [Next]_vars => GapInv'
<1> SUFFICES ASSUME GapInv, [Next]_vars PROVE GapInv'
  OBVIOUS
<1>1. CASE Tick
  BY <1>1, TickGap
<1>2. CASE Forgets
  BY <1>2, ForgetsGap
<1>3. CASE Drops
  BY <1>3, DropsGap
<1>4. CASE Reopens
  BY <1>4, ReopensGap
<1>5. ASSUME NEW u \in Users, UserMarks(u) \/ UserWrites(u) \/ UserUnheard(u)
      PROVE GapInv'
  BY <1>5, UserMarksGap, UserWritesGap, UserUnheardGap
<1>6. CASE KeeperSkips
  BY <1>6, KeeperSkipsGap
<1>7. CASE KeeperPings
  BY <1>7, AskGap DEF KeeperPings, GapInv, TypeOK
<1>8. CASE KeeperReopens
  BY <1>8, KeeperReopensGap
<1>9. CASE PingAnswered
  BY <1>9, BackToWait DEF PingAnswered, Asking
<1>10. CASE PingUnconfigured
  BY <1>10, AskGap DEF PingUnconfigured, GapInv, ClockInv, Asking
<1>11. CASE Reapplied
  BY <1>11, BackToWait DEF Reapplied, Asking
<1>12. CASE KeeperTimesOut
  BY <1>12, BackToWait DEF KeeperTimesOut
<1>13. CASE UNCHANGED vars
  <2>1. Covered => Covered'
    BY <1>13 DEF Covered, vars
  <2> QED BY <1>13, <2>1 DEF vars, GapInv, TypeOK, ClockInv, WaitInv, AskInv, Asking
<1> QED BY <1>1, <1>2, <1>3, <1>4, <1>5, <1>6, <1>7, <1>8, <1>9, <1>10, <1>11,
           <1>12, <1>13 DEF Next

THEOREM GapInvHolds == Spec => []GapInv
<1> QED BY InitGap, NextGap, PTL DEF Spec

-----------------------------------------------------------------------------
(* The properties                                                          *)

\* Every variable has its type in every behaviour.
THEOREM TypeCorrect == Spec => []TypeOK
<1>1. GapInv => TypeOK
  BY DEF GapInv
<1> QED BY <1>1, GapInvHolds, PTL

\* The device hears something at least every 2 * Interval + Late + Slack (with
\* answers that take no longer than the interval), whatever callers do; what is
\* lost adds its allowance.  For the code's 500 ms that is the whole second
\* after which the device forgets, and the delays come on top.
THEOREM GapBoundHolds == Spec => []GapBound
<1> QED BY GapInvHolds, GapInvBounds, PTL

\* A device that waits longer than that is never let down while nothing is
\* lost: what dongle.py:28-30 means by a margin holds from there on only.
THEOREM HeardInTimeHolds ==
  ASSUME Inactivity > Quiet
  PROVE  Spec => []HeardInTime
<1>1. TypeOK /\ GapBound => HeardInTime
  BY ConstantTypes DEF TypeOK, GapBound, HeardInTime
<1> QED BY <1>1, TypeCorrect, GapBoundHolds, PTL
=============================================================================
