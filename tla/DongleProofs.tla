---------------------------- MODULE DongleProofs ----------------------------
(***************************************************************************)
(* The safety properties of the Dongle, for any users, at most one          *)
(* keepalive thread, and any number of sessions.                           *)
(***************************************************************************)
EXTENDS Dongle, FiniteSetTheorems, TLAPS

-----------------------------------------------------------------------------
(* The inductive invariant                                                 *)

\* Inside _recover_session_locked; before it has a new session; inside
\* _ensure_session_alive.
Unreplaced == {"reopen", "opening", "backoff", "install"}
Recovering == Unreplaced \cup {"adopt", "restart"}
Ensuring == Recovering \cup {"ensure", "lock"}

\* The lock is held by the thread that recovers, which has closed the session it
\* found.
LockInv ==
  \A t \in Threads :
    /\ pc[t] \in Recovering <=> lock = t
    /\ pc[t] \in Unreplaced => status[session] = "closed"

BirthInv == \A s \in Sessions : status[s] = "unborn" <=> s > nsess

CloseOK(t) == pc[t] \in {"stop", "shut"} => dclosed

\* A command is under way, or over and its result not yet looked at, only at
\* the sites, and on a session that was the Dongle's.
Clean(t) == call[t].wire = "none" /\ call[t].reply = "none"

CommandOK(t) ==
  /\ pc[t] \notin Sites => Clean(t)
  /\ call[t].wire = "none" \/ call[t].reply = "none"
  /\ Clean(t) \/ call[t].sess >= 1
  /\ call[t].sess <= session
  /\ pc[t] \in Ensuring => call[t].ret # "none"

\* What the device transmitted for a call: on no session but those in S.
Only(t, S) == \A s \in Sessions \ S : call[t].sent[s] = 0
Unsent(t) == Only(t, {})

\* On one session at most, which is dead.
Dead(s) == status[s] \in {"dead", "closed"}
Spent(t) ==
  \E a \in Sessions : Only(t, {a}) /\ (call[t].sent[a] # 0 => Dead(a))

Succeeded(t) == call[t].wire = "ok" \/ call[t].reply = "ok"
Refused(t) == call[t].wire = "NotConfigured" \/ call[t].reply = "NotConfigured"

\* The first attempt, and the second.
FirstOK(t) ==
  /\ Only(t, {call[t].sess})
  /\ Clean(t) \/ Refused(t) \/ call[t].wire = "sent" => Unsent(t)
  /\ call[t].op = "tx" /\ Succeeded(t) => call[t].sent[call[t].sess] = 1

SecondOK(t) ==
  /\ \E a \in Sessions : Only(t, {a, call[t].sess})
  /\ Clean(t) \/ call[t].wire = "sent" => Spent(t)
  /\ call[t].op = "tx" /\ Succeeded(t) => call[t].sent[call[t].sess] = 1

Retrying(t) == pc[t] \in Ensuring /\ call[t].ret = "again"

SentOK(t) ==
  /\ call[t].op # "tx" => Unsent(t)
  /\ pc[t] = "main" => FirstOK(t)
  /\ pc[t] = "again" => SecondOK(t)
  /\ Retrying(t) => Spent(t)
  /\ pc[t] \notin {"main", "again"} /\ ~Retrying(t) => Unsent(t)

ThreadOK(t) == CloseOK(t) /\ CommandOK(t) /\ SentOK(t)

SessionInv == LockInv /\ BirthInv /\ SupersededClosed
Inv == TypeOK /\ SessionInv /\ \A t \in Threads : ThreadOK(t)

-----------------------------------------------------------------------------
(* Lemmas                                                                  *)

LEMMA InitInv == Init => Inv
<1> SUFFICES ASSUME Init PROVE Inv
  OBVIOUS
<1> USE DongleAssumption DEF Init, Threads, Sessions
<1>1. NoCall \in Calls
  BY DEF NoCall, Calls
<1>2. TypeOK
  <2>1. call \in [Threads -> Calls]
    BY <1>1
  <2>2. pc \in [Threads -> Labels]
    BY DEF Labels, Sites
  <2>3. status \in [Sessions -> {"unborn", "up", "lost", "dead", "closed"}]
    OBVIOUS
  <2>4. /\ boot \in Boots /\ reopener \in BOOLEAN
        /\ {applied, devCfg, newCfg} \subseteq Configs \cup {NoConfig}
    OBVIOUS
  <2>5. session \in 1..nsess /\ nsess \in 1..MaxSessions
    OBVIOUS
  <2> QED BY <2>1, <2>2, <2>3, <2>4, <2>5 DEF TypeOK
<1>3. SessionInv
  BY DEF SessionInv, LockInv, BirthInv, SupersededClosed, Recovering, Unreplaced
<1>4. ASSUME NEW t \in Threads PROVE ThreadOK(t)
  <2>1. call[t] = NoCall /\ pc[t] \in {"idle", "sleep"}
    OBVIOUS
  <2>2. CloseOK(t) /\ CommandOK(t)
    BY <2>1 DEF CloseOK, CommandOK, Clean, Ensuring, Recovering, Unreplaced, NoCall
  <2>3. Unsent(t)
    BY <2>1 DEF Unsent, Only, NoCall
  <2>4. SentOK(t)
    BY <2>1, <2>3 DEF SentOK, Retrying, Ensuring, Recovering, Unreplaced
  <2> QED BY <2>2, <2>4 DEF ThreadOK
<1> QED BY <1>2, <1>3, <1>4 DEF Inv

\* What was sent on no session was sent on one at most.
LEMMA UnsentSpent == ASSUME NEW t, Unsent(t) PROVE Spent(t)
  BY DongleAssumption DEF Unsent, Spent, Only, Sessions

\* Time only adds to the dead sessions, and to the ordinal of the current one.
Onward ==
  /\ \A s \in Sessions : Dead(s) => Dead(s)'
  /\ session' >= session
  /\ dclosed => dclosed'

\* A thread that does nothing keeps its part of the invariant.
LEMMA OthersKept ==
  ASSUME TypeOK, TypeOK', Onward, NEW t \in Threads, ThreadOK(t),
         pc'[t] = pc[t], call'[t] = call[t]
  PROVE  ThreadOK(t)'
<1> USE DEF Onward
<1>1. Unsent(t)' = Unsent(t) /\ Clean(t)' = Clean(t) /\ Succeeded(t)' = Succeeded(t)
      /\ Refused(t)' = Refused(t) /\ Retrying(t)' = Retrying(t)
  BY DEF Unsent, Only, Clean, Succeeded, Refused, Retrying
<1>2. Spent(t) => Spent(t)'
  BY DEF Spent, Only
<1>3. FirstOK(t) => FirstOK(t)'
  BY <1>1 DEF FirstOK, Only
<1>4. SecondOK(t) => SecondOK(t)'
  BY <1>1, <1>2 DEF SecondOK, Only
<1>5. SentOK(t)'
  BY <1>1, <1>2, <1>3, <1>4 DEF SentOK, ThreadOK
<1>6. CloseOK(t)' /\ CommandOK(t)'
  BY <1>1 DEF CloseOK, CommandOK, ThreadOK, TypeOK, Calls
<1> QED BY <1>5, <1>6 DEF ThreadOK

\* A thread that goes on to a point where no command is under way.
LEMMA Arrives ==
  ASSUME TypeOK, TypeOK', Onward, NEW t \in Threads,
         call'[t].sent = call[t].sent, Clean(t)', call'[t].sess <= session',
         CloseOK(t)', pc'[t] \in Ensuring => call'[t].ret # "none",
         call'[t].op # "tx" => Unsent(t),
         IF pc'[t] = "again" \/ Retrying(t)' THEN Spent(t) ELSE Unsent(t)
  PROVE  ThreadOK(t)'
<1>1. Unsent(t) => Unsent(t)'
  BY DEF Unsent, Only
<1>2. Spent(t) => Spent(t)'
  BY DEF Spent, Only, Onward
<1>3. CommandOK(t)'
  BY DEF CommandOK, Clean
<1>4. FirstOK(t)' \/ pc'[t] # "main"
  BY <1>1 DEF FirstOK, Clean, Succeeded, Unsent, Only, Retrying, Ensuring, Recovering, Unreplaced
<1>5. SecondOK(t)' \/ pc'[t] # "again"
  BY <1>2 DEF SecondOK, Clean, Succeeded, Spent, Only
<1>6. SentOK(t)'
  BY <1>1, <1>2, <1>4, <1>5 DEF SentOK
<1> QED BY <1>3, <1>6 DEF ThreadOK

\* A thread inside _ensure_session_alive that goes on, or returns.
LEMMA Proceeds ==
  ASSUME TypeOK, TypeOK', Onward, NEW t \in Threads, ThreadOK(t),
         pc[t] \in Ensuring, pc'[t] \in Ensuring \cup {call[t].ret},
         call'[t].sent = call[t].sent, call'[t].op = call[t].op,
         call'[t].ret = call[t].ret, call'[t].sess <= call[t].sess, Clean(t)'
  PROVE  ThreadOK(t)'
<1>1. call[t].ret \notin Ensuring \cup {"stop", "shut", "none"}
  BY DEF TypeOK, Calls, ThreadOK, CommandOK, Ensuring, Recovering, Unreplaced
<1>2. CloseOK(t)' /\ call'[t].sess <= session'
  BY <1>1 DEF CloseOK, ThreadOK, CommandOK, TypeOK, Calls, Onward, Ensuring,
     Recovering, Unreplaced
<1>3. IF pc'[t] = "again" \/ Retrying(t)' THEN Spent(t) ELSE Unsent(t)
  BY <1>1 DEF ThreadOK, SentOK, Retrying, Ensuring, Recovering, Unreplaced
<1>4. call'[t].op # "tx" => Unsent(t)
  BY DEF ThreadOK, SentOK
<1> QED BY <1>1, <1>2, <1>3, <1>4, Arrives

\* A thread that is out of its method.
LEMMA Leaves ==
  ASSUME TypeOK, TypeOK', NEW t \in Threads,
         pc'[t] \in {"idle", "sleep", "gone"}, call'[t] = NoCall
  PROVE  ThreadOK(t)'
<1>1. Unsent(t)' /\ Clean(t)' /\ ~Retrying(t)'
  BY DEF Unsent, Only, Clean, Retrying, NoCall, Ensuring, Recovering, Unreplaced
<1>2. CommandOK(t)'
  BY <1>1 DEF CommandOK, Clean, NoCall, TypeOK, Ensuring, Recovering, Unreplaced
<1>3. CloseOK(t)' /\ SentOK(t)'
  BY <1>1 DEF CloseOK, SentOK
<1> QED BY <1>2, <1>3 DEF ThreadOK

LEMMA Others ==
  ASSUME Inv, TypeOK', SessionInv', Onward, NEW t \in Threads, ThreadOK(t)',
         \A u \in Threads \ {t} : pc'[u] = pc[u] /\ call'[u] = call[u]
  PROVE  Inv'
<1>1. ASSUME NEW u \in Threads PROVE ThreadOK(u)'
  BY OthersKept DEF Inv
<1> QED BY <1>1 DEF Inv

\* A thread that moves neither into the recovery nor out of it, nor from one part
\* of it to the other, leaves the sessions in order.
LEMMA SessionKept ==
  ASSUME Inv, NEW t \in Threads, UNCHANGED <<sessVars, lock>>,
         \A u \in Threads \ {t} : pc'[u] = pc[u],
         pc'[t] \in Recovering <=> pc[t] \in Recovering,
         pc'[t] \in Unreplaced => pc[t] \in Unreplaced,
         pc[t] = "install" => pc'[t] = "install", dclosed => dclosed'
  PROVE  SessionInv' /\ Onward
<1>1. LockInv' /\ BirthInv' /\ SupersededClosed'
  BY DEF Inv, SessionInv, LockInv, BirthInv, SupersededClosed, sessVars
<1>2. Onward
  BY DEF Inv, TypeOK, Onward, Dead, sessVars
<1> QED BY <1>1, <1>2 DEF SessionInv

-----------------------------------------------------------------------------
(* _ensure_session_alive and _recover_session_locked                       *)

\* A thread in the recovery that touches neither its call nor the sessions.
LEMMA RecoveryStep ==
  ASSUME Inv, TypeOK', SessionInv', Onward, NEW t \in Threads,
         pc[t] \in Ensuring \ Sites, UNCHANGED call,
         pc' = [pc EXCEPT ![t] = pc'[t]],
         pc'[t] \in Ensuring \cup {call[t].ret}
  PROVE  Inv'
<1>1. Clean(t)'
  BY DEF Inv, ThreadOK, CommandOK, Clean
<1>2. ThreadOK(t)'
  BY <1>1, Proceeds DEF Inv, TypeOK, Calls
<1>3. \A u \in Threads \ {t} : pc'[u] = pc[u] /\ call'[u] = call[u]
  BY DEF Inv, TypeOK
<1> QED BY <1>2, <1>3, Others

LEMMA NoCallType == NoCall \in Calls
  BY DongleAssumption DEF NoCall, Calls, Sessions

\* What a thread returns to is a place of its own.
LEMMA RetType ==
  ASSUME Inv, NEW t \in Threads, pc[t] \in Ensuring
  PROVE  call[t].ret \in {"main", "again", "recv", "end", "sleep"}
  BY DEF Inv, TypeOK, Calls, ThreadOK, CommandOK

LEMMA EnsureAliveInv ==
  ASSUME Inv, NEW t \in Threads, EnsureAlive(t) PROVE Inv'
<1> USE DEF EnsureAlive
<1>1. pc[t] \in Ensuring \ Sites
  BY DEF Ensuring, Sites
<1>2. call[t].ret \in {"main", "again", "recv", "end", "sleep"}
  BY <1>1, RetType
<1>3. CASE Leave(t)
  <2>1. /\ pc'[t] \in {"idle", "sleep"} /\ call'[t] = NoCall
        /\ \A u \in Threads \ {t} : pc'[u] = pc[u] /\ call'[u] = call[u]
    BY <1>3 DEF Leave, Goto, Inv, TypeOK
  <2>2. TypeOK'
    BY <1>3, NoCallType DEF Leave, Goto, Inv, TypeOK, Labels, Sites, sessVars,
       flagVars, devVars, built
  <2>3. SessionInv' /\ Onward
    BY <2>1, SessionKept DEF Recovering, Unreplaced, flagVars
  <2>4. ThreadOK(t)'
    BY <2>1, <2>2, Leaves DEF Inv
  <2> QED BY <2>1, <2>2, <2>3, <2>4, Others
<1>4. ASSUME NEW to \in {call[t].ret, "lock"}, Goto(t, to), UNCHANGED call PROVE Inv'
  <2>1. to \notin Recovering
    BY <1>2 DEF Recovering, Unreplaced
  <2>2. pc' = [pc EXCEPT ![t] = to] /\ pc'[t] = to
    BY <1>4 DEF Goto, Inv, TypeOK
  <2>3. TypeOK'
    BY <1>2, <1>4 DEF Goto, Inv, TypeOK, Labels, Sites, sessVars, flagVars, devVars, built
  <2>4. SessionInv' /\ Onward
    BY <2>1, <2>2, SessionKept DEF Recovering, Unreplaced, flagVars
  <2> QED BY <1>1, <1>4, <2>2, <2>3, <2>4, RecoveryStep DEF Ensuring
<1> QED BY <1>3, <1>4

LEMMA TakeLockInv ==
  ASSUME Inv, NEW t \in Threads, TakeLock(t) PROVE Inv'
<1> USE DEF TakeLock
<1>1. pc[t] \in Ensuring \ Sites /\ pc[t] \notin Recovering
  BY DEF Ensuring, Sites, Recovering, Unreplaced
<1>2. call[t].ret \in {"main", "again", "recv", "end", "sleep"}
  BY <1>1, RetType
<1>3. CASE IsAlive(session)
  <2>1. pc' = [pc EXCEPT ![t] = call[t].ret] /\ pc'[t] = call[t].ret
    BY <1>3 DEF Goto, Inv, TypeOK
  <2>2. TypeOK'
    BY <1>2, <1>3 DEF Goto, Inv, TypeOK, Labels, Sites, flagVars, devVars, built
  <2>3. SessionInv' /\ Onward
    BY <1>1, <1>2, <1>3, <2>1, SessionKept DEF Recovering, Unreplaced, flagVars, sessVars
  <2> QED BY <1>1, <2>1, <2>2, <2>3, RecoveryStep
<1>4. CASE ~IsAlive(session)
  <2>1. /\ pc' = [pc EXCEPT ![t] = "reopen"] /\ pc'[t] = "reopen"
        /\ \A u \in Threads \ {t} : pc'[u] = pc[u]
        /\ lock' = t
    BY <1>4 DEF Goto, Inv, TypeOK
  <2>2. /\ status' = [status EXCEPT ![session] = "closed"]
        /\ session \in Sessions /\ session \in 1..nsess
    BY <1>4, DongleAssumption DEF CloseOld, Inv, TypeOK, Sessions
  <2>3. TypeOK'
    BY <2>1, <2>2 DEF Inv, TypeOK, Labels, Sites, flagVars, devVars, built
  <2>4. Onward
    BY <2>2 DEF Onward, Dead, Inv, TypeOK, flagVars
  <2>5. \A u \in Threads : pc[u] \notin Recovering
    BY DongleAssumption DEF Inv, SessionInv, LockInv, Threads
  <2>6. LockInv'
    BY <2>1, <2>2, <2>5 DEF LockInv, Recovering, Unreplaced, Inv, TypeOK
  <2>7. BirthInv' /\ SupersededClosed'
    BY <2>1, <2>2, <2>5 DEF Inv, TypeOK, SessionInv, BirthInv, SupersededClosed,
       Recovering, Unreplaced, Sessions
  <2> QED BY <1>1, <2>1, <2>3, <2>4, <2>6, <2>7, RecoveryStep
          DEF SessionInv, Ensuring, Recovering, Unreplaced
<1> QED BY <1>3, <1>4

\* A thread that releases the lock on its way out.
LEMMA ReleaseInv ==
  ASSUME Inv, NEW t \in Threads, pc[t] \in Recovering \ {"install", "restart"}, Release(t),
         UNCHANGED <<built, sessVars, rxStarted, dclosed, kstop, devVars, call>>,
         {applied', newCfg'} \subseteq Configs \cup {NoConfig}
  PROVE  Inv'
<1>1. call[t].ret \in {"main", "again", "recv", "end", "sleep"}
  BY RetType DEF Ensuring
<1>2. /\ pc' = [pc EXCEPT ![t] = call[t].ret] /\ pc'[t] = call[t].ret
      /\ \A u \in Threads \ {t} : pc'[u] = pc[u]
      /\ lock = t /\ lock' = Nobody
  BY DEF Release, Goto, Inv, TypeOK, SessionInv, LockInv
<1>3. TypeOK'
  BY <1>1, <1>2 DEF Inv, TypeOK, Labels, Sites, sessVars, flagVars, devVars, built
<1>4. Onward
  BY DEF Onward, Dead, sessVars, Inv, TypeOK
<1>5. \A u \in Threads : pc'[u] \notin Recovering
  BY <1>1, <1>2 DEF Inv, SessionInv, LockInv, Recovering, Unreplaced
<1>6. SessionInv'
  <2>1. LockInv'
    BY <1>2, <1>5, DongleAssumption DEF LockInv, Threads, Recovering
  <2>2. \A u \in Threads : pc[u] # "install"
    BY <1>2 DEF Inv, SessionInv, LockInv, Recovering, Unreplaced
  <2> QED BY <2>1, <2>2 DEF Inv, SessionInv, BirthInv, SupersededClosed, sessVars
<1> QED BY <1>2, <1>3, <1>4, <1>6, RecoveryStep DEF Ensuring, Recovering, Unreplaced, Sites

LEMMA ReopenLoopInv ==
  ASSUME Inv, NEW t \in Threads, ReopenLoop(t) PROVE Inv'
<1> USE DEF ReopenLoop
<1>1. CASE dclosed \/ kstop
  BY <1>1, ReleaseInv DEF Inv, TypeOK, Recovering, Unreplaced, flagVars
<1>2. CASE ~(dclosed \/ kstop)
  <2>1. pc' = [pc EXCEPT ![t] = "opening"] /\ pc'[t] = "opening"
        /\ \A u \in Threads \ {t} : pc'[u] = pc[u]
    BY <1>2 DEF Goto, Inv, TypeOK
  <2>2. TypeOK'
    BY <1>2, <2>1 DEF Inv, TypeOK, Labels, Sites, sessVars, flagVars, devVars, built
  <2>3. SessionInv' /\ Onward
    BY <1>2, <2>1, SessionKept DEF Recovering, Unreplaced, flagVars
  <2> QED BY <2>1, <2>2, <2>3, RecoveryStep DEF Ensuring, Recovering, Unreplaced, Sites
<1> QED BY <1>1, <1>2

LEMMA BackoffInv ==
  ASSUME Inv, NEW t \in Threads, Backoff(t) PROVE Inv'
<1> USE DEF Backoff
<1>1. CASE kstop
  BY <1>1, ReleaseInv DEF Inv, TypeOK, Recovering, Unreplaced, flagVars
<1>2. CASE ~kstop
  <2>1. pc' = [pc EXCEPT ![t] = "reopen"] /\ pc'[t] = "reopen"
        /\ \A u \in Threads \ {t} : pc'[u] = pc[u]
    BY <1>2 DEF Goto, Inv, TypeOK
  <2>2. TypeOK'
    BY <1>2, <2>1 DEF Inv, TypeOK, Labels, Sites, sessVars, flagVars, devVars, built
  <2>3. SessionInv' /\ Onward
    BY <1>2, <2>1, SessionKept DEF Recovering, Unreplaced, flagVars
  <2> QED BY <2>1, <2>2, <2>3, RecoveryStep DEF Ensuring, Recovering, Unreplaced, Sites
<1> QED BY <1>1, <1>2

LEMMA ReopenerFailsInv ==
  ASSUME Inv, NEW t \in Threads, ReopenerFails(t) PROVE Inv'
<1> USE DEF ReopenerFails
<1>1. pc' = [pc EXCEPT ![t] = "backoff"] /\ pc'[t] = "backoff"
      /\ \A u \in Threads \ {t} : pc'[u] = pc[u]
  BY DEF Goto, Inv, TypeOK
<1>2. TypeOK'
  BY <1>1 DEF Inv, TypeOK, Labels, Sites, sessVars, flagVars, devVars, built
<1>3. SessionInv' /\ Onward
  BY <1>1, SessionKept DEF Recovering, Unreplaced, flagVars
<1> QED BY <1>1, <1>2, <1>3, RecoveryStep DEF Ensuring, Recovering, Unreplaced, Sites

LEMMA ReopenerOpensInv ==
  ASSUME Inv, NEW t \in Threads, ReopenerOpens(t) PROVE Inv'
<1> USE DongleAssumption DEF ReopenerOpens
<1>1. pc' = [pc EXCEPT ![t] = "install"] /\ pc'[t] = "install"
      /\ \A u \in Threads \ {t} : pc'[u] = pc[u]
  BY DEF Goto, Inv, TypeOK
<1>2. /\ nsess + 1 \in Sessions /\ nsess \in Sessions /\ session \in 1..nsess
      /\ status' = [status EXCEPT ![nsess + 1] = "up"] /\ nsess' = nsess + 1
  BY DEF Inv, TypeOK, Sessions
<1>3. {devCfg', newCfg'} \subseteq Configs \cup {NoConfig} /\ devRx' \in BOOLEAN
  BY DEF DeviceStores, Inv, TypeOK, devVars
<1>4. TypeOK'
  BY <1>1, <1>2, <1>3 DEF Inv, TypeOK, Labels, Sites, flagVars, built, Sessions
<1>5. status[nsess + 1] = "unborn"
  BY <1>2 DEF Inv, SessionInv, BirthInv, Sessions
<1>6. Onward
  BY <1>2, <1>5 DEF Onward, Dead, Inv, TypeOK, flagVars, Sessions
<1>7. lock = t /\ \A u \in Threads \ {t} : pc[u] \notin Recovering
  BY DEF Inv, SessionInv, LockInv, Recovering, Unreplaced
<1>8. LockInv'
  BY <1>1, <1>2, <1>5, <1>7 DEF LockInv, Recovering, Unreplaced, Inv, SessionInv, TypeOK
<1>9. BirthInv'
  BY <1>2 DEF Inv, SessionInv, BirthInv, Sessions, TypeOK
<1>10. SupersededClosed'
  <2>1. ASSUME NEW s \in 1..nsess' PROVE status'[s] = "closed" \/ s = session' \/ s = nsess'
    BY <1>2, <1>7 DEF Inv, SessionInv, SupersededClosed, TypeOK, Recovering, Unreplaced, Sessions
  <2> QED BY <1>1, <2>1 DEF SupersededClosed
<1> QED BY <1>1, <1>4, <1>6, <1>8, <1>9, <1>10, RecoveryStep
        DEF SessionInv, Ensuring, Recovering, Unreplaced, Sites

LEMMA InstallInv ==
  ASSUME Inv, NEW t \in Threads, Install(t) PROVE Inv'
<1> USE DEF Install
<1>1. pc' = [pc EXCEPT ![t] = "adopt"] /\ pc'[t] = "adopt"
      /\ \A u \in Threads \ {t} : pc'[u] = pc[u]
  BY DEF Goto, Inv, TypeOK
<1>2. TypeOK'
  BY <1>1, DongleAssumption
     DEF Inv, TypeOK, Labels, Sites, flagVars, devVars, built, Sessions
<1>3. Onward
  BY DongleAssumption DEF Onward, Dead, Inv, TypeOK, flagVars, Sessions
<1>4. lock = t /\ status[session] = "closed" /\ \A u \in Threads \ {t} : pc[u] \notin Recovering
  BY DEF Inv, SessionInv, LockInv, Recovering, Unreplaced
<1>5. LockInv' /\ BirthInv'
  BY <1>1, <1>4 DEF Inv, SessionInv, LockInv, BirthInv, Recovering, Unreplaced
<1>6. SupersededClosed'
  BY <1>4 DEF Inv, SessionInv, SupersededClosed
<1> QED BY <1>1, <1>2, <1>3, <1>5, <1>6, RecoveryStep
        DEF SessionInv, Ensuring, Recovering, Unreplaced, Sites

LEMMA AdoptInv ==
  ASSUME Inv, NEW t \in Threads, Adopt(t) PROVE Inv'
<1> USE DongleAssumption DEF Adopt
<1>1. {applied', newCfg'} \subseteq Configs \cup {NoConfig}
  BY DEF Inv, TypeOK
<1>2. CASE ~rxStarted
  BY <1>1, <1>2, ReleaseInv DEF Recovering, Unreplaced
<1>3. CASE rxStarted
  <2>1. pc' = [pc EXCEPT ![t] = "restart"] /\ pc'[t] = "restart"
        /\ \A u \in Threads \ {t} : pc'[u] = pc[u]
    BY <1>3 DEF Goto, Inv, TypeOK
  <2>2. TypeOK'
    BY <1>1, <1>3, <2>1 DEF Inv, TypeOK, Labels, Sites, sessVars, devVars, built
  <2>3. SessionInv' /\ Onward
    BY <1>3, <2>1, SessionKept DEF Recovering, Unreplaced
  <2> QED BY <2>1, <2>2, <2>3, RecoveryStep DEF Ensuring, Recovering, Unreplaced, Sites
<1> QED BY <1>2, <1>3

\* A thread that gives up the lock with its new session in place.
LEMMA Unlocks ==
  ASSUME Inv, NEW t \in Threads, pc[t] = "restart", lock' = Nobody,
         UNCHANGED <<sessVars, dclosed>>,
         pc'[t] \notin Recovering, \A u \in Threads \ {t} : pc'[u] = pc[u]
  PROVE  SessionInv' /\ Onward
<1>1. lock = t
  BY DEF Inv, SessionInv, LockInv, Recovering
<1>2. LockInv'
  BY <1>1, DongleAssumption DEF Inv, SessionInv, LockInv, Threads, Recovering
<1>3. \A u \in Threads : pc[u] # "install"
  BY <1>1 DEF Inv, SessionInv, LockInv, Recovering, Unreplaced
<1> QED BY <1>2, <1>3 DEF Inv, TypeOK, SessionInv, BirthInv, SupersededClosed, sessVars,
        Onward, Dead

LEMMA RxRestartedInv ==
  ASSUME Inv, NEW t \in Threads, RxRestarted(t) PROVE Inv'
<1> USE DEF RxRestarted
<1>1. pc[t] \in Ensuring
  BY DEF Ensuring, Recovering
<1>2. call[t].ret \in {"main", "again", "recv", "end", "sleep"}
  BY <1>1, RetType
<1>3. CASE Release(t) /\ call' = ReplyTaken(t) /\ rxStarted' \in BOOLEAN
           /\ call[t].reply \in {"ok"} \cup Caught
  <2>1. /\ pc'[t] = call[t].ret
        /\ \A u \in Threads \ {t} : pc'[u] = pc[u] /\ call'[u] = call[u]
        /\ lock' = Nobody
    BY <1>3 DEF Release, Goto, ReplyTaken, Inv, TypeOK
  <2>2. call'[t] = [call[t] EXCEPT !.reply = "none", !.sess = 0]
    BY <1>3 DEF ReplyTaken, Inv, TypeOK
  <2>3. call[t].wire = "none"
    BY <1>3 DEF Inv, ThreadOK, CommandOK, Caught
  <2>4. call' \in [Threads -> Calls]
    BY <1>3, DongleAssumption DEF ReplyTaken, Inv, TypeOK, Calls
  <2>5. pc' \in [Threads -> Labels]
    BY <1>2, <1>3 DEF Release, Goto, Inv, TypeOK, Labels, Sites
  <2>6. TypeOK'
    BY <1>3, <2>1, <2>4, <2>5 DEF Inv, TypeOK, sessVars, devVars, built
  <2>7. SessionInv' /\ Onward
    BY <1>2, <2>1, Unlocks DEF Recovering, Unreplaced
  <2>8. ThreadOK(t)'
    <3>1. Clean(t)' /\ call'[t].sess <= call[t].sess
      BY <2>2, <2>3 DEF Clean, Inv, TypeOK, Calls
    <3>2. call'[t].sent = call[t].sent /\ call'[t].op = call[t].op
          /\ call'[t].ret = call[t].ret
      BY <2>2 DEF Inv, TypeOK, Calls
    <3> QED BY <1>1, <2>1, <2>6, <2>7, <3>1, <3>2, Proceeds DEF Inv
  <2> QED BY <2>1, <2>6, <2>7, <2>8, Others
<1>4. CASE lock' = Nobody /\ Goto(t, IF t \in Users THEN "idle" ELSE "gone")
           /\ call' = [call EXCEPT ![t] = NoCall] /\ UNCHANGED rxStarted
  <2>1. /\ pc'[t] \in {"idle", "gone"} /\ call'[t] = NoCall
        /\ \A u \in Threads \ {t} : pc'[u] = pc[u] /\ call'[u] = call[u]
    BY <1>4 DEF Goto, Inv, TypeOK
  <2>2. TypeOK'
    BY <1>4, NoCallType DEF Goto, Inv, TypeOK, Labels, Sites, sessVars, devVars, built
  <2>3. SessionInv' /\ Onward
    BY <1>4, <2>1, Unlocks DEF Recovering, Unreplaced
  <2>4. ThreadOK(t)'
    BY <2>1, <2>2, Leaves DEF Inv
  <2> QED BY <2>1, <2>2, <2>3, <2>4, Others
<1> QED BY <1>3, <1>4 DEF Inv, TypeOK

-----------------------------------------------------------------------------
(* The methods and the keepalive loop                                      *)

\* What a step of a method leaves alone, or changes to something of its type.
MethodFrame ==
  /\ UNCHANGED <<built, sessVars, lock, newCfg, devVars>>
  /\ applied' \in Configs \cup {NoConfig}
  /\ rxStarted' \in BOOLEAN /\ dclosed' \in BOOLEAN /\ kstop' \in BOOLEAN
  /\ dclosed => dclosed'

LEMMA MethodLeaves ==
  ASSUME Inv, NEW t \in Threads, Leave(t), MethodFrame, pc[t] \notin Recovering
  PROVE  Inv'
<1> USE DEF MethodFrame
<1>1. /\ pc'[t] \in {"idle", "sleep"} /\ call'[t] = NoCall
      /\ \A u \in Threads \ {t} : pc'[u] = pc[u] /\ call'[u] = call[u]
  BY DEF Leave, Goto, Inv, TypeOK
<1>2. TypeOK'
  BY NoCallType DEF Leave, Goto, Inv, TypeOK, Labels, Sites, sessVars, devVars, built
<1>3. SessionInv' /\ Onward
  BY <1>1, SessionKept DEF Recovering, Unreplaced
<1>4. ThreadOK(t)'
  BY <1>1, <1>2, Leaves DEF Inv
<1> QED BY <1>1, <1>2, <1>3, <1>4, Others

\* The call of a thread changes, to another well-typed one.
Becomes(t, c) ==
  /\ call'[t] = c
  /\ call' \in [Threads -> Calls]
  /\ \A u \in Threads \ {t} : call'[u] = call[u]

LEMMA NoSession == 0 \in 0..MaxSessions
  BY DongleAssumption

LEMMA BecomesCall ==
  ASSUME NEW t \in Threads, NEW c \in Calls, call \in [Threads -> Calls],
         call'[t] = c, \A u \in Threads \ {t} : call'[u] = call[u],
         call' = [u \in Threads |-> call'[u]]
  PROVE  Becomes(t, c)
<1>1. \A u \in Threads : call'[u] \in Calls
  OBVIOUS
<1>2. call' \in [Threads -> Calls]
  BY <1>1
<1> QED BY <1>2 DEF Becomes

\* A step on to a point where no command is under way.
LEMMA MethodGoes ==
  ASSUME Inv, NEW t \in Threads, NEW to \in Labels \ Recovering, Goto(t, to),
         NEW c, Becomes(t, c),
         MethodFrame, pc[t] \notin Recovering,
         c.sent = call[t].sent, c.wire = "none", c.reply = "none",
         c.sess <= session,
         to \in {"stop", "shut"} => dclosed',
         to \in {"ensure", "lock"} => c.ret # "none",
         c.op # "tx" => Unsent(t),
         Unsent(t) \/ (Spent(t) /\ (to = "again" \/ (to = "ensure" /\ c.ret = "again")))
  PROVE  Inv'
<1> USE DEF MethodFrame, Becomes
<1>1. /\ pc'[t] = to /\ call'[t] = c
      /\ \A u \in Threads \ {t} : pc'[u] = pc[u] /\ call'[u] = call[u]
  BY DEF Goto, Inv, TypeOK
<1>2. TypeOK'
  BY DEF Goto, Inv, TypeOK, sessVars, devVars, built
<1>3. SessionInv' /\ Onward
  BY <1>1, SessionKept DEF Recovering, Unreplaced
<1>4. Clean(t)' /\ CloseOK(t)' /\ call'[t].sess <= session'
  BY <1>1 DEF Clean, CloseOK, sessVars
<1>5. pc'[t] \in Ensuring => call'[t].ret # "none"
  BY <1>1 DEF Ensuring
<1>6. IF pc'[t] = "again" \/ Retrying(t)' THEN Spent(t) ELSE Unsent(t)
  BY <1>1, UnsentSpent DEF Retrying, Ensuring
<1>7. ThreadOK(t)'
  BY <1>1, <1>2, <1>3, <1>4, <1>5, <1>6, Arrives DEF Inv
<1> QED BY <1>1, <1>2, <1>3, <1>7, Others

\* A step that changes the program counter only.
LEMMA MethodMoves ==
  ASSUME Inv, NEW t \in Threads, NEW to \in Labels \ (Ensuring \cup Sites), Goto(t, to),
         UNCHANGED call, MethodFrame, pc[t] \notin Recovering, Clean(t), Unsent(t),
         to \in {"stop", "shut"} => dclosed'
  PROVE  Inv'
<1>1. Becomes(t, call[t])
  BY DEF Becomes, Inv, TypeOK
<1>2. call[t].sess <= session
  BY DEF Inv, ThreadOK, CommandOK
<1>3. to \notin Recovering /\ to # "ensure" /\ to # "lock" /\ to # "again"
  BY DEF Ensuring, Sites
<1> QED BY <1>1, <1>2, <1>3, MethodGoes DEF Clean

\* Outside commands and retries nothing is under way or was transmitted.
LEMMA AtRest ==
  ASSUME Inv, NEW t \in Threads, pc[t] \notin Ensuring \cup Sites
  PROVE  Clean(t) /\ Unsent(t)
  BY DEF Inv, ThreadOK, CommandOK, SentOK, Sites, Retrying

LEMMA CloseInv ==
  ASSUME Inv, NEW u \in Threads, CloseBegins(u) \/ CloseMarks(u) \/ CloseStops(u)
  PROVE  Inv'
<1> USE DEF CloseFrame
<1>1. pc[u] \notin Ensuring \cup Sites
  BY DEF CloseBegins, CloseMarks, CloseStops, Ensuring, Recovering, Unreplaced, Sites
<1>2. Clean(u) /\ Unsent(u)
  BY <1>1, AtRest
<1>3. MethodFrame
  BY DEF CloseBegins, CloseMarks, CloseStops, MethodFrame, Inv, TypeOK, sessVars
<1>4. UNCHANGED call
  BY DEF CloseBegins, CloseMarks, CloseStops
<1>5. {"mark", "stop", "shut"} \subseteq Labels \ (Ensuring \cup Sites)
  BY DEF Labels, Ensuring, Recovering, Unreplaced, Sites
<1>6. pc[u] \notin Recovering
  BY <1>1 DEF Ensuring
<1>7. CASE CloseBegins(u)
  BY <1>2, <1>3, <1>4, <1>5, <1>6, <1>7, MethodMoves DEF CloseBegins
<1>8. CASE CloseMarks(u)
  BY <1>2, <1>3, <1>4, <1>5, <1>6, <1>8, MethodMoves DEF CloseMarks
<1>9. CASE CloseStops(u)
  <2>1. dclosed'
    BY <1>9 DEF CloseStops, Inv, ThreadOK, CloseOK
  <2> QED BY <1>2, <1>3, <1>4, <1>5, <1>6, <1>9, <2>1, MethodMoves DEF CloseStops
<1> QED BY <1>7, <1>8, <1>9

LEMMA CloseShutsInv ==
  ASSUME Inv, NEW u \in Threads, CloseShuts(u) PROVE Inv'
<1> USE DEF CloseShuts, CloseFrame
<1>1. /\ pc'[u] = "idle" /\ \A v \in Threads \ {u} : pc'[v] = pc[v]
      /\ session \in 1..nsess /\ session \in Sessions
      /\ status' = [status EXCEPT ![session] = "closed"]
  BY DongleAssumption DEF Goto, Inv, TypeOK, Sessions
<1>2. TypeOK'
  BY <1>1 DEF Goto, Inv, TypeOK, Labels, Sites, devVars, built
<1>3. Onward
  BY <1>1 DEF Onward, Dead, Inv, TypeOK
<1>4. SessionInv'
  <2>1. LockInv'
    BY <1>1 DEF Inv, TypeOK, SessionInv, LockInv, Recovering, Unreplaced
  <2>2. BirthInv' /\ SupersededClosed'
    BY <1>1 DEF Inv, TypeOK, SessionInv, BirthInv, SupersededClosed, Sessions
  <2> QED BY <2>1, <2>2 DEF SessionInv
<1>5. Clean(u) /\ Unsent(u)
  BY AtRest DEF Ensuring, Recovering, Unreplaced, Sites
<1>6. ThreadOK(u)'
  <2>1. Clean(u)' /\ CloseOK(u)' /\ ~Retrying(u)' /\ pc'[u] \notin Ensuring
    BY <1>1, <1>5 DEF Clean, CloseOK, Retrying, Ensuring, Recovering, Unreplaced
  <2>2. call'[u].sess <= session'
    BY DEF Inv, ThreadOK, CommandOK
  <2> QED BY <1>1, <1>2, <1>3, <1>5, <2>1, <2>2, Arrives DEF Inv
<1> QED BY <1>1, <1>2, <1>3, <1>4, <1>6, Others

LEMMA KeeperInv ==
  ASSUME Inv, NEW k \in Threads, KeeperStops(k) \/ KeeperTicks(k) PROVE Inv'
<1> USE DEF BodyFrame
<1>1. pc[k] = "sleep" /\ pc[k] \notin Recovering
  BY DEF KeeperStops, KeeperTicks, Recovering, Unreplaced
<1>2. Clean(k) /\ Unsent(k)
  BY <1>1, AtRest DEF Ensuring, Recovering, Unreplaced, Sites
<1>3. MethodFrame
  BY DEF KeeperStops, KeeperTicks, MethodFrame, Inv, TypeOK
<1>4. call[k] \in Calls /\ call \in [Threads -> Calls] /\ call[k].sess <= session
  BY DEF Inv, TypeOK, ThreadOK, CommandOK
<1>5. {"gone", "main", "ensure"} \subseteq Labels \ Recovering
  BY DEF Labels, Recovering, Unreplaced, Sites
<1>6. CASE KeeperStops(k)
  <2>1. "gone" \in Labels \ (Ensuring \cup Sites)
    BY DEF Labels, Ensuring, Recovering, Unreplaced, Sites
  <2> QED BY <1>1, <1>2, <1>3, <1>6, <2>1, MethodMoves DEF KeeperStops
<1>7. CASE Ensure(k, "sleep")
  <2> DEFINE c == [call[k] EXCEPT !.ret = "sleep"]
  <2>1. Becomes(k, c)
    BY <1>4, <1>7 DEF Becomes, Ensure, Calls
  <2>2. c.sent = call[k].sent /\ c.wire = "none" /\ c.reply = "none"
        /\ c.sess <= session /\ c.ret = "sleep"
    BY <1>2, <1>4 DEF Clean, Calls
  <2> QED BY <1>1, <1>2, <1>3, <1>5, <1>7, <2>1, <2>2, MethodGoes DEF Ensure
<1>8. CASE Goto(k, "main") /\ call' = [call EXCEPT ![k].op = "keepalive"]
  <2> DEFINE c == [call[k] EXCEPT !.op = "keepalive"]
  <2>1. Becomes(k, c)
    BY <1>4, <1>8 DEF Becomes, Calls
  <2>2. c.sent = call[k].sent /\ c.wire = "none" /\ c.reply = "none"
        /\ c.sess <= session
    BY <1>2, <1>4 DEF Clean, Calls
  <2> QED BY <1>1, <1>2, <1>3, <1>5, <1>8, <2>1, <2>2, MethodGoes
<1> QED BY <1>6, <1>7, <1>8 DEF KeeperTicks

LEMMA BeginInv ==
  ASSUME Inv, NEW u \in Threads, NEW o \in Ops, NEW c \in Configs \cup {NoConfig},
         Begin(u, o, c)
  PROVE  Inv'
<1> USE DEF Begin, BodyFrame
<1> DEFINE ret == IF o = "recv" THEN "recv" ELSE "main"
           d == [call[u] EXCEPT !.op = o, !.arg = c, !.ret = ret]
           to == IF o = "rx" /\ rxStarted THEN "listen" ELSE "ensure"
<1>1. Clean(u) /\ Unsent(u) /\ pc[u] \notin Recovering
  BY AtRest DEF Ensuring, Recovering, Unreplaced, Sites
<1>2. call[u] \in Calls /\ call \in [Threads -> Calls] /\ call[u].sess <= session
  BY DEF Inv, TypeOK, ThreadOK, CommandOK
<1>3. Becomes(u, d)
  BY <1>2, DongleAssumption DEF Becomes, Calls
<1>4. d.sent = call[u].sent /\ d.wire = "none" /\ d.reply = "none"
      /\ d.sess <= session /\ d.ret \in {"main", "recv"}
  BY <1>1, <1>2 DEF Clean, Calls
<1>5. to \in Labels \ Recovering /\ to \notin {"stop", "shut"} /\ Goto(u, to)
  BY DEF Labels, Recovering, Unreplaced, Sites
<1>6. MethodFrame
  BY DEF MethodFrame, Inv, TypeOK
<1> HIDE DEF ret, d, to
<1> QED BY <1>1, <1>3, <1>4, <1>5, <1>6, MethodGoes

LEMMA RecvStartsInv ==
  ASSUME Inv, NEW u \in Threads, RecvStarts(u) PROVE Inv'
<1> USE DEF RecvStarts, BodyFrame
<1>1. Clean(u) /\ Unsent(u) /\ pc[u] \notin Recovering
  BY AtRest DEF Ensuring, Recovering, Unreplaced, Sites
<1>2. MethodFrame
  BY DEF MethodFrame, Inv, TypeOK
<1>3. CASE rxStarted
  <2>1. "listen" \in Labels \ (Ensuring \cup Sites)
    BY DEF Labels, Ensuring, Recovering, Unreplaced, Sites
  <2> QED BY <1>1, <1>2, <1>3, <2>1, MethodMoves
<1>4. CASE Ensure(u, "main")
  <2> DEFINE c == [call[u] EXCEPT !.ret = "main"]
  <2>1. Becomes(u, c)
    <3>1. c \in Calls
      BY DEF Calls, Inv, TypeOK
    <3>2. call'[u] = c /\ \A v \in Threads \ {u} : call'[v] = call[v]
      BY <1>4 DEF Ensure, Inv, TypeOK
    <3>3. call' = [v \in Threads |-> call'[v]]
      BY <1>4 DEF Ensure, Inv, TypeOK
    <3> QED BY <3>1, <3>2, <3>3, BecomesCall DEF Inv, TypeOK
  <2>2. c.sent = call[u].sent /\ c.wire = "none" /\ c.reply = "none"
        /\ c.sess <= session /\ c.ret = "main"
    BY <1>1 DEF Clean, Calls, Inv, TypeOK, ThreadOK, CommandOK
  <2>3. "ensure" \in Labels \ Recovering
    BY DEF Labels, Recovering, Unreplaced, Sites
  <2> QED BY <1>1, <1>2, <1>4, <2>1, <2>2, <2>3, MethodGoes DEF Ensure
<1> QED BY <1>3, <1>4

\* next_rx and what follows it: everything but the first read of the session.
LEMMA ListenInv ==
  ASSUME Inv, NEW u \in Threads,
         Listen(u) \/ Hears(u) \/ HearsDeath(u) \/ HearsNothing(u) \/ RecvEnds(u)
  PROVE  Inv'
<1> USE DEF BodyFrame
<1>1. pc[u] \in {"listen", "wait", "end"}
  BY DEF Listen, Hears, HearsDeath, HearsNothing, RecvEnds
<1>2. Clean(u) /\ Unsent(u) /\ pc[u] \notin Recovering
  BY <1>1, AtRest DEF Ensuring, Recovering, Unreplaced, Sites
<1>3. MethodFrame
  BY DEF Listen, Hears, HearsDeath, HearsNothing, RecvEnds, MethodFrame, Inv, TypeOK
<1>4. call[u] \in Calls /\ call \in [Threads -> Calls] /\ session \in 0..MaxSessions
      /\ 0 <= session
  BY DongleAssumption DEF Inv, TypeOK, Sessions
<1>5. {"wait", "listen", "ensure"} \subseteq Labels \ Recovering
  BY DEF Labels, Recovering, Unreplaced, Sites
<1>6. CASE Leave(u)
  BY <1>2, <1>3, <1>6, MethodLeaves
<1>7. ASSUME NEW to \in {"wait", "listen"}, NEW s \in {0, session},
             Goto(u, to), call' = [call EXCEPT ![u].sess = s]
      PROVE  Inv'
  <2> DEFINE c == [call[u] EXCEPT !.sess = s]
  <2>1. Becomes(u, c)
    BY <1>4, <1>7, DongleAssumption DEF Becomes, Calls
  <2>2. c.sent = call[u].sent /\ c.wire = "none" /\ c.reply = "none" /\ c.sess <= session
    BY <1>2, <1>4 DEF Clean, Calls
  <2> QED BY <1>2, <1>3, <1>5, <1>7, <2>1, <2>2, MethodGoes
<1>8. CASE /\ Goto(u, "ensure")
           /\ call' = [call EXCEPT ![u].sess = 0, ![u].ret = "end"]
  <2> DEFINE c == [call[u] EXCEPT !.sess = 0, !.ret = "end"]
  <2>1. Becomes(u, c)
    <3>1. c \in Calls
      BY <1>4, NoSession DEF Calls
    <3>2. call'[u] = c /\ \A v \in Threads \ {u} : call'[v] = call[v]
      BY <1>4, <1>8
    <3>3. call' = [v \in Threads |-> call'[v]]
      BY <1>4, <1>8
    <3> QED BY <3>1, <3>2, <3>3, <1>4, BecomesCall
  <2>2. c.sent = call[u].sent /\ c.wire = "none" /\ c.reply = "none" /\ c.sess <= session
        /\ c.ret = "end"
    BY <1>2, <1>4 DEF Clean, Calls
  <2> QED BY <1>2, <1>3, <1>5, <1>8, <2>1, <2>2, MethodGoes
<1>9. CASE Listen(u)
  BY <1>7, <1>9 DEF Listen
<1>10. CASE Hears(u)
  BY <1>6, <1>7, <1>10 DEF Hears
<1>11. CASE HearsDeath(u)
  BY <1>6, <1>8, <1>11 DEF HearsDeath
<1>12. CASE HearsNothing(u) \/ RecvEnds(u)
  BY <1>6, <1>12 DEF HearsNothing, RecvEnds
<1> QED BY <1>9, <1>10, <1>11, <1>12

\* The result of a command has been looked at.
LEMMA Taken ==
  ASSUME Inv, NEW t \in Threads, pc[t] \in Sites, call[t].reply # "none",
         NEW c, c.sent = call[t].sent, c.wire = call[t].wire,
         c.reply = "none", c.sess = 0
  PROVE  c.wire = "none" /\ c.sess <= session /\ pc[t] \notin Recovering \ {"restart"}
  BY DongleAssumption
     DEF Inv, TypeOK, ThreadOK, CommandOK, Sites, Recovering, Unreplaced, Sessions

LEMMA OpReturnsInv ==
  ASSUME Inv, NEW t \in Threads, OpReturns(t) PROVE Inv'
<1> USE DEF OpReturns, BodyFrame
<1>1. pc[t] \notin Recovering /\ pc[t] \in Sites
  BY DEF Recovering, Unreplaced, Sites
<1>2. call[t] \in Calls /\ call \in [Threads -> Calls]
  BY DEF Inv, TypeOK
<1>3. MethodFrame
  BY <1>2 DEF Complete, MethodFrame, Inv, TypeOK, Calls
<1>4. CASE Leave(t)
  BY <1>1, <1>3, <1>4, MethodLeaves
<1>5. CASE call[t].op \in {"rx", "recv"} /\ Goto(t, "listen") /\ call' = ReplyTaken(t)
  <2> DEFINE c == [call[t] EXCEPT !.reply = "none", !.sess = 0]
  <2>1. Becomes(t, c)
    <3>1. c \in Calls
      BY <1>2, NoSession DEF Calls
    <3>2. call'[t] = c /\ \A v \in Threads \ {t} : call'[v] = call[v]
      BY <1>2, <1>5 DEF ReplyTaken
    <3>3. call' = [v \in Threads |-> call'[v]]
      BY <1>2, <1>5 DEF ReplyTaken
    <3> QED BY <3>1, <3>2, <3>3, <1>2, BecomesCall
  <2>2. c.sent = call[t].sent /\ c.wire = call[t].wire /\ c.reply = "none" /\ c.sess = 0
    BY <1>2 DEF Calls
  <2>3. c.wire = "none" /\ c.sess <= session
    BY <1>1, <2>1, <2>2, Taken
  <2>4. "listen" \in Labels \ Recovering
    BY DEF Labels, Recovering, Unreplaced, Sites
  <2>5. Unsent(t)
    BY <1>5 DEF Inv, ThreadOK, SentOK
  <2> QED BY <1>1, <1>3, <1>5, <2>1, <2>2, <2>3, <2>4, <2>5, MethodGoes
<1> QED BY <1>4, <1>5 DEF Complete

LEMMA ReapplyReturnsInv ==
  ASSUME Inv, NEW t \in Threads, ReapplyReturns(t) PROVE Inv'
<1> USE DEF ReapplyReturns, BodyFrame
<1>1. pc[t] \notin Recovering /\ pc[t] \in Sites
  BY DEF Recovering, Unreplaced, Sites
<1>2. call[t] \in Calls /\ call \in [Threads -> Calls]
  BY DEF Inv, TypeOK
<1>3. MethodFrame
  BY DEF MethodFrame, Inv, TypeOK
<1>4. CASE Leave(t)
  BY <1>1, <1>3, <1>4, MethodLeaves
<1>5. CASE Goto(t, "again") /\ call' = ReplyTaken(t)
  <2> DEFINE c == [call[t] EXCEPT !.reply = "none", !.sess = 0]
  <2>1. Becomes(t, c)
    <3>1. c \in Calls
      BY <1>2, NoSession DEF Calls
    <3>2. call'[t] = c /\ \A v \in Threads \ {t} : call'[v] = call[v]
      BY <1>2, <1>5 DEF ReplyTaken
    <3>3. call' = [v \in Threads |-> call'[v]]
      BY <1>2, <1>5 DEF ReplyTaken
    <3> QED BY <3>1, <3>2, <3>3, <1>2, BecomesCall
  <2>2. c.sent = call[t].sent /\ c.wire = call[t].wire /\ c.reply = "none" /\ c.sess = 0
    BY <1>2 DEF Calls
  <2>3. c.wire = "none" /\ c.sess <= session
    BY <1>1, <2>1, <2>2, Taken
  <2>4. "again" \in Labels \ Recovering
    BY DEF Labels, Recovering, Unreplaced, Sites
  <2>5. Unsent(t)
    BY DEF Inv, ThreadOK, SentOK, Retrying, Ensuring, Recovering, Unreplaced
  <2> QED BY <1>1, <1>3, <1>5, <2>1, <2>2, <2>3, <2>4, <2>5, MethodGoes
<1> QED BY <1>4, <1>5

LEMMA OpRaisesInv ==
  ASSUME Inv, NEW t \in Threads, OpRaises(t) PROVE Inv'
<1> USE DEF OpRaises, BodyFrame
<1>1. pc[t] \notin Recovering /\ pc[t] \in Sites /\ call[t].reply # "none"
  BY DEF Recovering, Unreplaced, Sites, Raised
<1>2. call[t] \in Calls /\ call \in [Threads -> Calls] /\ applied \in Configs \cup {NoConfig}
  BY DEF Inv, TypeOK
<1>3. MethodFrame
  BY DEF MethodFrame, Inv, TypeOK
<1>4. FirstOK(t)
  BY DEF Inv, ThreadOK, SentOK
<1>5. call[t].op # "tx" => Unsent(t)
  BY DEF Inv, ThreadOK, SentOK
<1>6. {"ensure", "reapply"} \subseteq Labels \ Recovering
  BY DEF Labels, Recovering, Unreplaced, Sites
<1>7. CASE Leave(t)
  BY <1>1, <1>3, <1>7, MethodLeaves
<1>8. CASE /\ Reapplies(t) /\ Goto(t, "reapply")
           /\ call' = [ReplyTaken(t) EXCEPT ![t].arg = applied]
  <2> DEFINE c == [call[t] EXCEPT !.reply = "none", !.sess = 0, !.arg = applied]
  <2>1. Becomes(t, c)
    <3>1. c \in Calls
      BY <1>2, NoSession DEF Calls
    <3>2. call'[t] = c /\ \A v \in Threads \ {t} : call'[v] = call[v]
      BY <1>2, <1>8 DEF ReplyTaken
    <3>3. call' = [v \in Threads |-> call'[v]]
      BY <1>2, <1>8 DEF ReplyTaken
    <3> QED BY <3>1, <3>2, <3>3, <1>2, BecomesCall
  <2>2. c.sent = call[t].sent /\ c.wire = call[t].wire /\ c.reply = "none" /\ c.sess = 0
    BY <1>2 DEF Calls
  <2>3. c.wire = "none" /\ c.sess <= session
    BY <1>1, <2>1, <2>2, Taken
  <2>4. Unsent(t)
    BY <1>4, <1>8 DEF Reapplies, FirstOK, Refused
  <2> QED BY <1>1, <1>3, <1>6, <1>8, <2>1, <2>2, <2>3, <2>4, MethodGoes
<1>9. CASE /\ Retries(t) /\ Goto(t, "ensure")
           /\ call' = [ReplyTaken(t) EXCEPT ![t].ret = "again"]
  <2> DEFINE c == [call[t] EXCEPT !.reply = "none", !.sess = 0, !.ret = "again"]
             s == call[t].sess
  <2>1. Becomes(t, c)
    <3>1. c \in Calls
      BY <1>2, NoSession DEF Calls
    <3>2. call'[t] = c /\ \A v \in Threads \ {t} : call'[v] = call[v]
      BY <1>2, <1>9 DEF ReplyTaken
    <3>3. call' = [v \in Threads |-> call'[v]]
      BY <1>2, <1>9 DEF ReplyTaken
    <3> QED BY <3>1, <3>2, <3>3, <1>2, BecomesCall
  <2>2. c.sent = call[t].sent /\ c.wire = call[t].wire /\ c.reply = "none" /\ c.sess = 0
        /\ c.ret = "again" /\ c.op = call[t].op
    BY <1>2 DEF Calls
  <2>3. c.wire = "none" /\ c.sess <= session
    BY <1>1, <2>1, <2>2, Taken
  <2>4. s \in Sessions /\ s <= session /\ session <= nsess /\ session \in Sessions
        /\ nsess \in Sessions
    BY <1>1, DongleAssumption
       DEF Inv, TypeOK, ThreadOK, CommandOK, Clean, Calls, Sessions
  <2>5. ASSUME s = session PROVE Dead(s)
    BY <1>9, <2>4, <2>5 DEF Retries, IsAlive, Dead, Inv, TypeOK, SessionInv, BirthInv, Sessions
  <2>6. ASSUME s # session PROVE Dead(s)
    BY <2>4, <2>6 DEF Dead, Inv, SessionInv, SupersededClosed, Sessions
  <2>7. Spent(t)
    BY <1>4, <2>4, <2>5, <2>6 DEF FirstOK, Spent
  <2> HIDE DEF c
  <2> QED BY <1>1, <1>3, <1>5, <1>6, <1>9, <2>1, <2>2, <2>3, <2>7, MethodGoes
<1> QED BY <1>7, <1>8, <1>9

LEMMA RetryRaisesInv ==
  ASSUME Inv, NEW t \in Threads, RetryRaises(t) PROVE Inv'
<1> USE DEF RetryRaises, BodyFrame
<1>1. pc[t] \notin Recovering
  BY DEF Recovering, Unreplaced
<1>2. MethodFrame
  BY DEF MethodFrame, Inv, TypeOK
<1> QED BY <1>1, <1>2, MethodLeaves

-----------------------------------------------------------------------------
(* Commands, the link and the device                                       *)

\* A step of a command: only the thread's call and the device change.
LEMMA CommandStep ==
  ASSUME Inv, NEW t \in Threads, CommandFrame, NEW c, Becomes(t, c),
         devCfg' \in Configs \cup {NoConfig}, devRx' \in BOOLEAN, ThreadOK(t)'
  PROVE  Inv'
<1> USE DEF CommandFrame
<1>1. TypeOK'
  BY DEF Becomes, Inv, TypeOK, sessVars, flagVars, built
<1>2. SessionInv' /\ Onward
  BY SessionKept DEF flagVars
<1> QED BY <1>1, <1>2, Others DEF Becomes

LEMMA SendCommandInv ==
  ASSUME Inv, NEW t \in Threads, SendCommand(t) PROVE Inv'
<1> USE DEF SendCommand
<1> DEFINE c == [call[t] EXCEPT !.sess = session, !.wire = "sent"]
<1>1. call[t] \in Calls /\ call \in [Threads -> Calls] /\ session \in 1..MaxSessions
  BY DongleAssumption DEF Inv, TypeOK, Sessions
<1>2. Becomes(t, c)
  <2>1. c \in Calls
    BY <1>1 DEF Calls
  <2>2. call'[t] = c /\ \A u \in Threads \ {t} : call'[u] = call[u]
    BY <1>1
  <2>3. call' = [u \in Threads |-> call'[u]]
    BY <1>1
  <2> QED BY <1>1, <2>1, <2>2, <2>3, BecomesCall
<1>3. c.sess = session /\ c.wire = "sent" /\ c.reply = "none" /\ c.op = call[t].op
      /\ c.ret = call[t].ret /\ c.sent = call[t].sent
  BY <1>1 DEF Calls
<1> HIDE DEF c
<1>4. call'[t] = c /\ UNCHANGED <<session, status, pc, dclosed>> /\ Clean(t)
  BY <1>2 DEF Becomes, CommandFrame, sessVars, flagVars, Clean
<1>5. Unsent(t)' = Unsent(t) /\ Spent(t)' = Spent(t) /\ Retrying(t)' = Retrying(t)
      /\ ~Succeeded(t)' /\ ~Refused(t)'
  BY <1>3, <1>4 DEF Unsent, Spent, Only, Dead, Retrying, Succeeded, Refused
<1>6. CloseOK(t)' /\ CommandOK(t)'
  BY <1>1, <1>3, <1>4 DEF Inv, ThreadOK, CloseOK, CommandOK
<1>7. pc[t] = "main" => FirstOK(t)'
  BY <1>3, <1>4, <1>5 DEF Inv, ThreadOK, SentOK, FirstOK, Unsent, Only
<1>8. pc[t] = "again" => SecondOK(t)'
  <2> SUFFICES ASSUME Spent(t) PROVE SecondOK(t)'
    BY <1>4 DEF Inv, ThreadOK, SentOK, SecondOK
  <2>1. \E a \in Sessions : Only(t, {a, call[t].sess})'
    BY <1>3, <1>4 DEF Spent, Only
  <2> QED BY <1>5, <2>1 DEF SecondOK
<1>9. SentOK(t)'
  BY <1>3, <1>4, <1>5, <1>7, <1>8 DEF Inv, ThreadOK, SentOK
<1>10. devCfg' \in Configs \cup {NoConfig} /\ devRx' \in BOOLEAN
  BY DEF Inv, TypeOK, devVars
<1> QED BY <1>2, <1>6, <1>9, <1>10, CommandStep DEF ThreadOK

\* A command that is answered or over, without a transmission: what is known of
\* the ones before it still holds.
LEMMA Settles ==
  ASSUME Inv, NEW t \in Threads, CommandFrame, NEW c, Becomes(t, c),
         c.op = call[t].op, c.ret = call[t].ret, c.sess = call[t].sess,
         c.sent = call[t].sent, call[t].wire # "none",
         (c.wire # "none" /\ c.reply = "none") \/ (c.wire = "none" /\ c.reply # "none"),
         c.wire # "sent",
         pc[t] \in {"main", "again"} /\ c.op = "tx" /\ "ok" \in {c.wire, c.reply}
           => call[t].wire = "ok",
         "NotConfigured" \in {c.wire, c.reply} => call[t].wire \in {"sent", "NotConfigured"}
  PROVE  ThreadOK(t)'
<1>1. call'[t] = c /\ UNCHANGED <<session, status, pc, dclosed>>
  BY DEF Becomes, CommandFrame, sessVars, flagVars
<1>2. Unsent(t)' = Unsent(t) /\ Spent(t)' = Spent(t) /\ Retrying(t)' = Retrying(t)
      /\ ~Clean(t)' /\ ~Clean(t)
  BY <1>1 DEF Unsent, Spent, Only, Dead, Retrying, Clean
<1>3. pc[t] \in {"main", "again"} /\ c.op = "tx" /\ Succeeded(t)' => Succeeded(t)
  BY <1>1 DEF Succeeded
<1>4. Refused(t)' => Refused(t) \/ call[t].wire = "sent"
  BY <1>1 DEF Refused
<1>5. CloseOK(t)' /\ CommandOK(t)'
  BY <1>1, <1>2 DEF Inv, ThreadOK, CloseOK, CommandOK
<1>6. pc[t] = "main" => FirstOK(t)'
  <2> SUFFICES ASSUME pc[t] = "main", FirstOK(t) PROVE FirstOK(t)'
    BY DEF Inv, ThreadOK, SentOK
  <2> QED BY <1>1, <1>2, <1>3, <1>4 DEF FirstOK, Only
<1>7. pc[t] = "again" => SecondOK(t)'
  <2> SUFFICES ASSUME pc[t] = "again", SecondOK(t) PROVE SecondOK(t)'
    BY DEF Inv, ThreadOK, SentOK
  <2> QED BY <1>1, <1>2, <1>3 DEF SecondOK, Only
<1>8. SentOK(t)'
  BY <1>1, <1>2, <1>6, <1>7 DEF Inv, ThreadOK, SentOK
<1> QED BY <1>5, <1>8 DEF ThreadOK

\* The device transmits, over a session it has not transmitted on for this call.
LEMMA Transmits ==
  ASSUME Inv, NEW t \in Threads, CommandFrame, CommandOf(t) = "TX",
         call[t].wire = "sent", status[call[t].sess] = "up",
         call' = [call EXCEPT ![t].wire = "ok", ![t].sent[call[t].sess] = @ + 1]
  PROVE  \E c : Becomes(t, c) /\ ThreadOK(t)'
<1> DEFINE s == call[t].sess
           f == [call[t].sent EXCEPT ![s] = @ + 1]
           c == [call[t] EXCEPT !.wire = "ok", !.sent = f]
<1>1. call[t] \in Calls /\ call \in [Threads -> Calls]
  BY DEF Inv, TypeOK
<1>2. s \in Sessions /\ call[t].reply = "none" /\ ~Dead(s)
  BY <1>1, DongleAssumption
     DEF Inv, TypeOK, ThreadOK, CommandOK, Clean, Calls, Sessions, Dead
<1>3. pc[t] \in {"main", "again"} /\ call[t].op = "tx"
  BY DEF CommandOf, Sites
<1>4. /\ pc[t] = "main" => Unsent(t)
      /\ pc[t] = "again" => Spent(t)
  BY DEF Inv, ThreadOK, SentOK, FirstOK, SecondOK
<1>5. call[t].sent[s] = 0
  BY <1>2, <1>3, <1>4 DEF Unsent, Spent, Only
<1>6. f \in [Sessions -> 0..1] /\ f[s] = 1 /\ \A x \in Sessions \ {s} : f[x] = call[t].sent[x]
  BY <1>1, <1>2, <1>5 DEF Calls
<1>7. Becomes(t, c)
  <2>1. c \in Calls
    BY <1>1, <1>6 DEF Calls
  <2>2. call'[t] = c /\ \A u \in Threads \ {t} : call'[u] = call[u]
    BY <1>1
  <2>3. call' = [u \in Threads |-> call'[u]]
    BY <1>1
  <2> QED BY <1>1, <2>1, <2>2, <2>3, BecomesCall
<1>8. c.sess = s /\ c.wire = "ok" /\ c.reply = "none" /\ c.op = "tx"
      /\ c.ret = call[t].ret /\ c.sent = f
  BY <1>1, <1>2, <1>3 DEF Calls
<1> HIDE DEF s, f, c
<1>9. call'[t] = c /\ UNCHANGED <<session, status, pc, dclosed>>
  BY <1>7 DEF Becomes, CommandFrame, sessVars, flagVars
<1>10. CloseOK(t)' /\ CommandOK(t)'
  BY <1>3, <1>8, <1>9 DEF s, Inv, ThreadOK, CloseOK, CommandOK, Sites, Clean
<1>11. pc[t] = "main" => FirstOK(t)'
  <2> SUFFICES ASSUME Unsent(t) PROVE FirstOK(t)'
    BY <1>4
  <2>1. Only(t, {call[t].sess})'
    BY <1>6, <1>8, <1>9 DEF Unsent, Only
  <2> QED BY <1>6, <1>8, <1>9, <2>1 DEF FirstOK, Clean, Refused
<1>12. pc[t] = "again" => SecondOK(t)'
  <2> SUFFICES ASSUME Spent(t) PROVE SecondOK(t)'
    BY <1>4
  <2>1. \E a \in Sessions : Only(t, {a, call[t].sess})'
    BY <1>6, <1>8, <1>9 DEF Spent, Only
  <2> QED BY <1>6, <1>8, <1>9, <2>1 DEF SecondOK, Clean
<1>13. SentOK(t)'
  BY <1>3, <1>8, <1>9, <1>11, <1>12
     DEF SentOK, Retrying, Ensuring, Recovering, Unreplaced
<1> QED BY <1>7, <1>10, <1>13 DEF ThreadOK

\* The device answers, without a transmission.
LEMMA AnswerInv ==
  ASSUME Inv, NEW t \in Threads, NEW a \in {"ok", "NotConfigured"}, Answer(t, a),
         call[t].wire = "sent", a = "ok" => CommandOf(t) # "TX", CommandFrame,
         devCfg' \in Configs \cup {NoConfig}, devRx' \in BOOLEAN
  PROVE  Inv'
<1> DEFINE c == [call[t] EXCEPT !.wire = a]
<1>1. call[t] \in Calls /\ call \in [Threads -> Calls]
  BY DEF Inv, TypeOK
<1>2. Becomes(t, c)
  <2>1. c \in Calls
    BY <1>1 DEF Calls, Raised
  <2>2. call'[t] = c /\ \A u \in Threads \ {t} : call'[u] = call[u]
    BY <1>1 DEF Answer
  <2>3. call' = [u \in Threads |-> call'[u]]
    BY <1>1 DEF Answer
  <2> QED BY <1>1, <2>1, <2>2, <2>3, BecomesCall
<1>3. c.sess = call[t].sess /\ c.wire = a /\ c.reply = call[t].reply /\ c.op = call[t].op
      /\ c.ret = call[t].ret /\ c.sent = call[t].sent
  BY <1>1 DEF Calls
<1> HIDE DEF c
<1>4. c.reply = "none"
  BY <1>3 DEF Inv, ThreadOK, CommandOK
<1>5. pc[t] \in {"main", "again"} /\ c.op = "tx" => a # "ok"
  BY <1>3 DEF CommandOf, Sites
<1>6. ThreadOK(t)'
  BY <1>2, <1>3, <1>4, <1>5, Settles
<1> QED BY <1>2, <1>6, CommandStep

LEMMA DeviceActsInv ==
  ASSUME Inv, NEW t \in Threads, DeviceActs(t) PROVE Inv'
<1> USE DEF DeviceActs
<1>1. devCfg' \in Configs \cup {NoConfig} /\ devRx' \in BOOLEAN
  BY DEF DeviceStores, Answer, Inv, TypeOK, Calls, devVars
<1>2. CASE Answer(t, "ok") /\ CommandOf(t) # "TX"
  BY <1>1, <1>2, AnswerInv
<1>3. CASE Answer(t, "NotConfigured")
  BY <1>1, <1>3, AnswerInv
<1>4. CASE /\ CommandOf(t) = "TX"
           /\ call' = [call EXCEPT ![t].wire = "ok", ![t].sent[call[t].sess] = @ + 1]
  BY <1>1, <1>4, Transmits, CommandStep
<1> QED BY <1>2, <1>3, <1>4

LEMMA CommandEndsInv ==
  ASSUME Inv, NEW t \in Threads, NEW r \in {"ok"} \cup Raised, Ends(t, r),
         call[t].wire # "none", CommandFrame, UNCHANGED devVars,
         r = "ok" => call[t].wire = "ok",
         r = "NotConfigured" => call[t].wire = "NotConfigured"
  PROVE  Inv'
<1> DEFINE c == [call[t] EXCEPT !.wire = "none", !.reply = r]
<1>1. call[t] \in Calls /\ call \in [Threads -> Calls]
  BY DEF Inv, TypeOK
<1>2. Becomes(t, c)
  <2>1. c \in Calls
    BY <1>1 DEF Calls
  <2>2. call'[t] = c /\ \A u \in Threads \ {t} : call'[u] = call[u]
    BY <1>1 DEF Ends
  <2>3. call' = [u \in Threads |-> call'[u]]
    BY <1>1 DEF Ends
  <2> QED BY <1>1, <2>1, <2>2, <2>3, BecomesCall
<1>3. c.sess = call[t].sess /\ c.wire = "none" /\ c.reply = r /\ c.op = call[t].op
      /\ c.ret = call[t].ret /\ c.sent = call[t].sent
  BY <1>1 DEF Calls
<1> HIDE DEF c
<1>4. ThreadOK(t)'
  BY <1>2, <1>3, Settles DEF Raised
<1>5. devCfg' \in Configs \cup {NoConfig} /\ devRx' \in BOOLEAN
  BY DEF Inv, TypeOK, devVars
<1> QED BY <1>2, <1>4, <1>5, CommandStep

LEMMA CommandOverInv ==
  ASSUME Inv, NEW t \in Threads, CommandReturns(t) \/ CommandLost(t) PROVE Inv'
<1>1. CASE CommandReturns(t)
  <2>1. call[t].wire \in {"ok"} \cup Raised
    BY <1>1 DEF CommandReturns, Inv, TypeOK, Calls
  <2> QED BY <1>1, <2>1, CommandEndsInv DEF CommandReturns
<1>2. CASE CommandLost(t)
  BY <1>2, CommandEndsInv DEF CommandLost, Raised
<1> QED BY <1>1, <1>2

LEMMA LinkInv ==
  ASSUME Inv, NEW s \in Sessions, LinkDrops(s) \/ ReaderDies(s) PROVE Inv'
<1> USE DEF LinkDrops, ReaderDies, EnvFrame
<1>1. PICK x \in {"lost", "dead"} : status' = [status EXCEPT ![s] = x]
  OBVIOUS
<1>2. status[s] \in {"up", "lost"}
  OBVIOUS
<1>3. TypeOK'
  BY <1>1 DEF Inv, TypeOK, flagVars, devVars, built
<1>4. \A q \in Sessions : status[q] \in {"closed", "dead", "unborn"} => status'[q] = status[q]
  BY <1>1, <1>2 DEF Inv, TypeOK
<1>5. Onward
  BY <1>4 DEF Onward, Dead, Inv, TypeOK, flagVars
<1>6. LockInv'
  BY <1>4, DongleAssumption DEF Inv, TypeOK, SessionInv, LockInv, Sessions
<1>7. BirthInv'
  BY <1>1, <1>2 DEF Inv, TypeOK, SessionInv, BirthInv
<1>8. SupersededClosed'
  BY <1>4, DongleAssumption DEF Inv, TypeOK, SessionInv, SupersededClosed, Sessions
<1>9. \A t \in Threads : ThreadOK(t)'
  BY <1>3, <1>5, OthersKept DEF Inv
<1> QED BY <1>3, <1>6, <1>7, <1>8, <1>9 DEF Inv, SessionInv

LEMMA DeviceForgetsInv ==
  ASSUME Inv, DeviceForgets PROVE Inv'
<1> USE DEF DeviceForgets, EnvFrame
<1>1. TypeOK'
  BY DEF Inv, TypeOK, flagVars, built
<1>2. Onward
  BY DEF Inv, TypeOK, Onward, Dead, flagVars
<1>3. SessionInv'
  BY DEF Inv, SessionInv, LockInv, BirthInv, SupersededClosed
<1>4. \A t \in Threads : ThreadOK(t)'
  BY <1>1, <1>2, OthersKept DEF Inv
<1> QED BY <1>1, <1>3, <1>4 DEF Inv

LEMMA StutterInv ==
  ASSUME Inv, UNCHANGED vars PROVE Inv'
<1> USE DEF vars, built, sessVars, flagVars, devVars
<1>1. TypeOK' /\ Onward
  BY DEF Inv, TypeOK, Onward, Dead
<1>2. SessionInv'
  BY DEF Inv, SessionInv, LockInv, BirthInv, SupersededClosed
<1>3. \A t \in Threads : ThreadOK(t)'
  BY <1>1, OthersKept DEF Inv
<1> QED BY <1>1, <1>2, <1>3 DEF Inv

LEMMA NextInv == Inv /\ [Next]_vars => Inv'
<1> SUFFICES ASSUME Inv, [Next]_vars PROVE Inv'
  OBVIOUS
<1>1. ASSUME NEW t \in Threads, CommandRuns(t) \/ DeviceActs(t) PROVE Inv'
  BY <1>1, SendCommandInv, CommandOverInv, DeviceActsInv DEF CommandRuns
<1>2. ASSUME NEW t \in Threads, RecoveryRuns(t) \/ ReopenerOpens(t) \/ ReopenerFails(t)
      PROVE  Inv'
  BY <1>2, EnsureAliveInv, TakeLockInv, ReopenLoopInv, BackoffInv, InstallInv, AdoptInv,
     RxRestartedInv, ReopenerOpensInv, ReopenerFailsInv DEF RecoveryRuns
<1>3. ASSUME NEW t \in Threads, BodyRuns(t) PROVE Inv'
  BY <1>3, OpReturnsInv, OpRaisesInv, RetryRaisesInv, ReapplyReturnsInv DEF BodyRuns
<1>4. ASSUME NEW u \in Threads, UserRuns(u) \/ Hears(u) \/ HearsNothing(u) \/ CloseBegins(u)
      PROVE  Inv'
  BY <1>4, RecvStartsInv, ListenInv, CloseInv, CloseShutsInv DEF UserRuns
<1>5. ASSUME NEW k \in Threads, KeeperRuns(k) PROVE Inv'
  BY <1>5, KeeperInv DEF KeeperRuns
<1>6. ASSUME NEW u \in Users, NEW o \in Ops, NEW c \in Configs \cup {NoConfig}, Begin(u, o, c)
      PROVE  Inv'
  BY <1>6, BeginInv DEF Threads
<1>7. ASSUME NEW s \in Sessions, LinkDrops(s) \/ ReaderDies(s) PROVE Inv'
  BY <1>7, LinkInv
<1>8. CASE DeviceForgets
  BY <1>8, DeviceForgetsInv
<1>9. CASE UNCHANGED vars
  BY <1>9, StutterInv
<1>10. ASSUME NEW t \in Threads, Runs(t) PROVE Inv'
  BY <1>1, <1>2, <1>3, <1>4, <1>5, <1>10 DEF Runs
<1> QED BY <1>1, <1>2, <1>4, <1>6, <1>7, <1>8, <1>9, <1>10 DEF Next, Terminated, Threads

LEMMA SpecInv == Spec => []Inv
  BY InitInv, NextInv, PTL DEF Spec

-----------------------------------------------------------------------------
(* The properties                                                          *)

\* Every variable has its type, whatever the number of threads and sessions.
THEOREM TypeCorrect == Spec => []TypeOK
<1>1. Inv => TypeOK
  BY DEF Inv
<1> QED BY <1>1, SpecInv, PTL

\* A reconnect (_recover_session_locked) leaks no transport: the session that
\* was replaced is closed.
THEOREM SupersededClosedHolds == Spec => []SupersededClosed
<1>1. Inv => SupersededClosed
  BY DEF Inv, SessionInv
<1> QED BY <1>1, SpecInv, PTL

LEMMA AtMostTwo ==
  ASSUME NEW S, NEW a, NEW b, S \subseteq {a, b} PROVE Cardinality(S) <= 2
<1>1. IsFiniteSet({a}) /\ Cardinality({a}) = 1
  BY FS_Singleton
<1>2. IsFiniteSet({a} \cup {b}) /\ Cardinality({a} \cup {b}) \in {1, 2}
  BY <1>1, FS_AddElement
<1>3. S \in SUBSET ({a} \cup {b})
  OBVIOUS
<1>4. IsFiniteSet(S) /\ Cardinality(S) <= Cardinality({a} \cup {b})
  BY <1>2, <1>3, FS_Subset
<1> QED BY <1>2, <1>4, FS_CardinalityType

\* tx() through _with_recovery: a return without an error tells of a transmission
\* by the attempt that returned, and there are two at most, on two sessions.
THEOREM TxHonestHolds == Spec => []TxHonest
<1>1. ASSUME Inv, NEW u \in Users PROVE \A s \in Sessions : call[u].sent[s] <= 1
  BY <1>1 DEF Inv, TypeOK, Calls, Threads
<1>2. ASSUME Inv, NEW u \in Users
      PROVE  Cardinality({s \in Sessions : call[u].sent[s] > 0}) <= 2
  <2>1. \E a, b : Only(u, {a, b})
    <3>1. Unsent(u) \/ Spent(u) \/ FirstOK(u) \/ SecondOK(u)
      BY <1>2 DEF Inv, ThreadOK, SentOK, Threads
    <3>2. CASE Unsent(u)
      BY <3>2 DEF Unsent, Only
    <3>3. CASE Spent(u)
      BY <3>3 DEF Spent, Only
    <3>4. CASE FirstOK(u)
      BY <3>4 DEF FirstOK, Only
    <3>5. CASE SecondOK(u)
      BY <3>5 DEF SecondOK
    <3> QED BY <3>1, <3>2, <3>3, <3>4, <3>5
  <2>2. PICK a, b : Only(u, {a, b})
    BY <2>1
  <2>3. {s \in Sessions : call[u].sent[s] > 0} \subseteq {a, b}
    BY <2>2 DEF Only
  <2> QED BY <2>3, AtMostTwo
<1>3. ASSUME Inv, NEW u \in Users, call[u].op = "tx", call[u].reply = "ok",
             pc[u] \in {"main", "again"}
      PROVE  call[u].sent[call[u].sess] = 1
  BY <1>3 DEF Inv, ThreadOK, SentOK, FirstOK, SecondOK, Succeeded, Threads
<1>4. Inv => TxHonest
  BY <1>1, <1>2, <1>3 DEF TxHonest
<1> QED BY <1>4, SpecInv, PTL

\* Every step that changes the sessions.
LEMMA SessionSteps ==
  ASSUME [Next]_vars
  PROVE  \/ UNCHANGED sessVars
         \/ \E t \in Threads :
              TakeLock(t) \/ ReopenerOpens(t) \/ Install(t) \/ CloseShuts(t)
         \/ \E s \in Sessions : LinkDrops(s) \/ ReaderDies(s)
<1>1. ASSUME NEW t \in Threads, CommandRuns(t) \/ DeviceActs(t) PROVE UNCHANGED sessVars
  BY <1>1 DEF CommandRuns, SendCommand, CommandReturns, CommandLost, DeviceActs, CommandFrame
<1>2. ASSUME NEW t \in Threads, RecoveryRuns(t) \/ ReopenerFails(t)
      PROVE  UNCHANGED sessVars \/ TakeLock(t) \/ Install(t)
  BY <1>2 DEF RecoveryRuns, EnsureAlive, ReopenLoop, Backoff, Adopt, RxRestarted, ReopenerFails
<1>3. ASSUME NEW t \in Threads, BodyRuns(t) PROVE UNCHANGED sessVars
  BY <1>3 DEF BodyRuns, OpReturns, OpRaises, RetryRaises, ReapplyReturns, BodyFrame
<1>4. ASSUME NEW u \in Threads, UserRuns(u) \/ Hears(u) \/ HearsNothing(u) \/ CloseBegins(u)
      PROVE  UNCHANGED sessVars \/ CloseShuts(u)
  BY <1>4 DEF UserRuns, RecvStarts, Listen, HearsDeath, RecvEnds, CloseMarks, CloseStops,
     Hears, HearsNothing, CloseBegins, BodyFrame, CloseFrame, sessVars
<1>5. ASSUME NEW k \in Threads, KeeperRuns(k) PROVE UNCHANGED sessVars
  BY <1>5 DEF KeeperRuns, KeeperStops, KeeperTicks, BodyFrame
<1>6. ASSUME NEW u, NEW o, NEW c, Begin(u, o, c) PROVE UNCHANGED sessVars
  BY <1>6 DEF Begin, BodyFrame
<1>7. ASSUME DeviceForgets \/ UNCHANGED vars PROVE UNCHANGED sessVars
  BY <1>7 DEF DeviceForgets, EnvFrame, vars, sessVars
<1> QED BY <1>1, <1>2, <1>3, <1>4, <1>5, <1>6, <1>7 DEF Next, Runs, Terminated, Threads

\* No reconnect throws away a session that is alive (_recover_session_locked looks
\* again under the lock), and only close() closes one.
THEOREM LiveSessionKeptHolds == Spec => LiveSessionKept
<1> DEFINE Kept(s) ==
             (s = session => session' = session) /\ (status'[s] = "closed" => dclosed)
<1>1. ASSUME Inv, [Next]_vars, NEW s \in Sessions, IsAlive(s) PROVE Kept(s)
  <2>1. CASE UNCHANGED sessVars
    BY <1>1, <2>1 DEF IsAlive, sessVars
  <2>2. ASSUME NEW t \in Threads, TakeLock(t) PROVE Kept(s)
    BY <1>1, <2>2 DEF TakeLock, CloseOld, IsAlive, Inv, TypeOK
  <2>3. ASSUME NEW t \in Threads, ReopenerOpens(t) PROVE Kept(s)
    BY <1>1, <2>3 DEF ReopenerOpens, IsAlive, Inv, TypeOK, Sessions
  <2>4. ASSUME NEW t \in Threads, Install(t) PROVE Kept(s)
    BY <1>1, <2>4 DEF Install, IsAlive, Inv, SessionInv, LockInv, Unreplaced
  <2>5. ASSUME NEW t \in Threads, CloseShuts(t) PROVE Kept(s)
    BY <1>1, <2>5 DEF CloseShuts, CloseFrame, Inv, ThreadOK, CloseOK
  <2>6. ASSUME NEW q \in Sessions, LinkDrops(q) \/ ReaderDies(q) PROVE Kept(s)
    BY <1>1, <2>6 DEF LinkDrops, ReaderDies, EnvFrame, IsAlive, Inv, TypeOK
  <2> QED BY <1>1, <2>1, <2>2, <2>3, <2>4, <2>5, <2>6, SessionSteps
<1>2. Inv /\ [Next]_vars =>
        [\A s \in Sessions :
           IsAlive(s) => /\ s = session => session' = session
                         /\ status'[s] = "closed" => dclosed]_sessVars
  BY <1>1
<1> QED BY <1>2, SpecInv, PTL DEF Spec, LiveSessionKept

\* Only its own steps move a thread, and those of a command do not.
UserSteps(u) ==
  \/ UserRuns(u) \/ Hears(u) \/ HearsNothing(u) \/ CloseBegins(u)
  \/ \E o \in Ops : \E c \in Configs \cup {NoConfig} : Begin(u, o, c)
ThreadSteps(t) ==
  \/ RecoveryRuns(t) \/ ReopenerOpens(t) \/ ReopenerFails(t) \/ BodyRuns(t)
  \/ t \in Users /\ UserSteps(t)
  \/ t \in Keepers /\ KeeperRuns(t)

LEMMA PcSteps ==
  ASSUME TypeOK, [Next]_vars, NEW v \in Threads, pc'[v] # pc[v]
  PROVE  ThreadSteps(v)
<1>1. pc \in [Threads -> Labels]
  BY DEF TypeOK
<1>2. ASSUME NEW t \in Threads, CommandRuns(t) \/ DeviceActs(t) PROVE FALSE
  BY <1>2 DEF CommandRuns, SendCommand, CommandReturns, CommandLost, DeviceActs, CommandFrame
<1>3. ASSUME NEW t \in Threads, v # t, RecoveryRuns(t) \/ ReopenerOpens(t) \/ ReopenerFails(t)
      PROVE  FALSE
  BY <1>1, <1>3 DEF RecoveryRuns, EnsureAlive, TakeLock, ReopenLoop, Backoff, Install, Adopt,
     RxRestarted, ReopenerOpens, ReopenerFails, Leave, Release, Goto
<1>4. ASSUME NEW t \in Threads, v # t, BodyRuns(t) PROVE FALSE
  BY <1>1, <1>4 DEF BodyRuns, OpReturns, Complete, OpRaises, RetryRaises, ReapplyReturns,
     Leave, Goto
<1>5. ASSUME NEW u \in Threads, v # u, UserSteps(u) PROVE FALSE
  BY <1>1, <1>5 DEF UserSteps, UserRuns, RecvStarts, Listen, HearsDeath, RecvEnds, CloseMarks,
     CloseStops, CloseShuts, Hears, HearsNothing, CloseBegins, Begin, Ensure, Leave, Goto
<1>6. ASSUME NEW k \in Threads, v # k, KeeperRuns(k) PROVE FALSE
  BY <1>1, <1>6 DEF KeeperRuns, KeeperStops, KeeperTicks, Ensure, Goto
<1>7. ASSUME NEW s \in Sessions, LinkDrops(s) \/ ReaderDies(s) PROVE FALSE
  BY <1>7 DEF LinkDrops, ReaderDies, EnvFrame
<1>8. ASSUME DeviceForgets \/ UNCHANGED vars PROVE FALSE
  BY <1>8 DEF DeviceForgets, EnvFrame, vars
<1>9. ASSUME NEW t \in Threads, Runs(t) \/ DeviceActs(t) \/ ReopenerOpens(t) \/ ReopenerFails(t)
      PROVE  ThreadSteps(v)
  BY <1>2, <1>3, <1>4, <1>5, <1>6, <1>9 DEF Runs, ThreadSteps, UserSteps
<1>10. ASSUME NEW u \in Users, UserSteps(u) PROVE ThreadSteps(v)
  BY <1>5, <1>10 DEF ThreadSteps, Threads
<1> QED BY <1>7, <1>8, <1>9, <1>10 DEF Next, Terminated, UserSteps

\* _keepalive_loop ends when it is told to, or when rx_start() raises an OSError in
\* a reconnect of its own, and for no other reason.
THEOREM KeeperEndsHolds == Spec => KeeperEnds
<1> DEFINE Told(k) == kstop \/ (pc[k] = "restart" /\ call[k].reply = "OSError")
<1>1. ASSUME Inv, [Next]_vars, NEW k \in Keepers, pc[k] # "gone", pc'[k] = "gone"
      PROVE  Told(k)
  <2>1. k \in Threads /\ k \notin Users /\ pc \in [Threads -> Labels]
        /\ call[k].reply \in {"none", "ok"} \cup Raised
    BY <1>1, DongleAssumption DEF Threads, Inv, TypeOK, Calls
  <2>2. pc[k] \in Ensuring => call[k].ret # "gone"
    BY <1>1, <2>1, RetType
  <2>3. ThreadSteps(k)
    BY <1>1, <2>1, PcSteps DEF Inv
  <2>4. CASE RxRestarted(k)
    BY <1>1, <2>1, <2>2, <2>4
       DEF RxRestarted, Release, Goto, Caught, Raised, Ensuring, Recovering
  <2>5. CASE \/ EnsureAlive(k) \/ TakeLock(k) \/ ReopenLoop(k) \/ Backoff(k) \/ Install(k)
             \/ Adopt(k) \/ ReopenerOpens(k) \/ ReopenerFails(k)
    BY <1>1, <2>1, <2>2, <2>5
       DEF EnsureAlive, TakeLock, ReopenLoop, Backoff, Install, Adopt, ReopenerOpens,
       ReopenerFails, Leave, Release, Goto, Ensuring, Recovering, Unreplaced
  <2>6. CASE BodyRuns(k)
    BY <1>1, <2>1, <2>6 DEF BodyRuns, OpReturns, Complete, OpRaises, RetryRaises,
       ReapplyReturns, Leave, Goto
  <2>7. CASE KeeperRuns(k)
    BY <1>1, <2>1, <2>7 DEF KeeperRuns, KeeperStops, KeeperTicks, Ensure, Goto
  <2> QED BY <2>1, <2>3, <2>4, <2>5, <2>6, <2>7 DEF ThreadSteps, RecoveryRuns
<1>2. Inv /\ [Next]_vars =>
        [\A k \in Keepers : pc[k] # "gone" /\ pc'[k] = "gone" =>
           kstop \/ (pc[k] = "restart" /\ call[k].reply = "OSError")]_vars
  BY <1>1
<1> QED BY <1>2, SpecInv, PTL DEF Spec, KeeperEnds

\* _with_recovery: the error of a session that died is the caller's only when
\* another session has taken its place.
THEOREM DeathRetriedHolds == Spec => DeathRetried
<1> DEFINE Failed(u) ==
             /\ pc[u] = "main" /\ Recovers(u) /\ reopener
             /\ call[u].reply = "DongloraError" /\ ~IsAlive(call[u].sess)
             /\ pc'[u] = "idle"
<1>1. ASSUME Inv, [Next]_vars, NEW u \in Users, Failed(u) PROVE call[u].sess < session
  <2>1. u \in Threads /\ pc \in [Threads -> Labels] /\ pc'[u] # pc[u]
    BY <1>1 DEF Threads, Inv, TypeOK
  <2>2. ThreadSteps(u)
    BY <1>1, <2>1, PcSteps DEF Inv
  <2>3. OpRaises(u)
    <3>1. ~RecoveryRuns(u) /\ ~ReopenerOpens(u) /\ ~ReopenerFails(u)
      BY <1>1 DEF RecoveryRuns, EnsureAlive, TakeLock, ReopenLoop, Backoff, Install, Adopt,
         RxRestarted, ReopenerOpens, ReopenerFails
    <3>2. ~UserSteps(u)
      BY <1>1 DEF UserSteps, UserRuns, RecvStarts, Listen, HearsDeath, RecvEnds, CloseMarks,
         CloseStops, CloseShuts, Hears, HearsNothing, CloseBegins, Begin
    <3>3. ~KeeperRuns(u)
      BY <1>1 DEF KeeperRuns, KeeperStops, KeeperTicks
    <3>4. BodyRuns(u)
      BY <2>2, <3>1, <3>2, <3>3 DEF ThreadSteps
    <3> QED BY <1>1, <3>4 DEF BodyRuns, OpReturns, RetryRaises, ReapplyReturns
  <2>4. IsAlive(session)
    BY <1>1, <2>1, <2>3 DEF OpRaises, Retries, Goto
  <2>5. call[u].sess <= session /\ call[u].sess # session
    BY <1>1, <2>1, <2>4 DEF Inv, ThreadOK, CommandOK
  <2>6. call[u].sess \in Int /\ session \in Int
    BY <1>1, <2>1, DongleAssumption DEF Inv, TypeOK, Calls, Sessions
  <2> QED BY <2>5, <2>6
<1>2. Inv /\ [Next]_vars =>
        [\A u \in Users :
           /\ pc[u] = "main" /\ Recovers(u) /\ reopener
           /\ call[u].reply = "DongloraError" /\ ~IsAlive(call[u].sess)
           /\ pc'[u] = "idle"
           => call[u].sess < session]_vars
  BY <1>1
<1> QED BY <1>2, SpecInv, PTL DEF Spec, DeathRetried
=============================================================================
