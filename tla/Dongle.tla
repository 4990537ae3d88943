------------------------------- MODULE Dongle -------------------------------
(***************************************************************************)
(* donglora/dongle.py: the Dongle.  User threads call its methods and      *)
(* close(); the keepalive thread runs _keepalive_loop.  Every step between *)
(* two reads or writes of what other threads can change (self._session,    *)
(* self._closed, the recover lock, the device) is one action.              *)
(*                                                                         *)
(* A Session is seen from the outside, as Session.tla models it from the   *)
(* inside: "up"; "lost", its transport gone but the reader not yet aware;  *)
(* "dead", the reader gone; "closed" by us.  A command sent on it returns  *)
(* the device's answer, or raises a DongloraError (time-out, death of the  *)
(* reader, close), or, when the transport is gone, some other exception.   *)
(*                                                                         *)
(* The reopener is connect.py's _open_and_init.  The device, its           *)
(* inactivity timer and the link are outside the repository.               *)
(***************************************************************************)
EXTENDS Integers, FiniteSets

CONSTANTS
  Users,        \* threads that call the methods of the Dongle
  Keepers,      \* the keepalive thread, or nothing (keepalive=False)
  Ops,          \* methods used, a subset of AllOps
  Configs,      \* modulations
  NoConfig,     \* None
  Boots,        \* what connect() may be asked to apply: modulations or None
  Reopeners,    \* whether a reopener may have been supplied
  Faults,       \* what may go wrong, a subset of AllFaults
  Nobody,       \* no thread holds the recover lock
  MaxSessions   \* bound: sessions opened in the life of the Dongle

AllOps == {"tx", "rx", "recv", "rx_stop", "set_config", "ping"}

\* The link drops, the device forgets its configuration on an inactivity
\* time-out, or another client of the mux holds the configuration.
AllFaults == {"drop", "forget", "locked"}

ASSUME DongleAssumption ==
  /\ Users \cap Keepers = {}
  /\ \A k, l \in Keepers : k = l
  /\ Nobody \notin Users \cup Keepers
  /\ Ops \subseteq AllOps
  /\ Faults \subseteq AllFaults
  /\ NoConfig \notin Configs
  /\ Boots \subseteq Configs \cup {NoConfig}
  /\ Reopeners \subseteq BOOLEAN
  /\ MaxSessions \in Nat \ {0}

VARIABLES
  boot, reopener, \* how the Dongle was built: connect()'s config, _reopener
  session,    \* self._session, as the ordinal of the session
  nsess,      \* sessions opened so far
  status,     \* of each session
  applied,    \* self._applied_config
  rxStarted,  \* self._rx_started
  dclosed,    \* self._closed
  kstop,      \* self._keepalive_stop
  lock,       \* the thread that holds self._recover_lock
  newCfg,     \* third result of the reopener, until it is stored
  devCfg,     \* configuration of the device
  devRx,      \* the device is in continuous receive
  pc,         \* each thread's program counter
  call        \* each thread's method call in progress

sessVars == <<session, nsess, status>>
flagVars == <<applied, rxStarted, dclosed, kstop>>
devVars  == <<devCfg, devRx>>
built    == <<boot, reopener>>
vars == <<built, sessVars, flagVars, lock, newCfg, devVars, pc, call>>

Threads == Users \cup Keepers
Sessions == 1..MaxSessions

\* Call sites of a command, by where its result goes: op(), op() once more,
\* set_config(self._applied_config), and rx_start() on a new session.
Sites == {"main", "again", "reapply", "restart"}

Raised == {"NotConfigured", "DongloraError", "OSError"}

\* op: the method; ret: where to go on when _ensure_session_alive returns;
\* arg: the modulation of a set_config; sess: the session a command or next_rx
\* runs on; wire: the command, and then the answer, under way; reply: what the
\* command returned or raised; sent: how often the device transmitted for this
\* call, by session.
NoCall ==
  [op |-> "none", ret |-> "none", arg |-> NoConfig, sess |-> 0,
   wire |-> "none", reply |-> "none", sent |-> [s \in Sessions |-> 0]]

IsAlive(s) == status[s] \in {"up", "lost"}

Init ==
  /\ boot \in Boots /\ reopener \in Reopeners
  /\ session = 1 /\ nsess = 1
  /\ status = [s \in Sessions |-> IF s = 1 THEN "up" ELSE "unborn"]
  /\ applied = boot /\ devCfg = boot /\ newCfg = NoConfig
  /\ rxStarted = FALSE /\ devRx = FALSE /\ dclosed = FALSE /\ kstop = FALSE
  /\ lock = Nobody
  /\ pc = [t \in Threads |-> IF t \in Users THEN "idle" ELSE "sleep"]
  /\ call = [t \in Threads |-> NoCall]

Goto(t, label) == pc' = [pc EXCEPT ![t] = label]

\* The method returns or raises; the keepalive loop goes round.
Leave(t) ==
  /\ Goto(t, IF t \in Users THEN "idle" ELSE "sleep")
  /\ call' = [call EXCEPT ![t] = NoCall]

\* Call _ensure_session_alive, to go on at ret.
Ensure(t, ret) ==
  Goto(t, "ensure") /\ call' = [call EXCEPT ![t].ret = ret]

-----------------------------------------------------------------------------
(* _ensure_session_alive and _recover_session_locked                       *)

EnsureAlive(t) ==
  /\ pc[t] = "ensure"
  /\ \/ IsAlive(session) /\ Goto(t, call[t].ret) /\ UNCHANGED call
     \/ ~IsAlive(session) /\ ~reopener /\ Leave(t)
     \/ ~IsAlive(session) /\ reopener /\ Goto(t, "lock") /\ UNCHANGED call
  /\ UNCHANGED <<built, sessVars, flagVars, lock, newCfg, devVars>>

\* Faulty: the dead session is dropped without a close().
CloseOldLeaks(s) == UNCHANGED status

\* old_session.close()
CloseOld(s) == status' = [status EXCEPT ![s] = "closed"]

\* Faulty: another thread's reconnect goes unnoticed.
TakeLockBlind(t) ==
  /\ pc[t] = "lock"
  /\ lock = Nobody
  /\ lock' = t /\ CloseOld(session) /\ Goto(t, "reopen")
  /\ UNCHANGED <<built, session, nsess, flagVars, newCfg, devVars, call>>

\* with self._recover_lock: look again, then start to recover.
TakeLock(t) ==
  /\ pc[t] = "lock"
  /\ lock = Nobody
  /\ IF IsAlive(session)
     THEN Goto(t, call[t].ret) /\ UNCHANGED <<lock, status>>
     ELSE lock' = t /\ CloseOld(session) /\ Goto(t, "reopen")
  /\ UNCHANGED <<built, session, nsess, flagVars, newCfg, devVars, call>>

\* _recover_session_locked returns, and with it _ensure_session_alive.
Release(t) == lock' = Nobody /\ Goto(t, call[t].ret)

\* while not self._closed and not self._keepalive_stop.is_set()
ReopenLoop(t) ==
  /\ pc[t] = "reopen"
  /\ IF dclosed \/ kstop THEN Release(t)
                         ELSE Goto(t, "opening") /\ UNCHANGED lock
  /\ UNCHANGED <<built, sessVars, flagVars, newCfg, devVars, call>>

\* What the device holds after SET_CONFIG(c): c, or what another client of the
\* mux has locked it to (LOCKED_MISMATCH, which is an OK).  A SET_CONFIG that is
\* applied ends continuous RX.
DeviceStores(c) ==
  \/ devCfg' = c /\ devRx' = FALSE
  \/ "locked" \in Faults /\ devCfg \notin {NoConfig, c} /\ UNCHANGED devVars

\* self._reopener() returns a session that is configured as at connect time.
ReopenerOpens(t) ==
  /\ pc[t] = "opening"
  /\ nsess < MaxSessions
  /\ nsess' = nsess + 1
  /\ status' = [status EXCEPT ![nsess + 1] = "up"]
  /\ IF boot = NoConfig THEN newCfg' = NoConfig /\ UNCHANGED devVars
                        ELSE DeviceStores(boot) /\ newCfg' = devCfg'
  /\ Goto(t, "install")
  /\ UNCHANGED <<built, session, flagVars, lock, call>>

\* It raises a DongloraError or an OSError.
ReopenerFails(t) ==
  /\ pc[t] = "opening"
  /\ Goto(t, "backoff")
  /\ UNCHANGED <<built, sessVars, flagVars, lock, newCfg, devVars, call>>

\* self._keepalive_stop.wait(backoff)
Backoff(t) ==
  /\ pc[t] = "backoff"
  /\ IF kstop THEN Release(t) ELSE Goto(t, "reopen") /\ UNCHANGED lock
  /\ UNCHANGED <<built, sessVars, flagVars, newCfg, devVars, call>>

\* self._session = new_session; only the holder of the lock opens sessions, so
\* the new one is the last.
Install(t) ==
  /\ pc[t] = "install"
  /\ session' = nsess
  /\ Goto(t, "adopt")
  /\ UNCHANGED <<built, nsess, status, flagVars, lock, newCfg, devVars, call>>

\* self._applied_config = applied; if self._rx_started: new_session.rx_start()
Adopt(t) ==
  /\ pc[t] = "adopt"
  /\ applied' = IF newCfg = NoConfig THEN applied ELSE newCfg
  /\ newCfg' = NoConfig
  /\ IF rxStarted THEN Goto(t, "restart") /\ UNCHANGED lock ELSE Release(t)
  /\ UNCHANGED <<built, sessVars, rxStarted, dclosed, kstop, devVars, call>>

ReplyTaken(t) == [call EXCEPT ![t].reply = "none", ![t].sess = 0]

\* Faulty: nothing is caught.
CaughtNothing == {}

\* except DongloraError
Caught == {"DongloraError", "NotConfigured"}

\* The except covers what rx_start() raises, save an OSError: that escapes, and
\* ends the keepalive thread.
RxRestarted(t) ==
  /\ pc[t] = "restart"
  /\ \/ /\ call[t].reply = "ok"
        /\ Release(t)
        /\ call' = ReplyTaken(t)
        /\ UNCHANGED rxStarted
     \/ /\ call[t].reply \in Caught
        /\ rxStarted' = FALSE
        /\ Release(t)
        /\ call' = ReplyTaken(t)
     \/ /\ call[t].reply \in Raised \ Caught
        /\ lock' = Nobody
        /\ Goto(t, IF t \in Users THEN "idle" ELSE "gone")
        /\ call' = [call EXCEPT ![t] = NoCall]
        /\ UNCHANGED rxStarted
  /\ UNCHANGED <<built, sessVars, applied, dclosed, kstop, newCfg, devVars>>

-----------------------------------------------------------------------------
(* A command on a session, from any of the sites                           *)

CommandFrame == UNCHANGED <<built, sessVars, flagVars, lock, newCfg, pc>>

CommandOf(t) ==
  CASE pc[t] = "reapply"                             -> "SET_CONFIG"
    [] pc[t] = "restart"                             -> "RX_START"
    [] pc[t] \notin Sites                            -> "none"
    [] OTHER -> CASE call[t].op = "tx"               -> "TX"
                  [] call[t].op \in {"rx", "recv"}   -> "RX_START"
                  [] call[t].op = "rx_stop"          -> "RX_STOP"
                  [] call[t].op = "set_config"       -> "SET_CONFIG"
                  [] OTHER                           -> "PING"

\* self._session is read here, and not again until the command is over.
SendCommand(t) ==
  /\ pc[t] \in Sites
  /\ call[t].wire = "none" /\ call[t].reply = "none"
  /\ call' = [call EXCEPT ![t].sess = session, ![t].wire = "sent"]
  /\ CommandFrame /\ UNCHANGED devVars

Answer(t, a) == call' = [call EXCEPT ![t].wire = a]

\* The device (external) carries the command out, or refuses it for want of a
\* configuration.
DeviceActs(t) ==
  /\ call[t].wire = "sent"
  /\ status[call[t].sess] = "up"
  /\ \/ /\ CommandOf(t) = "SET_CONFIG"
        /\ DeviceStores(call[t].arg)
        /\ Answer(t, "ok")
     \/ /\ CommandOf(t) = "TX" /\ devCfg # NoConfig
        /\ call' = [call EXCEPT ![t].wire = "ok", ![t].sent[call[t].sess] = @ + 1]
        /\ UNCHANGED devVars
     \/ /\ CommandOf(t) = "RX_START" /\ devCfg # NoConfig
        /\ devRx' = TRUE
        /\ Answer(t, "ok") /\ UNCHANGED devCfg
     \/ /\ CommandOf(t) = "RX_STOP"
        /\ devRx' = FALSE
        /\ Answer(t, "ok") /\ UNCHANGED devCfg
     \/ /\ CommandOf(t) = "PING"
        /\ Answer(t, "ok") /\ UNCHANGED devVars
     \/ /\ CommandOf(t) # "SET_CONFIG" /\ devCfg = NoConfig
        /\ Answer(t, "NotConfigured") /\ UNCHANGED devVars
  /\ CommandFrame

Ends(t, r) == call' = [call EXCEPT ![t].wire = "none", ![t].reply = r]

CommandReturns(t) ==
  /\ call[t].wire \notin {"none", "sent"}
  /\ Ends(t, call[t].wire)
  /\ CommandFrame /\ UNCHANGED devVars

\* Any other ERR, a time-out, or the session dies or is closed, answered or not:
\* a DongloraError.  On a transport that is gone the write may raise an OSError.
CommandLost(t) ==
  /\ call[t].wire # "none"
  /\ \/ Ends(t, "DongloraError")
     \/ /\ call[t].wire = "sent" /\ status[call[t].sess] # "up"
        /\ Ends(t, "OSError")
  /\ CommandFrame /\ UNCHANGED devVars

-----------------------------------------------------------------------------
(* The methods, and _with_recovery                                         *)

BodyFrame == UNCHANGED <<built, sessVars, dclosed, kstop, lock, newCfg, devVars>>

\* _check_open passes.  tx and rx go through _with_recovery, the others call
\* _ensure_session_alive themselves.
Begin(u, o, c) ==
  /\ pc[u] = "idle"
  /\ ~dclosed
  /\ c \in (IF o = "set_config" THEN Configs ELSE {NoConfig})
  /\ LET ret == IF o = "recv" THEN "recv" ELSE "main" IN
       call' = [call EXCEPT ![u].op = o, ![u].arg = c, ![u].ret = ret]
  /\ Goto(u, IF o = "rx" /\ rxStarted THEN "listen" ELSE "ensure")
  /\ BodyFrame /\ UNCHANGED <<applied, rxStarted>>

\* recv: if not self._rx_started
RecvStarts(u) ==
  /\ pc[u] = "recv"
  /\ IF rxStarted THEN Goto(u, "listen") /\ UNCHANGED call ELSE Ensure(u, "main")
  /\ BodyFrame /\ UNCHANGED <<applied, rxStarted>>

\* What the method does once its command has succeeded.
Complete(t) ==
  LET o == call[t].op IN
  \/ o \in {"tx", "ping", "keepalive"} /\ Leave(t) /\ UNCHANGED <<applied, rxStarted>>
  \/ /\ o \in {"rx", "recv"}
     /\ rxStarted' = TRUE
     /\ Goto(t, "listen")
     /\ call' = ReplyTaken(t)
     /\ UNCHANGED applied
  \/ o = "rx_stop" /\ rxStarted' = FALSE /\ Leave(t) /\ UNCHANGED applied
  \/ o = "set_config" /\ applied' = call[t].arg /\ rxStarted' = FALSE /\ Leave(t)

\* The methods run by _with_recovery.
Recovers(t) == call[t].op \in {"tx", "rx", "recv"}

OpReturns(t) ==
  /\ pc[t] \in {"main", "again"}
  /\ call[t].reply = "ok"
  /\ Complete(t)
  /\ BodyFrame

\* except NotConfiguredError, in _with_recovery and in the keepalive loop.
Reapplies(t) ==
  /\ call[t].reply = "NotConfigured"
  /\ Recovers(t) \/ call[t].op = "keepalive"
  /\ applied # NoConfig

\* Faulty: any DongloraError is retried, on a live session too.
RetriesAlways(t) == Recovers(t) /\ call[t].reply = "DongloraError" /\ reopener

\* Faulty: a session that another thread has closed, to replace it, is not dead.
RetriesUnclosed(t) ==
  /\ Recovers(t)
  /\ call[t].reply = "DongloraError"
  /\ status[session] = "dead" /\ reopener

\* except DongloraError: the session is looked up again, not the one that
\* the command ran on.
Retries(t) ==
  /\ Recovers(t)
  /\ call[t].reply = "DongloraError"
  /\ ~IsAlive(session) /\ reopener

OpRaises(t) ==
  /\ pc[t] = "main"
  /\ call[t].reply \in Raised
  /\ \/ /\ Reapplies(t)
        /\ Goto(t, "reapply")
        /\ call' = [ReplyTaken(t) EXCEPT ![t].arg = applied]
     \/ /\ Retries(t)
        /\ Goto(t, "ensure")
        /\ call' = [ReplyTaken(t) EXCEPT ![t].ret = "again"]
     \/ ~Reapplies(t) /\ ~Retries(t) /\ Leave(t)
  /\ BodyFrame /\ UNCHANGED <<applied, rxStarted>>

\* The second attempt, or the set_config before it, raises.
RetryRaises(t) ==
  /\ pc[t] \in {"again", "reapply"}
  /\ call[t].reply \in Raised
  /\ Leave(t)
  /\ BodyFrame /\ UNCHANGED <<applied, rxStarted>>

\* self._session.set_config(self._applied_config) succeeds: op() once more.
ReapplyReturns(t) ==
  /\ pc[t] = "reapply"
  /\ call[t].reply = "ok"
  /\ IF Recovers(t) THEN Goto(t, "again") /\ call' = ReplyTaken(t) ELSE Leave(t)
  /\ BodyFrame /\ UNCHANGED <<applied, rxStarted>>

\* next_rx, of recv and of _RxIterator: self._session is read here.
Listen(u) ==
  /\ pc[u] = "listen"
  /\ call' = [call EXCEPT ![u].sess = session]
  /\ Goto(u, "wait")
  /\ BodyFrame /\ UNCHANGED <<applied, rxStarted>>

\* A packet.  recv returns it; an iterator is asked for the next, or is not.
Hears(u) ==
  /\ pc[u] = "wait"
  /\ IsAlive(call[u].sess)
  /\ \/ Leave(u)
     \/ call[u].op = "rx" /\ Goto(u, "listen") /\ call' = [call EXCEPT ![u].sess = 0]
  /\ BodyFrame /\ UNCHANGED <<applied, rxStarted>>

\* None, on the reader's death.  An iterator stops there; recv reconnects.
HearsDeath(u) ==
  /\ pc[u] = "wait"
  /\ ~IsAlive(call[u].sess)
  /\ IF call[u].op = "recv" /\ ~IsAlive(session)
     THEN /\ Goto(u, "ensure")
          /\ call' = [call EXCEPT ![u].sess = 0, ![u].ret = "end"]
     ELSE Leave(u)
  /\ BodyFrame /\ UNCHANGED <<applied, rxStarted>>

\* None, on a time-out while the session is alive.
HearsNothing(u) ==
  /\ pc[u] = "wait"
  /\ IsAlive(call[u].sess)
  /\ Leave(u)
  /\ BodyFrame /\ UNCHANGED <<applied, rxStarted>>

RecvEnds(u) ==
  /\ pc[u] = "end"
  /\ Leave(u)
  /\ BodyFrame /\ UNCHANGED <<applied, rxStarted>>

CloseFrame ==
  UNCHANGED <<built, session, nsess, applied, rxStarted, lock, newCfg, devVars, call>>

\* if self._closed: return.  The test and the assignment are two steps.
CloseBegins(u) ==
  /\ pc[u] = "idle"
  /\ ~dclosed
  /\ Goto(u, "mark")
  /\ CloseFrame /\ UNCHANGED <<status, dclosed, kstop>>

CloseMarks(u) ==
  /\ pc[u] = "mark"
  /\ dclosed' = TRUE
  /\ Goto(u, "stop")
  /\ CloseFrame /\ UNCHANGED <<status, kstop>>

CloseStops(u) ==
  /\ pc[u] = "stop"
  /\ kstop' = TRUE
  /\ Goto(u, "shut")
  /\ CloseFrame /\ UNCHANGED <<status, dclosed>>

CloseShuts(u) ==
  /\ pc[u] = "shut"
  /\ status' = [status EXCEPT ![session] = "closed"]
  /\ Goto(u, "idle")
  /\ CloseFrame /\ UNCHANGED <<dclosed, kstop>>

-----------------------------------------------------------------------------
(* _keepalive_loop.  That a recent write makes it skip the PING is a tick   *)
(* that does nothing: when it pings is left open.                          *)

KeeperStops(k) ==
  /\ pc[k] = "sleep"
  /\ kstop
  /\ Goto(k, "gone")
  /\ BodyFrame /\ UNCHANGED <<applied, rxStarted, call>>

\* Faulty: the reconnect is left to the next method call.
KeeperOnlyPings(k) ==
  /\ pc[k] = "sleep"
  /\ ~kstop
  /\ Goto(k, "main") /\ call' = [call EXCEPT ![k].op = "keepalive"]
  /\ BodyFrame /\ UNCHANGED <<applied, rxStarted>>

\* Faulty: what stop.wait() returns is not looked at.
KeeperNeverStops(k) ==
  /\ pc[k] = "sleep"
  /\ IF ~IsAlive(session) /\ reopener
     THEN Ensure(k, "sleep")
     ELSE Goto(k, "main") /\ call' = [call EXCEPT ![k].op = "keepalive"]
  /\ BodyFrame /\ UNCHANGED <<applied, rxStarted>>

KeeperTicks(k) ==
  /\ pc[k] = "sleep"
  /\ ~kstop
  /\ IF ~IsAlive(session) /\ reopener
     THEN Ensure(k, "sleep")
     ELSE Goto(k, "main") /\ call' = [call EXCEPT ![k].op = "keepalive"]
  /\ BodyFrame /\ UNCHANGED <<applied, rxStarted>>

-----------------------------------------------------------------------------
(* The link and the device (external)                                      *)

EnvFrame == UNCHANGED <<built, session, nsess, flagVars, lock, newCfg, pc, call>>

LinkDrops(s) ==
  /\ "drop" \in Faults
  /\ status[s] = "up"
  /\ status' = [status EXCEPT ![s] = "lost"]
  /\ EnvFrame /\ UNCHANGED devVars

\* The session's reader thread notices.
ReaderDies(s) ==
  /\ status[s] = "lost"
  /\ status' = [status EXCEPT ![s] = "dead"]
  /\ EnvFrame /\ UNCHANGED devVars

DeviceForgets ==
  /\ "forget" \in Faults
  /\ devCfg # NoConfig
  /\ devCfg' = NoConfig /\ devRx' = FALSE
  /\ EnvFrame /\ UNCHANGED status

-----------------------------------------------------------------------------

\* A command always ends: every one has a finite time-out.
CommandRuns(t) == SendCommand(t) \/ CommandReturns(t) \/ CommandLost(t)

RecoveryRuns(t) ==
  \/ EnsureAlive(t) \/ TakeLock(t) \/ ReopenLoop(t) \/ Backoff(t) \/ Install(t)
  \/ Adopt(t) \/ RxRestarted(t)

BodyRuns(t) ==
  \/ OpReturns(t) \/ OpRaises(t) \/ RetryRaises(t) \/ ReapplyReturns(t)

UserRuns(u) ==
  \/ RecvStarts(u) \/ Listen(u) \/ HearsDeath(u) \/ RecvEnds(u)
  \/ CloseMarks(u) \/ CloseStops(u) \/ CloseShuts(u)

KeeperRuns(k) == KeeperStops(k) \/ KeeperTicks(k)

Runs(t) ==
  \/ CommandRuns(t) \/ RecoveryRuns(t) \/ BodyRuns(t)
  \/ t \in Users /\ UserRuns(t)
  \/ t \in Keepers /\ KeeperRuns(t)

\* The Dongle is closed and nobody is inside a method.
Terminated ==
  /\ dclosed
  /\ \A t \in Threads : pc[t] \in {"idle", "gone"}
  /\ UNCHANGED vars

Next ==
  \/ \E t \in Threads :
       Runs(t) \/ DeviceActs(t) \/ ReopenerOpens(t) \/ ReopenerFails(t)
  \/ \E u \in Users :
       \/ \E o \in Ops : \E c \in Configs \cup {NoConfig} : Begin(u, o, c)
       \/ Hears(u) \/ HearsNothing(u) \/ CloseBegins(u)
  \/ \E s \in Sessions : LinkDrops(s) \/ ReaderDies(s)
  \/ DeviceForgets
  \/ Terminated

Spec == Init /\ [][Next]_vars

\* Threads are scheduled and commands end; a reader notices that its transport
\* is gone; a reopener that is tried again and again opens in the end (the
\* device comes back).  Nothing makes a user call, a packet come or the link
\* drop.
Fairness ==
  /\ \A t \in Threads : WF_vars(Runs(t)) /\ SF_vars(ReopenerOpens(t))
  /\ \A t \in Threads : WF_vars(ReopenerOpens(t) \/ ReopenerFails(t))
  /\ \A s \in Sessions : WF_vars(ReaderDies(s))

FairSpec == Spec /\ Fairness

-----------------------------------------------------------------------------
(* Properties                                                              *)

Labels ==
  Sites \cup {"idle", "sleep", "gone", "ensure", "lock", "reopen", "opening",
    "backoff", "install", "adopt", "recv", "listen", "wait", "end", "mark",
    "stop", "shut"}

Calls ==
  [op : AllOps \cup {"none", "keepalive"},
   ret : {"none", "main", "again", "recv", "end", "sleep"},
   arg : Configs \cup {NoConfig},
   sess : 0..MaxSessions,
   wire : {"none", "sent", "ok"} \cup Raised,
   reply : {"none", "ok"} \cup Raised,
   sent : [Sessions -> 0..1]]

\* Every variable has its type, and a call never counts two transmissions on
\* one session.
TypeOK ==
  /\ boot \in Boots /\ reopener \in BOOLEAN
  /\ session \in 1..nsess /\ nsess \in Sessions
  /\ status \in [Sessions -> {"unborn", "up", "lost", "dead", "closed"}]
  /\ {applied, devCfg, newCfg} \subseteq Configs \cup {NoConfig}
  /\ {rxStarted, devRx} \subseteq BOOLEAN /\ dclosed \in BOOLEAN /\ kstop \in BOOLEAN
  /\ lock \in Threads \cup {Nobody}
  /\ pc \in [Threads -> Labels]
  /\ call \in [Threads -> Calls]

\* Recovery never throws away a session that is alive, however many threads
\* found the old one dead at once: only a dead session is replaced, and only
\* close() closes one that is not dead.
LiveSessionKept ==
  [][\A s \in Sessions :
       IsAlive(s) => /\ s = session => session' = session
                     /\ status'[s] = "closed" => dclosed]_sessVars

\* The transport of every session that was replaced is closed: reconnecting
\* leaks neither a port nor a reader thread.
SupersededClosed ==
  \A s \in 1..nsess :
    \/ status[s] = "closed"
    \/ s = session
    \/ s = nsess /\ \E t \in Threads : pc[t] = "install"

\* tx() returns normally only if the device transmitted in answer to the very
\* attempt that returned; it transmits at most twice for one call, and never
\* twice over the same session: the second time is on a new one.
TxHonest ==
  \A u \in Users :
    LET c == call[u] IN
    /\ \A s \in Sessions : c.sent[s] <= 1
    /\ Cardinality({s \in Sessions : c.sent[s] > 0}) <= 2
    /\ c.op = "tx" /\ c.reply = "ok" /\ pc[u] \in {"main", "again"}
         => c.sent[c.sess] = 1

\* A tx(), or the rx_start() of rx() and recv(), whose session died under it is
\* tried again, on the next session.  The caller sees the first error only if
\* another thread has installed that session before the error was handled: then
\* _with_recovery finds a live one and does not retry (dongle.py:298).
DeathRetried ==
  [][\A u \in Users :
       /\ pc[u] = "main" /\ Recovers(u) /\ reopener
       /\ call[u].reply = "DongloraError" /\ ~IsAlive(call[u].sess)
       /\ pc'[u] = "idle"
       => call[u].sess < session]_vars

\* Once the Dongle is closed and its session with it, everyone inside a method
\* comes out, whether in a command, in next_rx or waiting for the recover lock
\* (a reopener that is under way must come back first, and it may never do).
CloseReleases ==
  (/\ dclosed /\ status[session] = "closed"
   /\ \A t \in Threads : pc[t] \notin {"opening", "install"})
    ~> \A t \in Threads : pc[t] \in {"idle", "gone"}

\* With a keepalive thread a session that has died is replaced although no
\* method is ever called, unless the Dongle is closed, the keepalive thread
\* has died or the bound on sessions is reached.
Reconnects ==
  \A k \in Keepers :
    (reopener /\ ~IsAlive(session)) ~>
      (IsAlive(session) \/ dclosed \/ pc[k] = "gone" \/ nsess = MaxSessions)

\* The keepalive thread outlives everything but close(): no error of a ping, of
\* a re-application or of a reconnect ends it, save an OSError of the rx_start()
\* in a reconnect, which neither except clause on the way covers.
KeeperEnds ==
  [][\A k \in Keepers : pc[k] # "gone" /\ pc'[k] = "gone" =>
       kstop \/ (pc[k] = "restart" /\ call[k].reply = "OSError")]_vars

-----------------------------------------------------------------------------
(* What the repository says and the code does not do                       *)

\* dongle.py:188: close() closes the session.  It leaves one open when a
\* reconnect is under way.
CloseCloses ==
  (dclosed /\ \A t \in Threads : pc[t] \in {"idle", "gone"})
     => status[session] = "closed"

\* dongle.py:237-240: a reconnect re-applies the cached config and leaves the
\* Dongle in the same logical state.
ConfigSurvives ==
  [][\A t \in Threads : pc[t] = "adopt" /\ pc'[t] # "adopt" => applied' = applied]_vars

\* dongle.py:3-6, 124-129: the recovery from an inactivity time-out is hidden, and
\* rx() keeps the radio in continuous receive.  When the Dongle believes that RX
\* is started, and no command is in progress, a device that has its configuration
\* is receiving.  It is not after a configuration was re-applied.
Quiet == lock = Nobody /\ \A t \in Threads : pc[t] \notin Sites
RxMirrored ==
  Quiet /\ status[session] = "up" /\ rxStarted /\ devCfg # NoConfig => devRx
=============================================================================
