------------------------------ MODULE Session ------------------------------
(***************************************************************************)
(* donglora/session.py: one Session.  Caller threads run _send_and_wait    *)
(* and _send_tx; one reader thread runs _reader_loop and _dispatch; any    *)
(* thread may run close(); consumer threads run next_rx.  Every step       *)
(* between two points at which another thread can observe the Session (a   *)
(* lock, an Event, a queue, the transport) is one action.                  *)
(*                                                                         *)
(* A command is named by its ordinal, 1 for the first tag allocated; the   *)
(* code has no such number, but it is the identity of the _Pending object  *)
(* and lets a property say which command a reply belongs to.               *)
(*                                                                         *)
(* The transport and the device are outside the repository.  They are      *)
(* modelled from how session.py uses them: a FIFO in each direction, a     *)
(* device that answers or ignores each command and emits events of its     *)
(* own, and a link that garbles frames or drops at any time.               *)
(***************************************************************************)
EXTENDS Integers, Sequences

CONSTANTS
  Callers,    \* threads that send commands
  Closers,    \* threads that call close()
  Consumers,  \* threads that call next_rx
  Patient,    \* the consumers that pass timeout=None
  Kinds,      \* command kinds used, a subset of AllKinds
  Faults,     \* what may go wrong, a subset of AllFaults
  MaxTag,     \* the largest tag, 0xFFFF in the code
  MaxCmds,    \* bound: commands issued in the life of the session
  MaxAsync    \* bound: frames the device emits on its own

\* By the shape of their OK: TX completes on TX_DONE, QUERY (GET_INFO and
\* SET_CONFIG) carries a structure, PLAIN (PING, RX_START, RX_STOP) nothing.
AllKinds == {"TX", "QUERY", "PLAIN"}

\* A payload too long to encode, a command refused by the device, an
\* undecodable payload in a valid frame, an invalid frame, a dropped link.
AllFaults == {"oversize", "refusal", "malformed", "garbled", "drop"}

ASSUME SessionAssumption ==
  /\ Patient \subseteq Consumers
  /\ Kinds \subseteq AllKinds
  /\ Faults \subseteq AllFaults
  /\ MaxTag \in Nat \ {0}
  /\ MaxCmds \in Nat
  /\ MaxAsync \in Nat

VARIABLES
  nextTag,     \* self._next_tag
  issued,      \* commands so far: the ordinal of the newest _Pending
  obj,         \* the _Pending objects, by ordinal
  pending,     \* self._pending: tag -> ordinal, 0 when the key is absent
  pc, cur,     \* each caller's program counter and its command
  res,         \* what each command returned or raised
  toDev,       \* commands written and not yet seen by the device
  onAir,       \* TX commands the device accepted, TX_DONE still to come
  served,      \* commands the device has carried out
  fromDev,     \* frames on their way to the reader
  asyncSent,   \* frames the device has emitted on its own
  link,        \* the transport: "up", "lost" (peer gone) or "closed" by us
  rpc, frame, ref,  \* the reader: program counter, frame and _Pending in hand
  closed,      \* self._closed
  readerDead,  \* self._reader_dead
  kpc,         \* each closer's program counter
  rxq,         \* self._rx_queue
  asyncErrs,   \* length of self._async_errors
  xpc,         \* each consumer's program counter
  delivered    \* RX events handed to consumers, in order

tagVars   == <<nextTag, issued, cur>>
devVars   == <<onAir, served, asyncSent>>
readVars  == <<rpc, frame, ref, readerDead>>
closeVars == <<closed, kpc>>
rxVars    == <<rxq, asyncErrs, xpc, delivered>>
vars == <<tagVars, pc, res, obj, pending, toDev, fromDev, link, devVars,
          readVars, closeVars, rxVars>>

Tags == 1..MaxTag
Cmds == 1..MaxCmds

\* _DEAD_SENTINEL; RX events are numbered from 1.
DEAD == 0

FrameOf(type, tag, of, body) ==
  [type |-> type, tag |-> tag, of |-> of, body |-> body]

\* A frame that fails COBS, CRC or length validation.
Junk == FrameOf("JUNK", 0, 0, "bad")

\* _Pending(tag=tag, cmd_type=kind, event=threading.Event()).  ok and
\* txDone hold the ordinal of the command whose reply filled the slot.
NewPending(tag, kind) ==
  [tag |-> tag, kind |-> kind, ok |-> 0, err |-> "none", txDone |-> 0,
   event |-> FALSE]

Init ==
  /\ nextTag = 1 /\ issued = 0
  /\ obj = [i \in Cmds |-> NewPending(1, "PLAIN")]
  /\ pending = [t \in Tags |-> 0]
  /\ pc = [c \in Callers |-> "idle"] /\ cur = [c \in Callers |-> 0]
  /\ res = [i \in Cmds |-> "none"]
  /\ toDev = <<>> /\ fromDev = <<>> /\ link = "up"
  /\ onAir = {} /\ served = {} /\ asyncSent = 0
  /\ rpc = "loop" /\ frame = Junk /\ ref = 0 /\ readerDead = FALSE
  /\ closed = FALSE /\ kpc = [k \in Closers |-> "idle"]
  /\ rxq = <<>> /\ asyncErrs = 0 /\ delivered = <<>>
  /\ xpc = [x \in Consumers |-> "idle"]

-----------------------------------------------------------------------------
(* Callers: _send_and_wait and _send_tx                                    *)

CallerFrame == UNCHANGED <<fromDev, link, devVars, readVars, closeVars, rxVars>>

Goto(c, label) == pc' = [pc EXCEPT ![c] = label]

\* Faulty: 0 is not skipped; the counter wraps a tag early.
TagAfterZero(tag) == (tag + 1) % (MaxTag + 1)
TagAfterShort(tag) ==
  LET n == (tag + 1) % MaxTag IN IF n = 0 THEN 1 ELSE n

\* (tag + 1) & 0xFFFF, skipping 0.
TagAfter(tag) ==
  LET n == (tag + 1) % (MaxTag + 1) IN IF n = 0 THEN 1 ELSE n

\* _alloc_tag, under _tag_lock.
AllocTag(c, kind) ==
  /\ pc[c] = "idle"
  /\ issued < MaxCmds
  /\ issued' = issued + 1
  /\ obj' = [obj EXCEPT ![issued + 1] = NewPending(nextTag, kind)]
  /\ nextTag' = TagAfter(nextTag)
  /\ cur' = [cur EXCEPT ![c] = issued + 1]
  /\ Goto(c, "register")
  /\ CallerFrame /\ UNCHANGED <<res, pending, toDev>>

\* _register_pending, under _pending_lock.
RegisterPending(c) ==
  /\ pc[c] = "register"
  /\ pending' = [pending EXCEPT ![obj[cur[c]].tag] = cur[c]]
  /\ Goto(c, "write")
  /\ CallerFrame /\ UNCHANGED <<tagVars, res, obj, toDev>>

\* Faulty: the exception skips _forget_pending.
FinishUnforgotten(c, outcome) ==
  res' = [res EXCEPT ![cur[c]] = outcome] /\ Goto(c, "idle")

Finish(c, outcome) ==
  res' = [res EXCEPT ![cur[c]] = outcome] /\ Goto(c, "forget")

\* _write_frame.  The payload may be refused before anything is written
\* (ValueError); a transport that is not up raises OSError, except that a
\* write after the peer has gone may still be accepted and go nowhere.
WriteFrame(c) ==
  /\ pc[c] = "write"
  /\ \/ "oversize" \in Faults /\ Finish(c, "ValueError") /\ UNCHANGED toDev
     \/ link # "up" /\ Finish(c, "OSError") /\ UNCHANGED toDev
     \/ link = "lost" /\ Goto(c, "wait") /\ UNCHANGED <<res, toDev>>
     \/ /\ link = "up"
        /\ toDev' = Append(toDev, cur[c])
        /\ Goto(c, "wait")
        /\ UNCHANGED res
  /\ CallerFrame /\ UNCHANGED <<tagVars, obj, pending>>

\* event.wait(timeout) returns True, or gives up with the event unset.
WaitReturns(c) ==
  /\ pc[c] = "wait"
  /\ obj[cur[c]].event
  /\ Goto(c, "check")
  /\ CallerFrame /\ UNCHANGED <<tagVars, res, obj, pending, toDev>>

WaitTimesOut(c) ==
  /\ pc[c] = "wait"
  /\ ~obj[cur[c]].event
  /\ Finish(c, "TimeoutError")
  /\ CallerFrame /\ UNCHANGED <<tagVars, obj, pending, toDev>>

\* What the caller makes of its slots once the event is set: raise err, raise
\* the internal error of a TX without its TX_DONE, or return.
Outcome(p) ==
  IF p.err # "none" THEN p.err
  ELSE IF p.kind = "TX" /\ p.txDone = 0 THEN "internal" ELSE "ok"

ReadResult(c) ==
  /\ pc[c] = "check"
  /\ Finish(c, Outcome(obj[cur[c]]))
  /\ CallerFrame /\ UNCHANGED <<tagVars, obj, pending, toDev>>

\* finally: _forget_pending, under _pending_lock.
ForgetPending(c) ==
  /\ pc[c] = "forget"
  /\ pending' = [pending EXCEPT ![obj[cur[c]].tag] = 0]
  /\ Goto(c, "idle")
  /\ CallerFrame /\ UNCHANGED <<tagVars, res, obj, toDev>>

-----------------------------------------------------------------------------
(* The reader thread: _reader_loop and _dispatch.  frame and ref are reset  *)
(* when the code is done with them, which keeps equal states equal.        *)

ReaderFrame ==
  UNCHANGED <<tagVars, pc, res, toDev, link, devVars, closeVars, xpc, delivered>>

Registered == {pending[t] : t \in Tags} \ {0}

NobodyPending == [t \in Tags |-> 0]

\* while not self._closed.is_set()
ReaderLoop ==
  /\ rpc = "loop"
  /\ rpc' = IF closed THEN "wake" ELSE "read"
  /\ ReaderFrame
  /\ UNCHANGED <<obj, pending, fromDev, frame, ref, readerDead, rxq, asyncErrs>>

\* Faulty: OSError is treated as a timeout.
ReadNothingRetries ==
  /\ rpc = "read"
  /\ link = "up" => fromDev = <<>>
  /\ rpc' = "loop"
  /\ ReaderFrame
  /\ UNCHANGED <<obj, pending, fromDev, frame, ref, readerDead, rxq, asyncErrs>>

\* read_frame returns None on a transport timeout, raises OSError when the
\* transport is gone; either way there is nothing to dispatch.
ReadNothing ==
  /\ rpc = "read"
  /\ link = "up" => fromDev = <<>>
  /\ rpc' = IF link = "up" THEN "loop" ELSE "wake"
  /\ ReaderFrame
  /\ UNCHANGED <<obj, pending, fromDev, frame, ref, readerDead, rxq, asyncErrs>>

\* _dispatch of a frame with tag 0.  A malformed ERR raises out of _dispatch
\* and an unknown type is logged: both leave no trace.
DispatchAsync(f) ==
  /\ rxq' = IF f.type = "RX" /\ f.body = "good" THEN Append(rxq, f.of) ELSE rxq
  /\ asyncErrs' = IF \/ f.type = "JUNK"
                     \/ f.type = "RX" /\ f.body = "bad"
                     \/ f.type = "ERR" /\ f.body = "code"
                  THEN asyncErrs + 1 ELSE asyncErrs

\* read_frame delivers a frame, or raises FrameError on one that is corrupt.
ReadFrame ==
  /\ rpc = "read"
  /\ link # "closed"
  /\ fromDev # <<>>
  /\ fromDev' = Tail(fromDev)
  /\ \/ /\ Head(fromDev).tag = 0
        /\ DispatchAsync(Head(fromDev))
        /\ rpc' = "loop"
        /\ UNCHANGED frame
     \/ /\ Head(fromDev).tag # 0
        /\ frame' = Head(fromDev)
        /\ rpc' = "lookup"
        /\ UNCHANGED <<rxq, asyncErrs>>
  /\ ReaderFrame
  /\ UNCHANGED <<obj, pending, ref, readerDead>>

\* with self._pending_lock: pending = self._pending.get(tag)
LookupPending ==
  /\ rpc = "lookup"
  /\ ref' = pending[frame.tag]
  /\ IF ref' = 0 THEN rpc' = "loop" /\ frame' = Junk
                 ELSE rpc' = "apply" /\ UNCHANGED frame
  /\ ReaderFrame
  /\ UNCHANGED <<obj, pending, fromDev, readerDead, rxq, asyncErrs>>

\* parse_ok_payload(cmd_type, payload): does the payload have the shape that
\* the command expects?
ParsesFor(kind, body) == body = (IF kind = "QUERY" THEN "struct" ELSE "empty")

\* The _Pending p after its slots are filled from frame f.
Filled(p, f) ==
  CASE f.type = "OK" /\ ParsesFor(p.kind, f.body)  -> [p EXCEPT !.ok = f.of]
    [] f.type = "OK" /\ ~ParsesFor(p.kind, f.body) -> [p EXCEPT !.err = "bad"]
    [] f.type = "ERR" /\ f.body = "code"           -> [p EXCEPT !.err = "device"]
    [] f.type = "TX_DONE" /\ f.body = "bad"        -> [p EXCEPT !.err = "bad"]
    [] f.type = "TX_DONE" /\ f.body = "refused"    -> [p EXCEPT !.err = "refused"]
    [] f.type = "TX_DONE" /\ f.body = "sent"       -> [p EXCEPT !.txDone = f.of]
    [] OTHER                                       -> p

\* Faulty: the OK of a TX completes it.
CompletesOnOk(p, f) ==
  f.type \in {"OK", "TX_DONE"} \/ (f.type = "ERR" /\ f.body = "code")

\* Does f complete p?  The OK of a TX does not, nor does an ERR whose payload
\* does not decode, nor an unexpected type.
Completes(p, f) ==
  \/ f.type = "OK" /\ ~(p.kind = "TX" /\ ParsesFor(p.kind, f.body))
  \/ f.type = "ERR" /\ f.body = "code"
  \/ f.type = "TX_DONE"

ApplyFrame ==
  /\ rpc = "apply"
  /\ obj' = [obj EXCEPT ![ref] = Filled(obj[ref], frame)]
  /\ IF Completes(obj[ref], frame) THEN rpc' = "signal" /\ UNCHANGED ref
                                    ELSE rpc' = "loop" /\ ref' = 0
  /\ frame' = Junk
  /\ ReaderFrame
  /\ UNCHANGED <<pending, fromDev, readerDead, rxq, asyncErrs>>

\* pending.event.set()
SignalEvent ==
  /\ rpc = "signal"
  /\ obj' = [obj EXCEPT ![ref].event = TRUE]
  /\ rpc' = "loop" /\ ref' = 0
  /\ ReaderFrame
  /\ UNCHANGED <<pending, fromDev, frame, readerDead, rxq, asyncErrs>>

\* Faulty: a TX_DONE that is already there does not count.
LostPendingAlways(p) ==
  [p EXCEPT !.err = IF p.err = "none" THEN "lost" ELSE p.err, !.event = TRUE]

\* An error is recorded only where neither an error nor a TX_DONE already is.
LostPending(p) ==
  [p EXCEPT !.err = IF p.err = "none" /\ p.txDone = 0 THEN "lost" ELSE p.err,
            !.event = TRUE]

\* finally: wake everyone still registered, under _pending_lock.
ReaderWakesAll ==
  /\ rpc = "wake"
  /\ obj' = [i \in Cmds |->
               IF i \in Registered THEN LostPending(obj[i]) ELSE obj[i]]
  /\ pending' = NobodyPending
  /\ rpc' = "die"
  /\ ReaderFrame
  /\ UNCHANGED <<fromDev, frame, ref, readerDead, rxq, asyncErrs>>

ReaderDies ==
  /\ rpc = "die"
  /\ readerDead' = TRUE
  /\ rpc' = "poison"
  /\ ReaderFrame
  /\ UNCHANGED <<obj, pending, fromDev, frame, ref, rxq, asyncErrs>>

\* Faulty: the sentinel overtakes the packets in the queue.
PoisonQueueFirst ==
  /\ rpc = "poison"
  /\ rxq' = <<DEAD>> \o rxq
  /\ rpc' = "dead"
  /\ ReaderFrame
  /\ UNCHANGED <<obj, pending, fromDev, frame, ref, readerDead, asyncErrs>>

PoisonQueue ==
  /\ rpc = "poison"
  /\ rxq' = Append(rxq, DEAD)
  /\ rpc' = "dead"
  /\ ReaderFrame
  /\ UNCHANGED <<obj, pending, fromDev, frame, ref, readerDead, asyncErrs>>

-----------------------------------------------------------------------------
(* close(), next_rx(), drain_async_errors()                                *)

CloserFrame ==
  UNCHANGED <<tagVars, pc, res, toDev, fromDev, devVars, readVars, rxVars>>

CloseSetsFlag(k) ==
  /\ kpc[k] = "idle"
  /\ closed' = TRUE
  /\ kpc' = [kpc EXCEPT ![k] = "wake"]
  /\ CloserFrame /\ UNCHANGED <<obj, pending, link>>

\* Faulty: the entry is failed but its event is not set.
ClosedPendingAsleep(p) == [p EXCEPT !.err = "closed"]

\* Unlike the reader, close() overwrites whatever the slots hold.
ClosedPending(p) == [p EXCEPT !.err = "closed", !.event = TRUE]

\* Under _pending_lock.
CloseWakesAll(k) ==
  /\ kpc[k] = "wake"
  /\ obj' = [i \in Cmds |->
               IF i \in Registered THEN ClosedPending(obj[i]) ELSE obj[i]]
  /\ pending' = NobodyPending
  /\ kpc' = [kpc EXCEPT ![k] = "shut"]
  /\ CloserFrame /\ UNCHANGED <<link, closed>>

CloseShutsTransport(k) ==
  /\ kpc[k] = "shut"
  /\ link' = "closed"
  /\ kpc' = [kpc EXCEPT ![k] = "done"]
  /\ CloserFrame /\ UNCHANGED <<obj, pending, closed>>

RxFrame ==
  UNCHANGED <<tagVars, pc, res, obj, pending, toDev, fromDev, link, devVars,
              readVars, closeVars>>

NextRx(x) ==
  /\ xpc[x] = "idle"
  /\ xpc' = [xpc EXCEPT ![x] = "get"]
  /\ RxFrame /\ UNCHANGED <<rxq, asyncErrs, delivered>>

\* The blocking get: an RX event is returned, the sentinel is held to be
\* posted again.
NextRxGets(x) ==
  /\ xpc[x] = "get"
  /\ rxq # <<>>
  /\ rxq' = Tail(rxq)
  /\ \/ /\ Head(rxq) = DEAD
        /\ xpc' = [xpc EXCEPT ![x] = "repost"]
        /\ UNCHANGED delivered
     \/ /\ Head(rxq) # DEAD
        /\ xpc' = [xpc EXCEPT ![x] = "idle"]
        /\ delivered' = Append(delivered, Head(rxq))
  /\ RxFrame /\ UNCHANGED asyncErrs

NextRxTimesOut(x) ==
  /\ xpc[x] = "get"
  /\ x \notin Patient
  /\ rxq = <<>>
  /\ xpc' = [xpc EXCEPT ![x] = "idle"]
  /\ RxFrame /\ UNCHANGED <<rxq, asyncErrs, delivered>>

\* Faulty: the sentinel is consumed.
NextRxKeepsSentinel(x) ==
  /\ xpc[x] = "repost"
  /\ xpc' = [xpc EXCEPT ![x] = "idle"]
  /\ RxFrame /\ UNCHANGED <<rxq, asyncErrs, delivered>>

NextRxReposts(x) ==
  /\ xpc[x] = "repost"
  /\ rxq' = Append(rxq, DEAD)
  /\ xpc' = [xpc EXCEPT ![x] = "idle"]
  /\ RxFrame /\ UNCHANGED <<asyncErrs, delivered>>

DrainAsyncErrors ==
  /\ asyncErrs > 0
  /\ asyncErrs' = 0
  /\ RxFrame /\ UNCHANGED <<rxq, xpc, delivered>>

-----------------------------------------------------------------------------
(* The device and the link (external)                                      *)

DeviceFrame ==
  UNCHANGED <<tagVars, pc, res, obj, pending, readVars, closeVars, rxVars>>

OkBody(kind) == IF kind = "QUERY" THEN "struct" ELSE "empty"

Undecodable == {"bad" : f \in Faults \cap {"malformed"}}

Reply(type, i, bodies) == {FrameOf(type, obj[i].tag, i, b) : b \in bodies}

\* What arrives is what was sent, or garbage.
Arrives(frames) ==
  \E f \in frames \cup {Junk : g \in Faults \cap {"garbled"}} :
    fromDev' = Append(fromDev, f)

\* The device accepts, refuses or ignores the command.
DeviceAnswers ==
  /\ link = "up"
  /\ toDev # <<>>
  /\ toDev' = Tail(toDev)
  /\ LET i == Head(toDev) IN
       \/ /\ Arrives(Reply("OK", i, {OkBody(obj[i].kind)} \cup Undecodable))
          /\ IF obj[i].kind = "TX"
             THEN onAir' = onAir \cup {i} /\ UNCHANGED served
             ELSE served' = served \cup {i} /\ UNCHANGED onAir
       \/ /\ "refusal" \in Faults
          /\ Arrives(Reply("ERR", i, {"code"} \cup Undecodable))
          /\ UNCHANGED <<onAir, served>>
       \/ UNCHANGED <<fromDev, onAir, served>>
  /\ DeviceFrame /\ UNCHANGED <<link, asyncSent>>

DeviceTxDone(i) ==
  /\ link = "up"
  /\ i \in onAir
  /\ onAir' = onAir \ {i}
  /\ \/ /\ Arrives(Reply("TX_DONE", i, {"sent"}))
        /\ served' = served \cup {i}
     \/ /\ "refusal" \in Faults
        /\ Arrives(Reply("TX_DONE", i, {"refused"} \cup Undecodable))
        /\ UNCHANGED served
  /\ DeviceFrame /\ UNCHANGED <<link, toDev, asyncSent>>

\* RX events and asynchronous ERRs, all with tag 0.
DeviceEmits ==
  /\ link = "up"
  /\ asyncSent < MaxAsync
  /\ asyncSent' = asyncSent + 1
  /\ \E b \in {"good"} \cup Undecodable, e \in {"code"} \cup Undecodable :
       \/ Arrives({FrameOf("RX", 0, asyncSent + 1, b)})
       \/ "refusal" \in Faults /\ Arrives({FrameOf("ERR", 0, 0, e)})
  /\ DeviceFrame /\ UNCHANGED <<link, toDev, onAir, served>>

\* USB unplug, mux restart, socket reset.
LinkDrops ==
  /\ "drop" \in Faults
  /\ link = "up"
  /\ link' = "lost"
  /\ DeviceFrame /\ UNCHANGED <<toDev, fromDev, devVars>>

-----------------------------------------------------------------------------

\* The steps a started call goes on with, but for giving up on its wait.
CallerRuns(c) ==
  \/ RegisterPending(c) \/ WriteFrame(c) \/ WaitReturns(c) \/ ReadResult(c)
  \/ ForgetPending(c)

ReaderRuns ==
  \/ ReaderLoop \/ ReadNothing \/ ReadFrame \/ LookupPending \/ ApplyFrame
  \/ SignalEvent \/ ReaderWakesAll \/ ReaderDies \/ PoisonQueue

CloserRuns(k) == CloseWakesAll(k) \/ CloseShutsTransport(k)

ConsumerRuns(x) == NextRxGets(x) \/ NextRxTimesOut(x) \/ NextRxReposts(x)

Device ==
  \/ DeviceAnswers \/ DeviceEmits \/ LinkDrops
  \/ \E i \in Cmds : DeviceTxDone(i)

\* The session is over: the reader is gone and no call is in progress.
Terminated ==
  /\ rpc = "dead"
  /\ \A c \in Callers : pc[c] = "idle"
  /\ \A k \in Closers : kpc[k] \in {"idle", "done"}
  /\ \A x \in Consumers : xpc[x] = "idle"
  /\ UNCHANGED vars

Next ==
  \/ \E c \in Callers : \E kind \in Kinds : AllocTag(c, kind)
  \/ \E c \in Callers : CallerRuns(c) \/ WaitTimesOut(c)
  \/ ReaderRuns
  \/ \E k \in Closers : CloseSetsFlag(k) \/ CloserRuns(k)
  \/ \E x \in Consumers : NextRx(x) \/ ConsumerRuns(x)
  \/ DrainAsyncErrors
  \/ Device
  \/ Terminated

Spec == Init /\ [][Next]_vars

\* Threads are scheduled: a started call goes on, the reader reads, a close()
\* once begun completes.  No fairness makes the device answer, a caller give
\* up, or anyone start a call.  A next_rx whose get is possible again and
\* again succeeds: Queue.put wakes its waiters in turn.
Fairness ==
  /\ \A c \in Callers : WF_vars(CallerRuns(c))
  /\ \A k \in Closers : WF_vars(CloserRuns(k))
  /\ \A x \in Consumers : SF_vars(ConsumerRuns(x))
  /\ WF_vars(ReaderRuns)

FairSpec == Spec /\ Fairness

-----------------------------------------------------------------------------
(* Properties                                                              *)

Errs == {"none", "bad", "device", "refused", "lost", "closed"}

Outcomes ==
  Errs \cup {"ok", "internal", "ValueError", "OSError", "TimeoutError"}

Pendings ==
  [tag : Tags, kind : AllKinds, ok : 0..MaxCmds, err : Errs,
   txDone : 0..MaxCmds, event : BOOLEAN]

Bodies == {"struct", "empty", "code", "sent", "refused", "good", "bad"}

\* Replies carry a tag, events and garbage do not.
Frames ==
  [type : {"OK", "ERR", "TX_DONE"}, tag : Tags, of : Cmds, body : Bodies]
    \cup [type : {"RX", "ERR", "JUNK"}, tag : {0}, of : Nat, body : Bodies]

\* Every variable has its type; a tag is never 0, the tag of events.
TypeOK ==
  /\ nextTag \in Tags
  /\ issued \in 0..MaxCmds
  /\ obj \in [Cmds -> Pendings]
  /\ pending \in [Tags -> 0..MaxCmds]
  /\ pc \in [Callers ->
              {"idle", "register", "write", "wait", "check", "forget"}]
  /\ cur \in [Callers -> 0..MaxCmds]
  /\ res \in [Cmds -> Outcomes]
  /\ toDev \in Seq(Cmds) /\ fromDev \in Seq(Frames)
  /\ onAir \subseteq Cmds /\ served \subseteq Cmds
  /\ asyncSent \in 0..MaxAsync
  /\ link \in {"up", "lost", "closed"}
  /\ rpc \in {"loop", "read", "lookup", "apply", "signal", "wake", "die",
             "poison", "dead"}
  /\ frame \in Frames /\ ref \in 0..MaxCmds
  /\ closed \in BOOLEAN /\ readerDead \in BOOLEAN
  /\ kpc \in [Closers -> {"idle", "wake", "shut", "done"}]
  /\ rxq \in Seq(Nat) /\ delivered \in Seq(Nat)
  /\ asyncErrs \in Nat
  /\ xpc \in [Consumers -> {"idle", "get", "repost"}]

\* Two commands so far apart that their tags may coincide.
FarApart(i, j) == i - j >= MaxTag \/ j - i >= MaxTag

\* The commands whose replies filled the slots of i.
Origins(i) == {obj[i].ok, obj[i].txDone} \ {0}

\* A command that returns normally was carried out by the device and returns
\* its own reply, not one addressed to another command, whatever timed out,
\* was closed or was answered late before.  Only a reply delayed while the
\* 16-bit tag went all the way round can be mistaken for another's.
OwnReply ==
  \A i \in Cmds : res[i] = "ok" =>
    \/ i \in Origins(i) /\ i \in served
    \/ \E o \in Origins(i) : FarApart(i, o)

\* "TX completed without TX_DONE (internal error)" is never raised: the event
\* of a TX is never set with both of its slots empty.
NoInternalError == \A i \in Cmds : res[i] # "internal"

\* A command whose event is not set can be found by the reader and by
\* close(): nothing but a tag reused a full round later removes its entry
\* from _pending without waking it.
NoStrandedWaiter ==
  \A c \in Callers : pc[c] \in {"write", "wait"} =>
    \/ obj[cur[c]].event
    \/ pending[obj[cur[c]].tag] = cur[c]
    \/ \E j \in 1..issued : FarApart(j, cur[c])

\* _pending holds no entry of a call that is over, however the call ended.
NoLeakedPending ==
  \A t \in Tags : pending[t] # 0 =>
    \E c \in Callers : /\ cur[c] = pending[t]
                       /\ pc[c] \in {"write", "wait", "check", "forget"}

\* A TX whose TX_DONE reached the session before the transport went is not
\* reported as lost (the Dongle would transmit it a second time).
TxDoneKept == \A i \in Cmds : res[i] = "lost" => obj[i].txDone = 0

\* RX events reach next_rx once each and in the order they were received,
\* and the dead sentinel comes after the last of them: no consumer is told
\* that the session is dead while a packet is waiting.
RxInOrder ==
  LET s == delivered \o rxq IN
    \A i, j \in DOMAIN s : i < j => s[i] # DEAD /\ (s[j] = DEAD \/ s[i] < s[j])

\* Once the reader is gone there is exactly one sentinel, in the queue or in
\* the hands of a consumer about to post it again; before, there is none.
SentinelKept ==
  LET holders == {x \in Consumers : xpc[x] = "repost"}
      queued  == {n \in DOMAIN rxq : rxq[n] = DEAD}
  IN  IF rpc = "dead"
      THEN \/ \E n \in queued : queued = {n} /\ holders = {}
           \/ \E x \in holders : holders = {x} /\ queued = {}
      ELSE queued = {} /\ holders = {}

\* A caller that waits when the transport goes is woken by the reader's exit
\* or by close(); it does not have to sit out its timeout.
PromptWake ==
  \A c \in Callers :
    (pc[c] = "wait" /\ link # "up" /\ rpc \notin {"die", "poison", "dead"})
      ~> pc[c] # "wait"

\* A consumer blocked with timeout=None is released when the session ends,
\* every one of them, though the reader posts a single sentinel.
RxReleased ==
  \A x \in Patient :
    (xpc[x] = "get" /\ (closed \/ link # "up")) ~> xpc[x] # "get"

\* The Session keeps the promises of Rpc, as long as no more commands are
\* issued than there are tags.
Promise ==
  INSTANCE Rpc WITH
    submitted <- 1..issued,
    executed <- served,
    outcome <- [i \in Cmds |-> IF res[i] \in {"none", "ok"} THEN res[i]
                                                          ELSE "failed"]

\* Every step of the Session is a step of Rpc or none: no command is carried
\* out twice, ends twice, or returns normally before it was carried out.
KeepsPromise == Promise!Spec
=============================================================================
