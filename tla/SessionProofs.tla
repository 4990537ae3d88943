--------------------------- MODULE SessionProofs ---------------------------
(***************************************************************************)
(* Theorems about Session, for every number of threads, commands and tags. *)
(* The last part is about the RX queue: the events of the device reach     *)
(* next_rx in order, and the sentinel after them, for any number of        *)
(* consumers, closers and events.                                          *)
(***************************************************************************)
EXTENDS Session, SequenceTheorems, TLAPS

-----------------------------------------------------------------------------
(* Tags                                                                    *)

\* The successor of a tag is the next number, or 1 after the largest.
LEMMA TagSuccessor ==
  ASSUME NEW t \in Tags
  PROVE  /\ TagAfter(t) \in Tags
         /\ TagAfter(t) = t + 1 \/ (t = MaxTag /\ TagAfter(t) = 1)
BY SessionAssumption DEF TagAfter, Tags

-----------------------------------------------------------------------------
(* Types                                                                   *)

\* TypeOK alone is not inductive: a caller in the middle of a command has
\* one, and the reader holds a reply, and then a _Pending, when it uses them.
InHand ==
  /\ \A c \in Callers : pc[c] # "idle" => cur[c] # 0
  /\ rpc \in {"lookup", "apply"} => frame.tag # 0
  /\ rpc \in {"apply", "signal"} => ref # 0

TypeInv == TypeOK /\ InHand

LEMMA JunkTyped == Junk \in Frames
BY DEF Junk, FrameOf, Frames, Bodies

\* The frame that a step of the device appends to fromDev is one of Frames.
LEMMA ArrivesTyped ==
  ASSUME NEW S \in SUBSET Frames, fromDev \in Seq(Frames), Arrives(S)
  PROVE  fromDev' \in Seq(Frames)
<1>1. PICK f \in S \cup {Junk : g \in Faults \cap {"garbled"}} :
        fromDev' = Append(fromDev, f)
  BY DEF Arrives
<1>2. f \in Frames
  BY JunkTyped
<1> QED
  BY <1>1, <1>2

LEMMA ReplyTyped ==
  ASSUME TypeOK, NEW i \in Cmds, NEW type \in {"OK", "ERR", "TX_DONE"},
         NEW B \in SUBSET Bodies
  PROVE  Reply(type, i, B) \in SUBSET Frames
<1>1. obj[i].tag \in Tags
  BY DEF TypeOK, Pendings
<1> QED
  BY <1>1 DEF Reply, FrameOf, Frames

\* What fills a slot keeps the type of a _Pending.
LEMMA SlotsTyped ==
  ASSUME NEW p \in Pendings
  PROVE  /\ LostPending(p) \in Pendings
         /\ ClosedPending(p) \in Pendings
         /\ [p EXCEPT !.event = TRUE] \in Pendings
         /\ \A f \in Frames : f.tag # 0 => Filled(p, f) \in Pendings
<1>1. LostPending(p) \in Pendings
  BY DEF LostPending, Pendings, Errs
<1>2. ClosedPending(p) \in Pendings /\ [p EXCEPT !.event = TRUE] \in Pendings
  BY DEF ClosedPending, Pendings, Errs
<1>3. ASSUME NEW f \in Frames, f.tag # 0
      PROVE  Filled(p, f) \in Pendings
  <2>1. f.of \in 0..MaxCmds
    BY <1>3, SessionAssumption DEF Frames, Cmds
  <2> QED
    BY <2>1 DEF Filled, Pendings, Errs
<1> QED
  BY <1>1, <1>2, <1>3

LEMMA TypeInit == Init => TypeInv
<1> SUFFICES ASSUME Init PROVE TypeInv
  OBVIOUS
<1> USE SessionAssumption DEF Init
<1>1. 1 \in Tags
  BY DEF Tags
<1>2. NewPending(1, "PLAIN") \in Pendings
  BY <1>1 DEF NewPending, Pendings, AllKinds, Errs
<1>3. TypeOK
  <2>1. nextTag \in Tags /\ obj \in [Cmds -> Pendings]
    BY <1>1, <1>2
  <2>2. issued \in 0..MaxCmds /\ pending \in [Tags -> 0..MaxCmds]
    OBVIOUS
  <2>3. res \in [Cmds -> Outcomes]
    BY DEF Outcomes, Errs
  <2>4. asyncSent \in 0..MaxAsync /\ ref \in 0..MaxCmds /\ asyncErrs \in Nat
    OBVIOUS
  <2>5. /\ toDev \in Seq(Cmds) /\ fromDev \in Seq(Frames)
        /\ rxq \in Seq(Nat) /\ delivered \in Seq(Nat)
    OBVIOUS
  <2>6. /\ pc \in [Callers ->
                 {"idle", "register", "write", "wait", "check", "forget"}]
        /\ cur \in [Callers -> 0..MaxCmds]
        /\ kpc \in [Closers -> {"idle", "wake", "shut", "done"}]
        /\ xpc \in [Consumers -> {"idle", "get", "repost"}]
    OBVIOUS
  <2>7. /\ onAir \subseteq Cmds /\ served \subseteq Cmds
        /\ link \in {"up", "lost", "closed"}
        /\ rpc \in {"loop", "read", "lookup", "apply", "signal", "wake", "die",
                   "poison", "dead"}
        /\ frame \in Frames /\ closed \in BOOLEAN /\ readerDead \in BOOLEAN
    BY JunkTyped
  <2> QED
    BY <2>1, <2>2, <2>3, <2>4, <2>5, <2>6, <2>7 DEF TypeOK
<1>4. InHand
  BY DEF InHand
<1> QED
  BY <1>3, <1>4 DEF TypeInv

LEMMA TypeNext == TypeInv /\ [Next]_vars => TypeInv'
<1> SUFFICES ASSUME TypeInv, [Next]_vars PROVE TypeInv'
  OBVIOUS
<1> USE SessionAssumption DEF TypeInv
<1> USE DEF tagVars, devVars, readVars, closeVars, rxVars
<1>1. ASSUME NEW c \in Callers, NEW kind \in Kinds, AllocTag(c, kind)
      PROVE  TypeInv'
  <2>1. issued + 1 \in Cmds /\ issued' \in 0..MaxCmds
    BY <1>1 DEF AllocTag, TypeOK, Cmds
  <2>2. NewPending(nextTag, kind) \in Pendings
    BY DEF TypeOK, NewPending, Pendings, AllKinds, Errs
  <2>3. nextTag' \in Tags
    BY <1>1, TagSuccessor DEF AllocTag, TypeOK
  <2>4. TypeOK'
    BY <1>1, <2>1, <2>2, <2>3 DEF AllocTag, Goto, CallerFrame, TypeOK
  <2>5. InHand'
    BY <1>1, <2>1 DEF AllocTag, Goto, CallerFrame, InHand, TypeOK, Cmds
  <2> QED
    BY <2>4, <2>5
<1>2. ASSUME NEW c \in Callers, CallerRuns(c) \/ WaitTimesOut(c)
      PROVE  TypeInv'
  <2>1. pc[c] # "idle" /\ cur[c] \in Cmds /\ obj[cur[c]] \in Pendings
    BY <1>2 DEF CallerRuns, RegisterPending, WriteFrame, WaitReturns,
                WaitTimesOut, ReadResult, ForgetPending, InHand, TypeOK, Cmds
  <2>2. Outcome(obj[cur[c]]) \in Outcomes
    BY <2>1 DEF Outcome, Outcomes, Pendings, Errs
  <2> USE DEF CallerFrame, Goto, TypeOK, InHand
  <2>3. CASE RegisterPending(c)
    BY <2>1, <2>3 DEF RegisterPending, Cmds, Pendings
  <2>4. CASE WriteFrame(c)
    <3>1. /\ pc' \in [Callers ->
                    {"idle", "register", "write", "wait", "check", "forget"}]
          /\ \A d \in Callers : pc'[d] # "idle" => pc[d] # "idle"
      BY <2>1, <2>4 DEF WriteFrame, Finish
    <3>2. res' \in [Cmds -> Outcomes]
      BY <2>1, <2>4 DEF WriteFrame, Finish, Outcomes
    <3>3. Append(toDev, cur[c]) \in Seq(Cmds)
      BY <2>1
    <3>4. toDev' \in Seq(Cmds)
      BY <2>4, <3>3 DEF WriteFrame
    <3> QED
      BY <2>4, <3>1, <3>2, <3>4 DEF WriteFrame
  <2>5. CASE WaitReturns(c)
    BY <2>1, <2>5 DEF WaitReturns
  <2>6. CASE WaitTimesOut(c)
    BY <2>1, <2>6 DEF WaitTimesOut, Finish, Outcomes
  <2>7. CASE ReadResult(c)
    BY <2>1, <2>2, <2>7 DEF ReadResult, Finish
  <2>8. CASE ForgetPending(c)
    <3>1. pending' \in [Tags -> 0..MaxCmds]
      BY <2>1, <2>8 DEF ForgetPending, Pendings
    <3>2. /\ pc' \in [Callers ->
                    {"idle", "register", "write", "wait", "check", "forget"}]
          /\ \A d \in Callers : pc'[d] # "idle" => pc[d] # "idle"
      BY <2>1, <2>8 DEF ForgetPending
    <3> QED
      BY <2>8, <3>1, <3>2 DEF ForgetPending
  <2> QED
    BY <1>2, <2>3, <2>4, <2>5, <2>6, <2>7, <2>8 DEF CallerRuns
<1>3. ASSUME ReaderRuns PROVE TypeInv'
  <2> USE DEF ReaderFrame, TypeOK, InHand
  <2>1. CASE ReaderLoop
    BY <2>1 DEF ReaderLoop
  <2>2. CASE ReadNothing
    BY <2>2 DEF ReadNothing
  <2>3. CASE ReadFrame
    <3>1. Head(fromDev) \in Frames /\ fromDev' \in Seq(Frames)
      BY <2>3 DEF ReadFrame
    <3>2. Head(fromDev).type = "RX" => Head(fromDev).of \in Nat
      BY <3>1 DEF Frames
    <3>3. DispatchAsync(Head(fromDev)) =>
            rxq' \in Seq(Nat) /\ asyncErrs' \in Nat
      BY <3>2 DEF DispatchAsync
    <3> QED
      BY <2>3, <3>1, <3>3 DEF ReadFrame
  <2>4. CASE LookupPending
    <3>1. frame.tag \in Tags
      BY <2>4 DEF LookupPending, Frames
    <3> QED
      BY <2>4, <3>1, JunkTyped DEF LookupPending
  <2>5. CASE ApplyFrame
    <3>1. ref \in Cmds /\ obj[ref] \in Pendings /\ frame.tag # 0
      BY <2>5 DEF ApplyFrame, Cmds
    <3>2. Filled(obj[ref], frame) \in Pendings
      BY <3>1, SlotsTyped
    <3> QED
      BY <2>5, <3>1, <3>2, JunkTyped DEF ApplyFrame
  <2>6. CASE SignalEvent
    <3>1. ref \in Cmds /\ obj[ref] \in Pendings
      BY <2>6 DEF SignalEvent, Cmds
    <3>2. obj' \in [Cmds -> Pendings]
      BY <2>6, <3>1, SlotsTyped DEF SignalEvent
    <3> QED
      BY <2>6, <3>2 DEF SignalEvent
  <2>7. CASE ReaderWakesAll
    <3>1. obj' \in [Cmds -> Pendings]
      BY <2>7, SlotsTyped DEF ReaderWakesAll
    <3> QED
      BY <2>7, <3>1 DEF ReaderWakesAll, NobodyPending
  <2>8. CASE ReaderDies
    BY <2>8 DEF ReaderDies
  <2>9. CASE PoisonQueue
    BY <2>9 DEF PoisonQueue, DEAD
  <2> QED
    BY <1>3, <2>1, <2>2, <2>3, <2>4, <2>5, <2>6, <2>7, <2>8, <2>9
    DEF ReaderRuns
<1>4. ASSUME NEW k \in Closers, CloseSetsFlag(k) \/ CloserRuns(k)
      PROVE  TypeInv'
  <2> USE DEF CloserFrame, TypeOK, InHand
  <2>1. CASE CloseSetsFlag(k)
    BY <2>1 DEF CloseSetsFlag
  <2>2. CASE CloseWakesAll(k)
    <3>1. \A i \in Cmds : ClosedPending(obj[i]) \in Pendings
      BY SlotsTyped
    <3>2. obj' \in [Cmds -> Pendings]
      BY <2>2, <3>1 DEF CloseWakesAll
    <3> QED
      BY <2>2, <3>2 DEF CloseWakesAll, NobodyPending
  <2>3. CASE CloseShutsTransport(k)
    BY <2>3 DEF CloseShutsTransport
  <2> QED
    BY <1>4, <2>1, <2>2, <2>3 DEF CloserRuns
<1>5. ASSUME NEW x \in Consumers, NextRx(x) \/ ConsumerRuns(x)
      PROVE  TypeInv'
  <2>1. xpc' \in [Consumers -> {"idle", "get", "repost"}]
    BY <1>5 DEF ConsumerRuns, NextRx, NextRxGets, NextRxTimesOut,
                NextRxReposts, TypeOK
  <2>2. rxq' \in Seq(Nat) /\ delivered' \in Seq(Nat)
    <3>1. CASE NextRxGets(x)
      <4>1. rxq \in Seq(Nat) /\ delivered \in Seq(Nat) /\ rxq # <<>>
        BY <3>1 DEF NextRxGets, TypeOK
      <4>2. Head(rxq) \in Nat /\ Tail(rxq) \in Seq(Nat)
        BY <4>1
      <4>3. Append(delivered, Head(rxq)) \in Seq(Nat)
        BY <4>1, <4>2
      <4> QED
        BY <3>1, <4>1, <4>2, <4>3 DEF NextRxGets
    <3>2. CASE NextRxReposts(x)
      BY <3>2 DEF NextRxReposts, DEAD, TypeOK
    <3> QED
      BY <1>5, <3>1, <3>2 DEF ConsumerRuns, NextRx, NextRxTimesOut, TypeOK
  <2>3. RxFrame /\ UNCHANGED asyncErrs
    BY <1>5 DEF ConsumerRuns, NextRx, NextRxGets, NextRxTimesOut, NextRxReposts
  <2> QED
    BY <2>1, <2>2, <2>3 DEF RxFrame, TypeOK, InHand
<1>6. ASSUME DrainAsyncErrors PROVE TypeInv'
  BY <1>6 DEF DrainAsyncErrors, RxFrame, TypeOK, InHand
<1>7. ASSUME Device PROVE TypeInv'
  <2> USE DEF DeviceFrame, TypeOK, InHand
  <2>1. {"code"} \cup Undecodable \in SUBSET Bodies
    BY DEF Undecodable, Bodies
  <2>2. {"sent"} \in SUBSET Bodies /\ {"refused"} \cup Undecodable \in SUBSET Bodies
    BY DEF Undecodable, Bodies
  <2>3. CASE DeviceAnswers
    <3>1. Head(toDev) \in Cmds /\ toDev' \in Seq(Cmds)
      BY <2>3 DEF DeviceAnswers
    <3>2. {OkBody(obj[Head(toDev)].kind)} \cup Undecodable \in SUBSET Bodies
      BY DEF OkBody, Undecodable, Bodies
    <3>3. fromDev' \in Seq(Frames)
      BY <2>1, <2>3, <3>1, <3>2, ReplyTyped, ArrivesTyped DEF DeviceAnswers
    <3> QED
      BY <2>3, <3>1, <3>3 DEF DeviceAnswers
  <2>4. ASSUME NEW i \in Cmds, DeviceTxDone(i) PROVE TypeInv'
    <3>1. fromDev' \in Seq(Frames)
      BY <2>2, <2>4, ReplyTyped, ArrivesTyped DEF DeviceTxDone
    <3> QED
      BY <2>4, <3>1 DEF DeviceTxDone
  <2>5. CASE DeviceEmits
    <3>1. ASSUME NEW b \in {"good"} \cup Undecodable
          PROVE  {FrameOf("RX", 0, asyncSent + 1, b)} \in SUBSET Frames
      BY DEF FrameOf, Frames, Bodies, Undecodable
    <3>2. ASSUME NEW e \in {"code"} \cup Undecodable
          PROVE  {FrameOf("ERR", 0, 0, e)} \in SUBSET Frames
      BY DEF FrameOf, Frames, Bodies, Undecodable
    <3>3. fromDev' \in Seq(Frames)
      BY <2>5, <3>1, <3>2, ArrivesTyped DEF DeviceEmits
    <3> QED
      BY <2>5, <3>3 DEF DeviceEmits
  <2>6. CASE LinkDrops
    BY <2>6 DEF LinkDrops
  <2> QED
    BY <1>7, <2>3, <2>4, <2>5, <2>6 DEF Device
<1>8. CASE UNCHANGED vars
  BY <1>8 DEF vars, TypeOK, InHand
<1> QED
  BY <1>1, <1>2, <1>3, <1>4, <1>5, <1>6, <1>7, <1>8 DEF Next, Terminated

\* Every variable keeps its type, whatever the threads and the device do.
THEOREM TypeCorrect == Spec => []TypeOK
<1>1. Spec => []TypeInv
  BY TypeInit, TypeNext, PTL DEF Spec
<1>2. TypeInv => TypeOK
  BY DEF TypeInv
<1> QED
  BY <1>1, <1>2, PTL

-----------------------------------------------------------------------------
(* Who writes what                                                         *)

Allocates == \E c \in Callers, kind \in Kinds : AllocTag(c, kind)

\* The steps after which a variable may differ; a proof about the variable
\* has these cases only.
LEMMA Writers ==
  ASSUME [Next]_vars
  PROVE  /\ Allocates \/ UNCHANGED tagVars
         /\ \/ Allocates \/ ApplyFrame \/ SignalEvent \/ ReaderWakesAll
            \/ \E k \in Closers : CloseWakesAll(k)
            \/ UNCHANGED obj
         /\ \/ \E c \in Callers : RegisterPending(c) \/ ForgetPending(c)
            \/ ReaderWakesAll
            \/ \E k \in Closers : CloseWakesAll(k)
            \/ UNCHANGED pending
         /\ Allocates \/ (\E c \in Callers : CallerRuns(c) \/ WaitTimesOut(c))
            \/ UNCHANGED <<pc, res, toDev>> \/ Device
         /\ Device \/ UNCHANGED <<fromDev, devVars>> \/ ReadFrame
         /\ Device \/ UNCHANGED devVars
         /\ ReaderRuns \/ UNCHANGED readVars
<1> USE DEF tagVars, devVars, readVars, closeVars, rxVars
<1>1. CASE Allocates
  BY <1>1 DEF Allocates, AllocTag, CallerFrame
<1>2. CASE \E c \in Callers : CallerRuns(c) \/ WaitTimesOut(c)
  BY <1>2 DEF CallerRuns, RegisterPending, WriteFrame, WaitReturns,
              WaitTimesOut, ReadResult, ForgetPending, CallerFrame
<1>3. CASE ReaderRuns
  BY <1>3 DEF ReaderRuns, ReaderLoop, ReadNothing, ReadFrame, LookupPending,
              ApplyFrame, SignalEvent, ReaderWakesAll, ReaderDies, PoisonQueue,
              ReaderFrame
<1>4. CASE \E k \in Closers : CloseSetsFlag(k) \/ CloserRuns(k)
  BY <1>4 DEF CloserRuns, CloseSetsFlag, CloseWakesAll, CloseShutsTransport,
              CloserFrame
<1>5. CASE \E x \in Consumers : NextRx(x) \/ ConsumerRuns(x)
  BY <1>5 DEF ConsumerRuns, NextRx, NextRxGets, NextRxTimesOut, NextRxReposts,
              RxFrame
<1>6. CASE DrainAsyncErrors
  BY <1>6 DEF DrainAsyncErrors, RxFrame
<1>7. CASE Device
  BY <1>7 DEF Device, DeviceAnswers, DeviceTxDone, DeviceEmits, LinkDrops,
              DeviceFrame
<1>8. CASE UNCHANGED vars
  BY <1>8 DEF vars
<1> QED
  BY <1>1, <1>2, <1>3, <1>4, <1>5, <1>6, <1>7, <1>8
  DEF Next, Terminated, Allocates

-----------------------------------------------------------------------------
(* What no step undoes                                                     *)

\* The slots hold an answer.
Answered(p) == p.txDone # 0 \/ (p.kind # "TX" /\ p.ok # 0)

Done(p) == p.err # "none" \/ Answered(p)

\* From p to q a _Pending only gains: no slot is emptied, no event cleared.
Gains(p, q) ==
  /\ q.tag = p.tag /\ q.kind = p.kind
  /\ p.ok # 0 => q.ok # 0
  /\ p.txDone # 0 => q.txDone # 0
  /\ p.err # "none" => q.err # "none"
  /\ p.event => q.event

Issued == 1..issued

Steady ==
  /\ Issued \subseteq Issued'
  /\ served \subseteq served'
  /\ \A i \in Issued : Gains(obj[i], obj'[i])

LEMMA SlotsGain ==
  ASSUME NEW p \in Pendings
  PROVE  /\ Gains(p, p)
         /\ Gains(p, LostPending(p))
         /\ Gains(p, ClosedPending(p))
         /\ Gains(p, [p EXCEPT !.event = TRUE])
         /\ \A f \in Frames : f.tag # 0 => Gains(p, Filled(p, f))
<1>1. Gains(p, p) /\ Gains(p, LostPending(p))
  BY DEF Gains, LostPending, Pendings
<1>2. Gains(p, ClosedPending(p)) /\ Gains(p, [p EXCEPT !.event = TRUE])
  BY DEF Gains, ClosedPending, Pendings
<1>3. ASSUME NEW f \in Frames, f.tag # 0
      PROVE  Gains(p, Filled(p, f))
  <2>1. f.of # 0
    BY <1>3 DEF Frames, Cmds
  <2> QED
    BY <2>1 DEF Gains, Filled, Pendings
<1> QED
  BY <1>1, <1>2, <1>3

LEMMA AlwaysSteady ==
  ASSUME TypeInv, [Next]_vars
  PROVE  Steady
<1> USE SessionAssumption DEF TypeInv, TypeOK, Issued
<1>0. Issued \subseteq Cmds
  BY DEF Cmds
<1>1. Issued \subseteq Issued'
  BY Writers DEF Allocates, AllocTag, tagVars
<1>2. served \subseteq served'
  BY Writers DEF Device, DeviceAnswers, DeviceTxDone, DeviceEmits, LinkDrops,
                 DeviceFrame, devVars
<1>3. \A i \in Issued : Gains(obj[i], obj'[i])
  <2> SUFFICES ASSUME NEW i \in Issued PROVE Gains(obj[i], obj'[i])
    OBVIOUS
  <2>0. i \in Cmds /\ obj[i] \in Pendings
    BY <1>0
  <2>1. CASE Allocates
    <3>1. obj'[i] = obj[i]
      BY <2>0, <2>1 DEF Allocates, AllocTag
    <3> QED
      BY <2>0, <3>1, SlotsGain
  <2>2. CASE ApplyFrame
    <3>1. frame.tag # 0
      BY <2>2 DEF ApplyFrame, InHand
    <3>2. obj'[i] \in {obj[i], Filled(obj[i], frame)}
      BY <2>0, <2>2 DEF ApplyFrame
    <3> QED
      BY <2>0, <3>1, <3>2, SlotsGain
  <2>3. CASE SignalEvent
    <3>1. obj'[i] \in {obj[i], [obj[i] EXCEPT !.event = TRUE]}
      BY <2>0, <2>3 DEF SignalEvent
    <3> QED
      BY <2>0, <3>1, SlotsGain
  <2>4. CASE ReaderWakesAll
    <3>1. obj'[i] \in {obj[i], LostPending(obj[i])}
      BY <2>0, <2>4 DEF ReaderWakesAll
    <3> QED
      BY <2>0, <3>1, SlotsGain
  <2>5. CASE \E k \in Closers : CloseWakesAll(k)
    <3>1. obj'[i] \in {obj[i], ClosedPending(obj[i])}
      BY <2>0, <2>5 DEF CloseWakesAll
    <3> QED
      BY <2>0, <3>1, SlotsGain
  <2>6. CASE UNCHANGED obj
    BY <2>0, <2>6, SlotsGain
  <2> QED
    BY <2>1, <2>2, <2>3, <2>4, <2>5, <2>6, Writers
<1> QED
  BY <1>1, <1>2, <1>3 DEF Steady

-----------------------------------------------------------------------------
(* The inductive invariant                                                 *)

\* Callers in the middle of a command are in the middle of different ones.
CallsOK ==
  /\ \A c \in Callers : cur[c] \in 0..issued
  /\ \A c, d \in Callers : c # d /\ cur[c] = cur[d] => cur[c] = 0

\* Seen from the next tag, the latest MaxTag - 1 commands lie in one window
\* that goes round at most once.
TagWindow ==
  \A i \in Issued : LET d == issued + 1 - i IN
    d < MaxTag => \/ nextTag = obj[i].tag + d
                  \/ nextTag = obj[i].tag + d - MaxTag

TagsApart ==
  \A i, j \in Issued : i # j /\ obj[i].tag = obj[j].tag => FarApart(i, j)

TagInv == CallsOK /\ TagWindow /\ TagsApart

LEMMA TagInit == Init => TagInv
BY SessionAssumption DEF Init, TagInv, CallsOK, TagWindow, TagsApart, Issued

LEMMA TagNext ==
  ASSUME TypeInv, TagInv, [Next]_vars
  PROVE  TagInv'
<1> USE SessionAssumption DEF TypeInv, TypeOK, TagInv, Issued
<1>1. CASE Allocates
  <2>1. PICK c \in Callers, kind \in Kinds : AllocTag(c, kind)
    BY <1>1 DEF Allocates
  <2>2. /\ issued + 1 \in Cmds /\ issued' = issued + 1 /\ issued \in Nat
        /\ \A i \in 1..issued : i \in Cmds /\ obj'[i] = obj[i]
        /\ obj'[issued + 1].tag = nextTag
        /\ nextTag' = TagAfter(nextTag)
        /\ cur' = [cur EXCEPT ![c] = issued + 1]
    BY <2>1 DEF AllocTag, NewPending, Cmds
  <2>3. /\ nextTag \in 1..MaxTag /\ MaxTag \in Nat
        /\ \A i \in 1..issued : obj[i].tag \in 1..MaxTag
        /\ nextTag' \in 1..MaxTag
        /\ nextTag' = nextTag + 1 \/ (nextTag = MaxTag /\ nextTag' = 1)
    BY <2>2, TagSuccessor DEF Tags, Pendings
  <2>4. CallsOK'
    BY <2>2 DEF CallsOK
  <2>5. TagWindow'
    <3> SUFFICES ASSUME NEW i \in 1..(issued + 1), issued + 2 - i < MaxTag
                 PROVE  \/ nextTag' = obj'[i].tag + (issued + 2 - i)
                        \/ nextTag' = obj'[i].tag + (issued + 2 - i) - MaxTag
      <4>1. issued' + 1 = issued + 2
        BY <2>2
      <4> QED
        BY <2>2, <4>1 DEF TagWindow
    <3>1. CASE i = issued + 1
      <4>1. obj'[i].tag = nextTag /\ issued + 2 - i = 1
        BY <2>2, <3>1
      <4> QED
        BY <2>3, <4>1
    <3>2. CASE i \in 1..issued
      <4> DEFINE d == issued + 1 - i
                 t == obj[i].tag
      <4>1. d \in Nat /\ d + 1 = issued + 2 - i /\ d + 1 < MaxTag
        BY <2>2, <3>2
      <4>2. t \in 1..MaxTag /\ (nextTag = t + d \/ nextTag = t + d - MaxTag)
        BY <3>2, <4>1, <2>3 DEF TagWindow
      <4> HIDE DEF d, t
      <4>3. nextTag' = t + (d + 1) \/ nextTag' = t + (d + 1) - MaxTag
        BY <2>3, <4>1, <4>2
      <4> QED
        BY <2>2, <3>2, <4>1, <4>3 DEF t
    <3> QED
      BY <2>2, <3>1, <3>2
  <2>6. TagsApart'
    <3>1. ASSUME NEW i \in 1..issued, obj[i].tag = nextTag
          PROVE  issued + 1 - i >= MaxTag
      <4> DEFINE d == issued + 1 - i
      <4>1. d \in Nat \ {0}
        BY <2>2
      <4>2. d < MaxTag =>
              nextTag = obj[i].tag + d \/ nextTag = obj[i].tag + d - MaxTag
        BY DEF TagWindow
      <4> HIDE DEF d
      <4>3. d >= MaxTag
        BY <2>3, <3>1, <4>1, <4>2
      <4> QED
        BY <4>3 DEF d
    <3>2. ASSUME NEW i \in 1..(issued + 1), NEW j \in 1..(issued + 1), i # j,
                 obj'[i].tag = obj'[j].tag
          PROVE  FarApart(i, j)
      <4>1. CASE i = issued + 1
        <5>1. j \in 1..issued
          BY <2>2, <3>2, <4>1
        <5>2. obj[j].tag = nextTag
          BY <2>2, <3>2, <4>1, <5>1
        <5> QED
          BY <3>1, <4>1, <5>1, <5>2 DEF FarApart
      <4>2. CASE j = issued + 1
        <5>1. i \in 1..issued
          BY <2>2, <3>2, <4>2
        <5>2. obj[i].tag = nextTag
          BY <2>2, <3>2, <4>2, <5>1
        <5> QED
          BY <3>1, <4>2, <5>1, <5>2 DEF FarApart
      <4>3. CASE i \in 1..issued /\ j \in 1..issued
        BY <2>2, <3>2, <4>3 DEF TagsApart
      <4> QED
        BY <2>2, <4>1, <4>2, <4>3
    <3> QED
      BY <2>2, <3>2 DEF TagsApart, FarApart
  <2> QED
    BY <2>4, <2>5, <2>6
<1>2. CASE UNCHANGED tagVars
  <2>1. Steady
    BY AlwaysSteady
  <2> QED
    BY <1>2, <2>1 DEF tagVars, Steady, Gains, CallsOK, TagWindow, TagsApart,
                      FarApart
<1> QED
  BY <1>1, <1>2, Writers

\* _pending maps a tag to a command that carries it.
PendingOK ==
  \A t \in Tags : pending[t] # 0 =>
    pending[t] \in Issued /\ obj[pending[t]].tag = t

\* The device holds commands that were issued.
CommandsOK ==
  /\ \A n \in 1..Len(toDev) : toDev[n] \in Issued
  /\ \A i \in onAir : i \in Issued /\ obj[i].kind = "TX"

\* A reply carries the tag of the command it answers; the OK that completes
\* a command, and the TX_DONE that says so, come after it was carried out.
Addressed(f) ==
  f.tag # 0 =>
    /\ f.of \in Issued /\ obj[f.of].tag = f.tag
    /\ f.type = "OK" /\ obj[f.of].kind # "TX" => f.of \in served
    /\ f.type = "TX_DONE" =>
         /\ obj[f.of].kind = "TX" /\ f.body \in {"sent", "refused", "bad"}
         /\ f.body = "sent" => f.of \in served

FramesOK ==
  /\ \A n \in 1..Len(fromDev) : Addressed(fromDev[n])
  /\ Addressed(frame)

\* The reader holds a _Pending with the tag of the reply it applies to it.
ReaderOK ==
  /\ rpc \in {"apply", "signal"} => ref \in Issued
  /\ rpc = "apply" => obj[ref].tag = frame.tag
  /\ rpc = "signal" => Done(obj[ref])

\* The slots of command i were filled by replies that carried its tag.
SlotsOK(i) ==
  /\ obj[i].ok # 0 =>
       /\ obj[i].ok \in Issued /\ obj[obj[i].ok].tag = obj[i].tag
       /\ obj[i].ok = i /\ obj[i].kind # "TX" => i \in served
  /\ obj[i].txDone # 0 =>
       /\ obj[i].txDone \in Issued /\ obj[obj[i].txDone].tag = obj[i].tag
       /\ obj[obj[i].txDone].kind = "TX" /\ obj[i].txDone \in served
  /\ obj[i].event => Done(obj[i])

ResultsOK ==
  /\ \A i \in Issued : SlotsOK(i)
  /\ \A c \in Callers : pc[c] = "check" => obj[cur[c]].event
  /\ \A i \in Cmds :
       res[i] # "internal" /\ (res[i] = "ok" => i \in Issued /\ Answered(obj[i]))

Inv ==
  /\ TypeInv /\ TagInv
  /\ PendingOK /\ CommandsOK /\ FramesOK /\ ReaderOK /\ ResultsOK

-----------------------------------------------------------------------------
(* Every step keeps it                                                     *)

LEMMA InvInit == Init => Inv
<1> SUFFICES ASSUME Init PROVE Inv
  OBVIOUS
<1>1. PendingOK /\ CommandsOK /\ ReaderOK
  BY DEF Init, PendingOK, CommandsOK, ReaderOK
<1>2. FramesOK
  BY DEF Init, FramesOK, Addressed, Junk, FrameOf
<1>3. ResultsOK
  BY DEF Init, ResultsOK, Issued
<1> QED
  BY <1>1, <1>2, <1>3, TypeInit, TagInit DEF Inv

\* A caller in the middle of a command is in the middle of one that was
\* issued, which has a tag.
LEMMA CurrentIssued ==
  ASSUME TypeInv, TagInv, NEW c \in Callers, pc[c] # "idle"
  PROVE  /\ cur[c] \in Issued /\ cur[c] \in Cmds
         /\ obj[cur[c]] \in Pendings /\ obj[cur[c]].tag \in Tags
<1>1. cur[c] \in Issued
  BY DEF TypeInv, TypeOK, InHand, TagInv, CallsOK, Issued
<1>2. Issued \subseteq Cmds
  BY SessionAssumption DEF TypeInv, TypeOK, Issued, Cmds
<1> QED
  BY <1>1, <1>2 DEF TypeInv, TypeOK, Pendings

LEMMA PendingNext ==
  ASSUME TypeInv, TagInv, PendingOK, [Next]_vars
  PROVE  PendingOK'
<1>0. Steady
  BY AlwaysSteady
<1>1. ASSUME NEW c \in Callers, RegisterPending(c) PROVE PendingOK'
  <2>1. cur[c] \in Issued /\ obj[cur[c]].tag \in Tags
    BY <1>1, CurrentIssued DEF RegisterPending
  <2>2. UNCHANGED <<obj, issued>>
    BY <1>1 DEF RegisterPending, tagVars
  <2> QED
    BY <1>1, <2>1, <2>2 DEF RegisterPending, PendingOK, Issued, TypeInv, TypeOK
<1>2. ASSUME NEW c \in Callers, ForgetPending(c) PROVE PendingOK'
  BY <1>2 DEF ForgetPending, PendingOK, Issued, TypeInv, TypeOK, tagVars
<1>3. CASE ReaderWakesAll
  BY <1>3 DEF ReaderWakesAll, NobodyPending, PendingOK
<1>4. ASSUME NEW k \in Closers, CloseWakesAll(k) PROVE PendingOK'
  BY <1>4 DEF CloseWakesAll, NobodyPending, PendingOK
<1>5. CASE UNCHANGED pending
  BY <1>0, <1>5 DEF PendingOK, Steady, Gains
<1> QED
  BY <1>1, <1>2, <1>3, <1>4, <1>5, Writers

LEMMA CommandsNext ==
  ASSUME TypeInv, TagInv, CommandsOK, [Next]_vars
  PROVE  CommandsOK'
<1>0. Steady
  BY AlwaysSteady
<1>1. \A i \in Issued : i \in Issued' /\ obj'[i].kind = obj[i].kind
  BY <1>0 DEF Steady, Gains
<1>2. \/ UNCHANGED toDev
      \/ \E c \in Callers : pc[c] # "idle" /\ toDev' = Append(toDev, cur[c])
      \/ toDev # <<>> /\ toDev' = Tail(toDev)
  BY Writers DEF Allocates, AllocTag, CallerRuns, RegisterPending, WriteFrame,
                 WaitReturns, WaitTimesOut, ReadResult, ForgetPending, Device,
                 DeviceAnswers, DeviceTxDone, DeviceEmits, LinkDrops
<1>3. \A n \in 1..Len(toDev') : toDev'[n] \in Issued'
  <2>1. ASSUME NEW c \in Callers, pc[c] # "idle", toDev' = Append(toDev, cur[c])
        PROVE  \A n \in 1..Len(toDev') : toDev'[n] \in Issued'
    <3>1. cur[c] \in Issued'
      BY <1>1, <2>1, CurrentIssued
    <3>2. ASSUME NEW n \in 1..Len(toDev')
          PROVE  (n \in 1..Len(toDev) /\ toDev'[n] = toDev[n]) \/ toDev'[n] = cur[c]
      <4>1. toDev \in Seq(Cmds) /\ cur[c] \in Cmds
        BY <2>1, CurrentIssued DEF TypeInv, TypeOK
      <4> QED
        BY <2>1, <4>1
    <3> QED
      BY <1>1, <3>1, <3>2 DEF CommandsOK
  <2>2. CASE toDev # <<>> /\ toDev' = Tail(toDev)
    <3>1. \A n \in 1..Len(toDev') : n + 1 \in 1..Len(toDev) /\ toDev'[n] = toDev[n + 1]
      BY <2>2 DEF TypeInv, TypeOK
    <3> QED
      BY <1>1, <3>1 DEF CommandsOK
  <2>3. CASE UNCHANGED toDev
    BY <1>1, <2>3 DEF CommandsOK
  <2> QED
    BY <1>2, <2>1, <2>2, <2>3
<1>4. \A i \in onAir' : i \in onAir \/ (i \in Issued /\ obj[i].kind = "TX")
  <2>1. CASE DeviceAnswers
    <3>1. Head(toDev) \in Issued
      BY <2>1 DEF DeviceAnswers, CommandsOK, TypeInv, TypeOK
    <3> QED
      BY <2>1, <3>1 DEF DeviceAnswers
  <2> QED
    BY <2>1, Writers DEF Device, DeviceTxDone, DeviceEmits, LinkDrops, devVars
<1> QED
  BY <1>1, <1>3, <1>4 DEF CommandsOK

LEMMA AddressedStays ==
  ASSUME Steady, TypeInv, NEW f, Addressed(f)
  PROVE  Addressed(f)'
BY DEF Addressed, Steady, Gains

\* Each reply that the device sends is addressed.
LEMMA ReplyAddressed ==
  ASSUME TypeInv, CommandsOK, Device, Steady
  PROVE  \/ UNCHANGED fromDev
         \/ \E f : fromDev' = Append(fromDev, f) /\ f \in Frames /\ Addressed(f)'
<1> USE DEF Arrives
<1>0. UNCHANGED <<obj, issued>> /\ Addressed(Junk)'
  BY DEF Device, DeviceAnswers, DeviceTxDone, DeviceEmits, LinkDrops,
         DeviceFrame, tagVars, Addressed, Junk, FrameOf
<1>1. CASE DeviceAnswers
  <2> DEFINE i == Head(toDev)
  <2>1. i \in Issued /\ i \in Cmds
    BY <1>1 DEF DeviceAnswers, CommandsOK, TypeInv, TypeOK
  <2>2. ASSUME NEW f \in Reply("ERR", i, {"code"} \cup Undecodable)
        PROVE  f \in Frames /\ Addressed(f)'
    <3>1. f \in Frames
      BY <2>1, ReplyTyped DEF TypeInv, Undecodable, Bodies
    <3> QED
      BY <1>0, <2>1, <3>1 DEF Addressed, Reply, FrameOf, Issued
  <2>3. ASSUME NEW f \in Reply("OK", i, {OkBody(obj[i].kind)} \cup Undecodable),
               obj[i].kind # "TX" => i \in served'
        PROVE  f \in Frames /\ Addressed(f)'
    <3>1. f \in Frames
      BY <2>1, ReplyTyped DEF TypeInv, OkBody, Undecodable, Bodies
    <3> QED
      BY <1>0, <2>1, <2>3, <3>1 DEF Addressed, Reply, FrameOf, Issued
  <2> QED
    BY <1>0, <1>1, <2>2, <2>3, JunkTyped DEF DeviceAnswers
<1>2. ASSUME NEW i \in Cmds, DeviceTxDone(i)
      PROVE  \E f : fromDev' = Append(fromDev, f) /\ f \in Frames /\ Addressed(f)'
  <2>1. i \in Issued /\ obj[i].kind = "TX"
    BY <1>2 DEF DeviceTxDone, CommandsOK
  <2>2. ASSUME NEW f \in Reply("TX_DONE", i, {"sent"}), i \in served'
        PROVE  f \in Frames /\ Addressed(f)'
    <3>1. f \in Frames
      BY ReplyTyped DEF TypeInv, Bodies
    <3> QED
      BY <1>0, <2>1, <2>2, <3>1 DEF Addressed, Reply, FrameOf, Issued
  <2>3. ASSUME NEW f \in Reply("TX_DONE", i, {"refused"} \cup Undecodable)
        PROVE  f \in Frames /\ Addressed(f)'
    <3>1. f \in Frames
      BY ReplyTyped DEF TypeInv, Undecodable, Bodies
    <3> QED
      BY <1>0, <2>1, <3>1 DEF Addressed, Reply, FrameOf, Issued, Undecodable
  <2> QED
    BY <1>0, <1>2, <2>2, <2>3, JunkTyped DEF DeviceTxDone
<1>3. CASE DeviceEmits
  <2>1. ASSUME NEW b \in {"good"} \cup Undecodable, NEW n \in Nat
        PROVE  /\ FrameOf("RX", 0, n, b) \in Frames
               /\ Addressed(FrameOf("RX", 0, n, b))'
    BY DEF FrameOf, Frames, Bodies, Undecodable, Addressed
  <2>2. ASSUME NEW e \in {"code"} \cup Undecodable
        PROVE  /\ FrameOf("ERR", 0, 0, e) \in Frames
               /\ Addressed(FrameOf("ERR", 0, 0, e))'
    BY DEF FrameOf, Frames, Bodies, Undecodable, Addressed
  <2>3. PICK b \in {"good"} \cup Undecodable, e \in {"code"} \cup Undecodable :
          \/ Arrives({FrameOf("RX", 0, asyncSent + 1, b)})
          \/ Arrives({FrameOf("ERR", 0, 0, e)})
    BY <1>3 DEF DeviceEmits
  <2>4. PICK f : /\ fromDev' = Append(fromDev, f)
                 /\ f \in {FrameOf("RX", 0, asyncSent + 1, b),
                          FrameOf("ERR", 0, 0, e), Junk}
    BY <2>3
  <2>5. f \in Frames /\ Addressed(f)'
    <3>1. CASE f = FrameOf("RX", 0, asyncSent + 1, b)
      BY <2>1, <3>1 DEF TypeInv, TypeOK
    <3>2. CASE f = FrameOf("ERR", 0, 0, e)
      BY <2>2, <3>2
    <3>3. CASE f = Junk
      BY <1>0, <3>3, JunkTyped
    <3> QED
      BY <2>4, <3>1, <3>2, <3>3
  <2> QED
    BY <2>4, <2>5
<1>4. CASE LinkDrops
  BY <1>4 DEF LinkDrops
<1> QED
  BY <1>1, <1>2, <1>3, <1>4 DEF Device

LEMMA FramesNext ==
  ASSUME TypeInv, CommandsOK, FramesOK, [Next]_vars
  PROVE  FramesOK'
<1> USE DEF TypeInv, TypeOK
<1>0. Steady
  BY AlwaysSteady
<1>1. \A f : Addressed(f) => Addressed(f)'
  BY <1>0, AddressedStays
<1>2. ASSUME NEW f, f = frame' PROVE Addressed(f)'
  <2>1. frame' \in {frame, Junk} \/ (ReadFrame /\ frame' = Head(fromDev))
    BY Writers DEF ReaderRuns, ReaderLoop, ReadNothing, ReadFrame,
                   LookupPending, ApplyFrame, SignalEvent, ReaderWakesAll,
                   ReaderDies, PoisonQueue, readVars
  <2>2. Addressed(Junk) /\ Addressed(frame)
    BY DEF FramesOK, Addressed, Junk, FrameOf
  <2>3. ReadFrame => Addressed(Head(fromDev))
    BY DEF ReadFrame, FramesOK
  <2>4. Addressed(f)
    BY <1>2, <2>1, <2>2, <2>3
  <2> QED
    BY <1>1, <2>4
<1>3. ASSUME NEW n \in 1..Len(fromDev'), NEW f, f = fromDev'[n]
      PROVE  Addressed(f)'
  <2>1. CASE ReadFrame
    <3>1. n + 1 \in 1..Len(fromDev) /\ f = fromDev[n + 1]
      BY <1>3, <2>1 DEF ReadFrame
    <3> QED
      BY <1>1, <3>1 DEF FramesOK
  <2>2. CASE UNCHANGED fromDev
    BY <1>1, <1>3, <2>2 DEF FramesOK
  <2>3. ASSUME NEW g \in Frames, fromDev' = Append(fromDev, g), Addressed(g)'
        PROVE  Addressed(f)'
    <3>1. (n \in 1..Len(fromDev) /\ f = fromDev[n]) \/ f = g
      BY <1>3, <2>3
    <3> QED
      BY <1>1, <2>3, <3>1 DEF FramesOK
  <2> QED
    BY <1>0, <2>1, <2>2, <2>3, Writers, ReplyAddressed
<1> QED
  BY <1>2, <1>3 DEF FramesOK, Addressed

\* A frame addressed with the tag of p fills its slots with an answer, an
\* error, or leaves p as it was; where it completes p, p is done.
LEMMA FilledDone ==
  ASSUME NEW p \in Pendings, NEW f \in Frames, f.tag # 0,
         f.type = "TX_DONE" => f.body \in {"sent", "refused", "bad"}
  PROVE  /\ Filled(p, f).ok # p.ok =>
              f.type = "OK" /\ Filled(p, f).ok = f.of
         /\ Filled(p, f).txDone # p.txDone =>
              f.type = "TX_DONE" /\ f.body = "sent" /\ Filled(p, f).txDone = f.of
         /\ Completes(p, f) => Done(Filled(p, f))
         /\ Filled(p, f).event = p.event
<1>1. f.of # 0 /\ f.type \in {"OK", "ERR", "TX_DONE"}
  BY DEF Frames, Cmds
<1>2. CASE f.type = "OK"
  <2>1. CASE ParsesFor(p.kind, f.body)
    <3>1. Filled(p, f) = [p EXCEPT !.ok = f.of]
      BY <1>2, <2>1 DEF Filled
    <3> QED
      BY <1>1, <1>2, <2>1, <3>1 DEF Completes, Done, Answered, Pendings
  <2>2. CASE ~ParsesFor(p.kind, f.body)
    <3>1. Filled(p, f) = [p EXCEPT !.err = "bad"]
      BY <1>2, <2>2 DEF Filled
    <3> QED
      BY <1>2, <3>1 DEF Done, Pendings
  <2> QED
    BY <2>1, <2>2
<1>3. CASE f.type = "ERR"
  <2>1. Filled(p, f) = IF f.body = "code" THEN [p EXCEPT !.err = "device"] ELSE p
    BY <1>3 DEF Filled
  <2> QED
    BY <1>3, <2>1 DEF Completes, Done, Pendings
<1>4. CASE f.type = "TX_DONE"
  <2>1. Filled(p, f) = CASE f.body = "bad"     -> [p EXCEPT !.err = "bad"]
                         [] f.body = "refused" -> [p EXCEPT !.err = "refused"]
                         [] f.body = "sent"    -> [p EXCEPT !.txDone = f.of]
    BY <1>4 DEF Filled
  <2> QED
    BY <1>1, <1>4, <2>1 DEF Done, Answered, Pendings
<1> QED
  BY <1>1, <1>2, <1>3, <1>4

LEMMA ReaderNext ==
  ASSUME TypeInv, PendingOK, FramesOK, ReaderOK, [Next]_vars
  PROVE  ReaderOK'
<1> USE DEF TypeInv, TypeOK
<1>0. Steady
  BY AlwaysSteady
<1>1. CASE UNCHANGED readVars
  <2>1. UNCHANGED <<rpc, frame, ref>>
    BY <1>1 DEF readVars
  <2>2. ASSUME ref \in Issued
        PROVE  ref \in Issued' /\ obj'[ref].tag = obj[ref].tag
               /\ (Done(obj[ref]) => Done(obj'[ref]))
    BY <1>0, <2>2 DEF Steady, Gains, Done, Answered
  <2> QED
    BY <2>1, <2>2 DEF ReaderOK
<1>2. CASE ReaderRuns
  <2>1. CASE LookupPending
    <3>1. frame.tag \in Tags
      BY <2>1 DEF LookupPending, InHand, Frames
    <3> QED
      BY <2>1, <3>1 DEF LookupPending, ReaderFrame, tagVars, PendingOK,
                        ReaderOK, Issued
  <2>2. CASE ApplyFrame
    <3>1. /\ ref \in Issued /\ ref \in Cmds /\ obj[ref] \in Pendings
          /\ frame \in Frames /\ frame.tag # 0
      <4>1. ref \in Cmds
        BY <2>2 DEF ApplyFrame, InHand, Cmds
      <4> QED
        BY <2>2, <4>1 DEF ApplyFrame, ReaderOK, InHand
    <3>2. frame.type = "TX_DONE" => frame.body \in {"sent", "refused", "bad"}
      BY <3>1 DEF FramesOK, Addressed
    <3>3. Completes(obj[ref], frame) => Done(obj'[ref])
      BY <2>2, <3>1, <3>2, FilledDone DEF ApplyFrame
    <3> QED
      BY <1>0, <2>2, <3>1, <3>3 DEF ApplyFrame, ReaderOK, Steady
  <2>3. CASE ~LookupPending /\ ~ApplyFrame
    BY <1>2, <2>3 DEF ReaderRuns, ReaderLoop, ReadNothing, ReadFrame,
          SignalEvent, ReaderWakesAll, ReaderDies, PoisonQueue, ReaderOK
  <2> QED
    BY <2>1, <2>2, <2>3
<1> QED
  BY <1>1, <1>2, Writers

\* A _Pending woken by the end of the session is done.
LEMMA WokenDone ==
  ASSUME NEW p \in Pendings
  PROVE  Done(LostPending(p)) /\ Done(ClosedPending(p))
BY DEF Done, Answered, LostPending, ClosedPending, Pendings

\* What a step leaves in the slots of a command that it does not answer.
LEMMA SlotsStay ==
  ASSUME Steady, NEW i \in Issued, SlotsOK(i),
         obj'[i].ok = obj[i].ok, obj'[i].txDone = obj[i].txDone,
         obj'[i].event => Done(obj'[i])
  PROVE  SlotsOK(i)'
BY DEF SlotsOK, Steady, Gains

LEMMA SlotsNext ==
  ASSUME TypeInv, PendingOK, FramesOK, ReaderOK, [Next]_vars,
         \A i \in Issued : SlotsOK(i), NEW i \in Issued'
  PROVE  SlotsOK(i)'
<1> USE DEF TypeInv, TypeOK
<1>0. Steady /\ i \in Cmds
  <2>1. issued' \in 0..MaxCmds
    BY TypeNext
  <2>2. i \in Cmds
    BY <2>1, SessionAssumption DEF Issued, Cmds
  <2> QED
    BY <2>2, AlwaysSteady
<1>1. CASE i \notin Issued
  <2>1. Allocates
    BY <1>1, Writers DEF tagVars, Issued
  <2>2. PICK c \in Callers, kind \in Kinds : AllocTag(c, kind)
    BY <2>1 DEF Allocates
  <2>3. i = issued + 1
    BY <1>1, <2>2, SessionAssumption DEF AllocTag, Issued
  <2>4. obj'[i] = NewPending(nextTag, kind)
    BY <1>0, <2>2, <2>3 DEF AllocTag
  <2> QED
    BY <2>4 DEF SlotsOK, NewPending
<1>2. CASE i \in Issued
  <2> USE <1>0, <1>2
  <2>0. obj[i] \in Pendings /\ SlotsOK(i)
    OBVIOUS
  <2>1. CASE Allocates
    <3>1. obj'[i] = obj[i]
      BY <2>1 DEF Allocates, AllocTag, Issued
    <3> QED
      BY <2>0, <3>1, SlotsStay DEF SlotsOK
  <2>2. CASE ApplyFrame
    <3>1. CASE i # ref
      <4>1. obj'[i] = obj[i]
        BY <2>2, <3>1 DEF ApplyFrame
      <4> QED
        BY <2>0, <4>1, SlotsStay DEF SlotsOK
    <3>2. CASE i = ref
      <4>1. /\ frame \in Frames /\ frame.tag # 0 /\ Addressed(frame)
            /\ obj[i].tag = frame.tag /\ obj'[i] = Filled(obj[i], frame)
        BY <2>2, <3>2 DEF ApplyFrame, ReaderOK, InHand, FramesOK
      <4>2. frame.type = "TX_DONE" => frame.body \in {"sent", "refused", "bad"}
        BY <4>1 DEF Addressed
      <4>3. /\ obj'[i].ok # obj[i].ok => frame.type = "OK" /\ obj'[i].ok = frame.of
            /\ obj'[i].txDone # obj[i].txDone =>
                 /\ frame.type = "TX_DONE" /\ frame.body = "sent"
                 /\ obj'[i].txDone = frame.of
            /\ obj'[i].event = obj[i].event
        BY <2>0, <4>1, <4>2, FilledDone
      <4>4. obj'[i].event => Done(obj'[i])
        BY <4>3 DEF SlotsOK, Steady, Gains, Done, Answered
      <4>5. obj'[i].ok # obj[i].ok =>
              /\ obj'[i].ok \in Issued /\ obj[obj'[i].ok].tag = obj[i].tag
              /\ obj'[i].ok = i /\ obj[i].kind # "TX" => i \in served
        BY <4>1, <4>3 DEF Addressed
      <4>6. obj'[i].txDone # obj[i].txDone =>
              /\ obj'[i].txDone \in Issued /\ obj[obj'[i].txDone].tag = obj[i].tag
              /\ obj[obj'[i].txDone].kind = "TX" /\ obj'[i].txDone \in served
        BY <4>1, <4>3 DEF Addressed
      <4> QED
        BY <2>0, <4>4, <4>5, <4>6 DEF SlotsOK, Steady, Gains
    <3> QED
      BY <3>1, <3>2
  <2>3. CASE SignalEvent
    <3>1. \/ obj'[i] = obj[i]
          \/ obj'[i] = [obj[i] EXCEPT !.event = TRUE] /\ Done(obj[i])
      BY <2>3 DEF SignalEvent, ReaderOK
    <3>2. obj'[i].event => Done(obj'[i])
      BY <2>0, <3>1 DEF SlotsOK, Done, Answered, Pendings
    <3> QED
      BY <2>0, <3>1, <3>2, SlotsStay DEF Pendings
  <2>4. CASE ReaderWakesAll
    <3>1. obj'[i] \in {obj[i], LostPending(obj[i])}
      BY <2>4 DEF ReaderWakesAll
    <3>2. obj'[i].event => Done(obj'[i])
      BY <2>0, <3>1, WokenDone DEF SlotsOK
    <3> QED
      BY <2>0, <3>1, <3>2, SlotsStay DEF LostPending, Pendings
  <2>5. CASE \E k \in Closers : CloseWakesAll(k)
    <3>1. obj'[i] \in {obj[i], ClosedPending(obj[i])}
      BY <2>5 DEF CloseWakesAll
    <3>2. obj'[i].event => Done(obj'[i])
      BY <2>0, <3>1, WokenDone DEF SlotsOK
    <3> QED
      BY <2>0, <3>1, <3>2, SlotsStay DEF ClosedPending, Pendings
  <2>6. CASE UNCHANGED obj
    BY <2>0, <2>6, SlotsStay DEF SlotsOK
  <2> QED
    BY <2>1, <2>2, <2>3, <2>4, <2>5, <2>6, Writers
<1> QED
  BY <1>1, <1>2

\* A caller that reads its slots finds an answer, or an error that it raises.
LEMMA OutcomeSound ==
  ASSUME NEW p \in Pendings, Done(p)
  PROVE  Outcome(p) # "internal" /\ (Outcome(p) = "ok" => Answered(p))
BY DEF Outcome, Done, Answered, Pendings, Errs

LEMMA ResultsNext ==
  ASSUME TypeInv, TagInv, PendingOK, FramesOK, ReaderOK, ResultsOK, [Next]_vars
  PROVE  ResultsOK'
<1> USE DEF TypeInv, TypeOK
<1>0. Steady
  BY AlwaysSteady
<1>1. \A i \in Issued' : SlotsOK(i)'
  BY SlotsNext DEF ResultsOK
<1>2. \A i \in Issued : i \in Issued' /\ (Answered(obj[i]) => Answered(obj'[i]))
                      /\ (obj[i].event => obj'[i].event)
  BY <1>0 DEF Steady, Gains, Answered
<1>3. ASSUME NEW i \in Cmds, res'[i] # res[i]
      PROVE  res'[i] # "internal" /\
             (res'[i] = "ok" => i \in Issued /\ Answered(obj[i]))
  <2>1. PICK c \in Callers : CallerRuns(c) \/ WaitTimesOut(c)
    BY <1>3, Writers DEF Allocates, AllocTag, Device, DeviceAnswers,
                         DeviceTxDone, DeviceEmits, LinkDrops, DeviceFrame
  <2>2. pc[c] # "idle" /\ (ReadResult(c) => pc[c] = "check")
    BY <2>1 DEF CallerRuns, RegisterPending, WriteFrame, WaitReturns,
                WaitTimesOut, ReadResult, ForgetPending
  <2>3. cur[c] \in Issued /\ cur[c] \in Cmds /\ obj[cur[c]] \in Pendings
    BY <2>2, CurrentIssued
  <2>4. CASE ReadResult(c)
    <3>1. Done(obj[cur[c]])
      BY <2>2, <2>3, <2>4 DEF ResultsOK, SlotsOK
    <3>2. i = cur[c] /\ res'[i] = Outcome(obj[i])
      BY <1>3, <2>3, <2>4 DEF ReadResult, Finish
    <3> QED
      BY <2>3, <3>1, <3>2, OutcomeSound
  <2>5. CASE ~ReadResult(c)
    <3>1. res'[i] \in {"ValueError", "OSError", "TimeoutError"}
      BY <1>3, <2>1, <2>3, <2>5 DEF CallerRuns, RegisterPending, WriteFrame,
            WaitReturns, WaitTimesOut, ForgetPending, Finish
    <3> QED
      BY <3>1
  <2> QED
    BY <2>4, <2>5
<1>4. ASSUME NEW c \in Callers, pc'[c] = "check" PROVE obj'[cur'[c]].event
  <2>1. CASE Allocates
    <3>1. pc[c] = "check" /\ cur'[c] = cur[c]
      BY <1>4, <2>1 DEF Allocates, AllocTag, Goto
    <3> QED
      BY <1>2, <3>1, CurrentIssued DEF ResultsOK
  <2>2. CASE UNCHANGED tagVars
    <3>1. pc[c] = "check" \/ WaitReturns(c)
      BY <1>4, <2>2, Writers DEF Allocates, AllocTag, Goto, Finish, CallerRuns,
            RegisterPending, WriteFrame, WaitReturns, WaitTimesOut, ReadResult,
            ForgetPending, Device, DeviceAnswers, DeviceTxDone, DeviceEmits,
            LinkDrops, DeviceFrame
    <3>2. pc[c] # "idle" /\ cur'[c] = cur[c]
      BY <2>2, <3>1 DEF WaitReturns, tagVars
    <3>3. obj[cur[c]].event
      BY <3>1 DEF WaitReturns, ResultsOK
    <3> QED
      BY <1>2, <3>2, <3>3, CurrentIssued
  <2> QED
    BY <2>1, <2>2, Writers
<1> QED
  BY <1>1, <1>2, <1>3, <1>4 DEF ResultsOK

LEMMA InvNext == Inv /\ [Next]_vars => Inv'
<1> SUFFICES ASSUME Inv, [Next]_vars PROVE Inv'
  OBVIOUS
<1>1. TypeInv' /\ TagInv' /\ PendingOK'
  BY TypeNext, TagNext, PendingNext DEF Inv
<1>2. CommandsOK' /\ FramesOK'
  BY CommandsNext, FramesNext DEF Inv
<1>3. ReaderOK' /\ ResultsOK'
  BY ReaderNext, ResultsNext DEF Inv
<1> QED
  BY <1>1, <1>2, <1>3 DEF Inv

LEMMA InvHolds == Spec => []Inv
BY InvInit, InvNext, PTL DEF Spec

-----------------------------------------------------------------------------
(* What callers get                                                        *)

LEMMA InvImpliesOwnReply == Inv => OwnReply
<1> SUFFICES ASSUME Inv, NEW i \in Cmds, res[i] = "ok"
             PROVE  \/ i \in Origins(i) /\ i \in served
                    \/ \E o \in Origins(i) : FarApart(i, o)
  BY DEF OwnReply
<1>1. i \in Issued /\ SlotsOK(i) /\ Answered(obj[i])
  BY DEF Inv, ResultsOK
<1>2. ASSUME NEW o \in Issued, o # i, obj[o].tag = obj[i].tag
      PROVE  FarApart(i, o)
  BY <1>1, <1>2 DEF Inv, TagInv, TagsApart
<1>3. CASE obj[i].txDone # 0
  BY <1>1, <1>2, <1>3 DEF SlotsOK, Origins
<1>4. CASE obj[i].kind # "TX" /\ obj[i].ok # 0
  BY <1>1, <1>2, <1>4 DEF SlotsOK, Origins
<1> QED
  BY <1>1, <1>3, <1>4 DEF Answered

\* A command that returns normally was carried out and returns its own reply,
\* unless a reply a full round of tags old was taken for it.
THEOREM OwnReplyHolds == Spec => []OwnReply
BY InvImpliesOwnReply, InvHolds, PTL

\* The internal error of _send_tx is never raised.
THEOREM NoInternalErrorHolds == Spec => []NoInternalError
<1>1. Inv => NoInternalError
  BY DEF Inv, ResultsOK, NoInternalError
<1> QED
  BY <1>1, InvHolds, PTL

-----------------------------------------------------------------------------
(* Who can be woken                                                        *)

LEMMA StrandedNext ==
  ASSUME Inv, NoStrandedWaiter, [Next]_vars
  PROVE  NoStrandedWaiter'
<1> USE DEF Inv, TypeInv, TypeOK
<1>0. Steady
  BY AlwaysSteady
<1> SUFFICES ASSUME NEW c \in Callers, pc'[c] \in {"write", "wait"}
             PROVE  \/ obj'[cur'[c]].event
                    \/ pending'[obj'[cur'[c]].tag] = cur'[c]
                    \/ \E j \in Issued' : FarApart(j, cur'[c])
  BY DEF NoStrandedWaiter, Issued, FarApart
<1>1. CASE RegisterPending(c)
  <2>1. cur[c] \in Issued /\ obj[cur[c]].tag \in Tags
    BY <1>1, CurrentIssued DEF RegisterPending
  <2> QED
    BY <1>1, <2>1 DEF RegisterPending, tagVars
<1>2. CASE ~RegisterPending(c)
  <2>1. pc[c] \in {"write", "wait"} /\ cur'[c] = cur[c]
    <3>1. CASE Allocates
      BY <3>1 DEF Allocates, AllocTag, Goto
    <3>2. CASE UNCHANGED tagVars
      BY <1>2, <3>2, Writers DEF Allocates, AllocTag, Goto, Finish, CallerRuns,
            RegisterPending, WriteFrame, WaitReturns, WaitTimesOut, ReadResult,
            ForgetPending, Device, DeviceAnswers, DeviceTxDone, DeviceEmits,
            LinkDrops, DeviceFrame, tagVars
    <3> QED
      BY <3>1, <3>2, Writers
  <2> DEFINE i == cur[c]
             t == obj[i].tag
  <2>2. i \in Issued /\ i # 0 /\ i \in Cmds /\ t \in Tags
    BY <2>1, CurrentIssued DEF Issued
  <2>3. i \in Issued' /\ obj'[i].tag = t /\ (obj[i].event => obj'[i].event)
    BY <1>0, <2>2 DEF Steady, Gains
  <2>4. obj[i].event \/ pending[t] = i \/ \E j \in Issued : FarApart(j, i)
    BY <2>1 DEF NoStrandedWaiter, Issued
  <2>5. CASE obj[i].event \/ \E j \in Issued : FarApart(j, i)
    BY <1>0, <2>1, <2>3, <2>5 DEF Steady
  <2>6. CASE pending[t] = i
    <3>1. ASSUME NEW d \in Callers, RegisterPending(d) \/ ForgetPending(d),
                 pending'[t] # i
          PROVE  \E j \in Issued : FarApart(j, i)
      <4>1. /\ pc[d] # "idle" /\ d # c /\ obj[cur[d]].tag = t
        BY <1>2, <2>1, <2>2, <2>6, <3>1 DEF RegisterPending, ForgetPending
      <4>2. cur[d] \in Issued /\ cur[d] # i
        BY <2>2, <4>1, CurrentIssued DEF TagInv, CallsOK
      <4> QED
        BY <2>2, <4>1, <4>2 DEF TagInv, TagsApart
    <3>2. CASE ReaderWakesAll \/ \E k \in Closers : CloseWakesAll(k)
      <4>1. i \in Registered /\ obj[i] \in Pendings
        BY <2>2, <2>6 DEF Registered
      <4>2. obj'[i] \in {LostPending(obj[i]), ClosedPending(obj[i])}
        BY <2>2, <3>2, <4>1 DEF ReaderWakesAll, CloseWakesAll
      <4>3. obj'[i].event
        BY <4>1, <4>2 DEF LostPending, ClosedPending, Pendings
      <4> QED
        BY <2>1, <4>3
    <3>3. CASE pending'[t] = i
      BY <2>1, <2>3, <3>3
    <3> QED
      BY <1>0, <2>1, <2>3, <2>6, <3>1, <3>2, <3>3, Writers DEF Steady
  <2> QED
    BY <2>4, <2>5, <2>6
<1> QED
  BY <1>1, <1>2

\* No caller waits for an event that neither the reader nor close() can set,
\* unless a command a full round of tags away took its entry.
THEOREM NoStrandedWaiterHolds == Spec => []NoStrandedWaiter
<1>1. Init => NoStrandedWaiter
  BY DEF Init, NoStrandedWaiter
<1> QED
  BY <1>1, InvHolds, StrandedNext, PTL DEF Spec

-----------------------------------------------------------------------------
(* What a call leaves behind                                               *)

\* The call of c has an entry in _pending, or had one.
Entered(c) == pc[c] \in {"write", "wait", "check", "forget"}

\* A call that has an entry goes on with its command, and only the step that
\* takes the entry out ends it.
LEMMA EnteredStays ==
  ASSUME TypeInv, [Next]_vars, NEW c \in Callers, Entered(c), ~ForgetPending(c)
  PROVE  Entered(c)' /\ cur'[c] = cur[c]
<1> USE DEF TypeInv, TypeOK, Entered
<1>1. CASE Allocates
  BY <1>1 DEF Allocates, AllocTag, Goto
<1>2. CASE \E d \in Callers : CallerRuns(d) \/ WaitTimesOut(d)
  <2>1. PICK d \in Callers : CallerRuns(d) \/ WaitTimesOut(d)
    BY <1>2
  <2>2. UNCHANGED cur
    BY <2>1 DEF CallerRuns, RegisterPending, WriteFrame, WaitReturns,
                WaitTimesOut, ReadResult, ForgetPending, tagVars
  <2>3. d # c => pc'[c] = pc[c]
    BY <2>1 DEF CallerRuns, RegisterPending, WriteFrame, WaitReturns,
                WaitTimesOut, ReadResult, ForgetPending, Goto, Finish
  <2>4. d = c => pc'[c] \in {"wait", "check", "forget"}
    BY <2>1 DEF CallerRuns, RegisterPending, WriteFrame, WaitReturns,
                WaitTimesOut, ReadResult, ForgetPending, Goto, Finish
  <2> QED
    BY <2>2, <2>3, <2>4
<1>3. CASE UNCHANGED <<pc, tagVars>>
  BY <1>3 DEF tagVars
<1> QED
  BY <1>1, <1>2, <1>3, Writers DEF Device, DeviceAnswers, DeviceTxDone,
     DeviceEmits, LinkDrops, DeviceFrame

LEMMA LeakedNext ==
  ASSUME Inv, NoLeakedPending, [Next]_vars
  PROVE  NoLeakedPending'
<1> USE DEF Inv, TypeInv, TypeOK, Entered
<1> SUFFICES ASSUME NEW t \in Tags, pending'[t] # 0
             PROVE  \E c \in Callers : cur'[c] = pending'[t] /\ Entered(c)'
  BY DEF NoLeakedPending
<1>1. CASE pending'[t] = pending[t]
  <2>1. PICK c \in Callers : cur[c] = pending[t] /\ Entered(c)
    BY <1>1 DEF NoLeakedPending
  <2>2. obj[cur[c]].tag = t
    BY <1>1, <2>1 DEF PendingOK
  <2>3. ~ForgetPending(c)
    BY <1>1, <2>2 DEF ForgetPending
  <2>4. Entered(c)' /\ cur'[c] = cur[c]
    BY <2>1, <2>3, EnteredStays
  <2> QED
    BY <1>1, <2>1, <2>4
<1>2. CASE pending'[t] # pending[t]
  <2>1. PICK c \in Callers : RegisterPending(c)
    BY <1>2, Writers DEF ForgetPending, ReaderWakesAll, CloseWakesAll,
                         NobodyPending
  <2>2. pending'[t] = cur[c] /\ pc'[c] = "write" /\ UNCHANGED cur
    BY <1>2, <2>1 DEF RegisterPending, Goto, tagVars
  <2> QED
    BY <2>2
<1> QED
  BY <1>1, <1>2

\* However a call ends, _pending keeps no entry of it.
THEOREM NoLeakedPendingHolds == Spec => []NoLeakedPending
<1>1. Init => NoLeakedPending
  BY DEF Init, NoLeakedPending
<1> QED
  BY <1>1, InvHolds, LeakedNext, PTL DEF Spec

\* The reader has left its loop and has failed what was registered.
ReaderGone == rpc \in {"die", "poison", "dead"}

\* TxDoneKept alone is not inductive: what makes it true is that the error is
\* recorded once the reader fills no slot any more.
LostOK ==
  \A i \in Cmds :
    obj[i].err = "lost" \/ res[i] = "lost" => obj[i].txDone = 0 /\ ReaderGone

LEMMA LostNext ==
  ASSUME TypeInv, TagInv, LostOK, [Next]_vars
  PROVE  LostOK'
<1> USE DEF TypeInv, TypeOK
<1>1. ReaderGone => ReaderGone'
  BY Writers DEF ReaderGone, ReaderRuns, ReaderLoop, ReadNothing, ReadFrame,
        LookupPending, ApplyFrame, SignalEvent, ReaderWakesAll, ReaderDies,
        PoisonQueue, readVars
<1>2. ASSUME NEW i \in Cmds, res'[i] = "lost", res[i] # "lost"
      PROVE  obj[i].err = "lost"
  <2>1. PICK c \in Callers : CallerRuns(c) \/ WaitTimesOut(c)
    BY <1>2, Writers DEF Allocates, AllocTag, Device, DeviceAnswers,
                         DeviceTxDone, DeviceEmits, LinkDrops, DeviceFrame
  <2>2. CASE ReadResult(c)
    <3>1. i = cur[c] /\ res'[i] = Outcome(obj[i])
      BY <1>2, <2>2 DEF ReadResult, Finish
    <3> QED
      BY <1>2, <3>1 DEF Outcome
  <2>3. CASE ~ReadResult(c)
    BY <1>2, <2>1, <2>3 DEF CallerRuns, RegisterPending, WriteFrame,
          WaitReturns, WaitTimesOut, ForgetPending, Finish
  <2> QED
    BY <2>2, <2>3
<1>3. ASSUME NEW i \in Cmds, obj'[i] # obj[i], obj'[i].err = "lost" \/ res'[i] = "lost"
      PROVE  obj'[i].txDone = 0 /\ ReaderGone'
  <2>0. obj[i] \in Pendings
    OBVIOUS
  <2>1. CASE Allocates
    <3>1. obj'[i].txDone = 0 /\ obj'[i].err = "none" /\ UNCHANGED res
      BY <1>3, <2>1 DEF Allocates, AllocTag, NewPending
    <3> QED
      BY <1>1, <1>3, <3>1 DEF LostOK
  <2>2. CASE ApplyFrame
    <3>1. obj'[i] = Filled(obj[i], frame) /\ UNCHANGED res /\ ~ReaderGone
      BY <1>3, <2>2 DEF ApplyFrame, ReaderFrame, ReaderGone
    <3>2. obj'[i].err # "lost"
      BY <2>0, <3>1 DEF LostOK, Filled, Pendings
    <3> QED
      BY <1>3, <3>1, <3>2 DEF LostOK
  <2>3. CASE SignalEvent
    <3>1. obj'[i] = [obj[i] EXCEPT !.event = TRUE] /\ UNCHANGED res /\ ~ReaderGone
      BY <1>3, <2>3 DEF SignalEvent, ReaderFrame, ReaderGone
    <3> QED
      BY <1>3, <2>0, <3>1 DEF LostOK, Pendings
  <2>4. CASE ReaderWakesAll
    <3>1. /\ obj'[i] = LostPending(obj[i]) /\ UNCHANGED res
          /\ ~ReaderGone /\ ReaderGone'
      BY <1>3, <2>4 DEF ReaderWakesAll, ReaderFrame, ReaderGone
    <3>2. obj[i].err # "lost" /\ res[i] # "lost"
      BY <3>1 DEF LostOK
    <3> QED
      BY <1>3, <2>0, <3>1, <3>2 DEF LostPending, Pendings
  <2>5. CASE \E k \in Closers : CloseWakesAll(k)
    <3>1. obj'[i] = ClosedPending(obj[i]) /\ UNCHANGED res
      BY <1>3, <2>5 DEF CloseWakesAll, CloserFrame
    <3> QED
      BY <1>1, <1>3, <2>0, <3>1 DEF LostOK, ClosedPending, Pendings
  <2> QED
    BY <1>3, <2>1, <2>2, <2>3, <2>4, <2>5, Writers
<1>4. ASSUME NEW i \in Cmds, obj'[i] = obj[i], obj'[i].err = "lost" \/ res'[i] = "lost"
      PROVE  obj'[i].txDone = 0 /\ ReaderGone'
  BY <1>1, <1>2, <1>4 DEF LostOK
<1> QED
  BY <1>3, <1>4 DEF LostOK

\* A TX whose TX_DONE was received is never reported as lost, so that the
\* Dongle does not transmit it again.
THEOREM TxDoneKeptHolds == Spec => []TxDoneKept
<1>1. Init => LostOK
  BY DEF Init, LostOK, NewPending
<1>2. Inv => TypeInv /\ TagInv
  BY DEF Inv
<1>3. LostOK => TxDoneKept
  BY DEF LostOK, TxDoneKept
<1> QED
  BY <1>1, <1>2, <1>3, InvHolds, LostNext, PTL DEF Spec

-----------------------------------------------------------------------------
(* The Session implements Rpc                                              *)

\* A command has no outcome until the call that sent it is over.
HistoryOK ==
  /\ \A c \in Callers :
       pc[c] \notin {"idle", "forget"} => res[cur[c]] = "none"
  /\ \A i \in Cmds : res[i] # "none" => i \in Issued
  /\ served \subseteq Issued

\* A step that gives a command its outcome.
LEMMA OutcomesGiven ==
  ASSUME Inv, [Next]_vars, ~UNCHANGED res
  PROVE  \E c \in Callers : /\ pc[c] \notin {"idle", "forget"}
                            /\ \E o \in Outcomes : Finish(c, o)
                            /\ UNCHANGED <<tagVars, served>>
<1>1. PICK c \in Callers : CallerRuns(c) \/ WaitTimesOut(c)
  BY Writers DEF Allocates, AllocTag, Device, DeviceAnswers, DeviceTxDone,
                 DeviceEmits, LinkDrops, DeviceFrame
<1>2. ReadResult(c) => Outcome(obj[cur[c]]) \in Outcomes
  BY CurrentIssued DEF ReadResult, Outcome, Outcomes, Pendings, Errs, Inv
<1> QED
  BY <1>1, <1>2 DEF CallerRuns, RegisterPending, WriteFrame, WaitReturns,
     WaitTimesOut, ReadResult, ForgetPending, CallerFrame, devVars, Outcomes, tagVars

LEMMA HistoryNext ==
  ASSUME Inv, HistoryOK, [Next]_vars
  PROVE  HistoryOK'
<1> USE DEF Inv, TypeInv, TypeOK
<1>0. Steady
  BY AlwaysSteady
<1>1. served' \subseteq Issued'
  <2>1. ASSUME NEW i \in served', i \notin served PROVE i \in Issued
    <3>1. CASE DeviceAnswers
      <4>1. Head(toDev) \in Issued
        BY <3>1 DEF DeviceAnswers, CommandsOK
      <4> QED
        BY <2>1, <3>1, <4>1 DEF DeviceAnswers
    <3>2. CASE \E j \in Cmds : DeviceTxDone(j)
      BY <2>1, <3>2 DEF DeviceTxDone, CommandsOK
    <3> QED
      BY <2>1, <3>1, <3>2, Writers DEF Device, DeviceEmits, LinkDrops, devVars
  <2> QED
    BY <1>0, <2>1 DEF Steady, HistoryOK
<1>2. CASE ~UNCHANGED res
  <2>1. PICK c \in Callers : /\ pc[c] \notin {"idle", "forget"}
                            /\ \E o \in Outcomes : Finish(c, o)
                            /\ UNCHANGED <<tagVars, served>>
    BY <1>2, OutcomesGiven
  <2>2. cur[c] \in Issued /\ cur[c] \in Cmds /\ cur[c] # 0
    BY <2>1, CurrentIssued DEF Issued
  <2>3. ASSUME NEW d \in Callers, d # c, pc[d] \notin {"idle", "forget"}
        PROVE  cur[d] # cur[c]
    BY <2>2, <2>3 DEF TagInv, CallsOK
  <2> QED
    BY <1>1, <2>1, <2>2, <2>3 DEF Finish, Goto, HistoryOK, tagVars, Issued
<1>3. CASE UNCHANGED res
  <2>1. CASE Allocates
    <3>1. PICK c \in Callers, kind \in Kinds : AllocTag(c, kind)
      BY <2>1 DEF Allocates
    <3>2. issued + 1 \in Cmds /\ issued + 1 \notin Issued
      BY <3>1, SessionAssumption DEF AllocTag, Cmds, Issued
    <3> QED
      BY <1>0, <1>1, <1>3, <3>1, <3>2 DEF AllocTag, Goto, HistoryOK, Steady
  <2>2. CASE UNCHANGED tagVars
    <3>1. \A c \in Callers : pc'[c] \notin {"idle", "forget"} =>
                             pc[c] \notin {"idle", "forget"}
      BY <1>3, <2>2, Writers DEF Allocates, AllocTag, Goto, Finish, CallerRuns,
            RegisterPending, WriteFrame, WaitReturns, WaitTimesOut, ReadResult,
            ForgetPending, Device, DeviceAnswers, DeviceTxDone, DeviceEmits,
            LinkDrops, DeviceFrame, tagVars
    <3> QED
      BY <1>0, <1>1, <1>3, <2>2, <3>1 DEF HistoryOK, Steady, tagVars
  <2> QED
    BY <2>1, <2>2, Writers
<1> QED
  BY <1>2, <1>3

LEMMA IntervalGrows ==
  ASSUME NEW n \in Nat
  PROVE  1..(n + 1) = (1..n) \cup {n + 1} /\ n + 1 \notin 1..n
OBVIOUS

LEMMA NeverFarApart ==
  ASSUME MaxCmds <= MaxTag, NEW i \in Cmds, NEW j \in Cmds
  PROVE  ~FarApart(i, j)
BY SessionAssumption DEF FarApart, Cmds

\* While there are as many tags as commands, every step of the Session is a
\* step of Rpc or leaves what Rpc sees unchanged.
LEMMA StepRefines ==
  ASSUME MaxCmds <= MaxTag, Inv, Inv', OwnReply', HistoryOK, [Next]_vars
  PROVE  [Promise!Next]_(Promise!vars)
<1> USE DEF Inv, TypeInv, TypeOK
<1> DEFINE Seen(r) == [i \in Cmds |-> IF r[i] \in {"none", "ok"} THEN r[i]
                                                              ELSE "failed"]
<1>1. CASE ~UNCHANGED res
  <2>1. PICK c \in Callers : /\ pc[c] \notin {"idle", "forget"}
                            /\ \E o \in Outcomes : Finish(c, o)
                            /\ UNCHANGED <<tagVars, served>>
    BY <1>1, OutcomesGiven
  <2>2. PICK i \in Cmds : i = cur[c] /\ i \in Issued /\ res[i] = "none"
    <3>1. cur[c] \in Cmds /\ cur[c] \in Issued
      BY <2>1, CurrentIssued
    <3> QED
      BY <2>1, <3>1 DEF HistoryOK
  <2>3. PICK o \in Outcomes : res' = [res EXCEPT ![i] = o]
    BY <2>1, <2>2 DEF Finish
  <2>4. o # "none"
    BY <1>1, <2>2, <2>3
  <2>5. Seen(res') = [Seen(res) EXCEPT ![i] = IF o = "ok" THEN "ok" ELSE "failed"]
    BY <2>3, <2>4
  <2>6. o = "ok" => i \in served
    <3>1. \A j \in Cmds : ~FarApart(i, j)
      BY NeverFarApart
    <3>2. \A j \in Origins(i)' : j \in Cmds
      <4>1. obj'[i] \in Pendings
        OBVIOUS
      <4>2. \A n \in 0..MaxCmds : n # 0 => n \in Cmds
        BY SessionAssumption DEF Cmds
      <4> QED
        BY <4>1, <4>2 DEF Origins, Pendings
    <3>3. res'[i] = o
      BY <2>2, <2>3
    <3> QED
      BY <2>1, <2>2, <3>1, <3>2, <3>3 DEF OwnReply, FarApart
  <2>7. Promise!Succeed(i) \/ Promise!Fail(i)
    BY <2>1, <2>2, <2>4, <2>5, <2>6 DEF Promise!Succeed, Promise!Fail, tagVars, Issued
  <2> QED
    BY <2>2, <2>7 DEF Promise!Next
<1>2. CASE UNCHANGED res /\ Allocates
  <2>1. issued' = issued + 1 /\ issued + 1 \in Cmds /\ UNCHANGED served
    BY <1>2, SessionAssumption DEF Allocates, AllocTag, CallerFrame, devVars, Cmds
  <2>2. 1..issued' = (1..issued) \cup {issued + 1} /\ issued + 1 \notin 1..issued
    <3>1. issued \in Nat
      BY SessionAssumption
    <3> QED
      BY <2>1, <3>1, IntervalGrows
  <2>3. Promise!Submit(issued + 1)
    BY <1>2, <2>1, <2>2 DEF Promise!Submit
  <2> QED
    BY <2>1, <2>3 DEF Promise!Next
<1>3. CASE UNCHANGED res /\ UNCHANGED tagVars
  <2>1. served' = served \/ \E i \in Issued : served' = served \cup {i}
    <3>1. CASE DeviceAnswers
      <4>1. Head(toDev) \in Issued
        BY <3>1 DEF DeviceAnswers, CommandsOK
      <4> QED
        BY <3>1, <4>1 DEF DeviceAnswers
    <3>2. CASE \E j \in Cmds : DeviceTxDone(j)
      BY <3>2 DEF DeviceTxDone, CommandsOK
    <3> QED
      BY <3>1, <3>2, Writers DEF Device, DeviceEmits, LinkDrops, devVars
  <2>2. ASSUME NEW i \in Issued, i \notin served, served' = served \cup {i}
        PROVE  i \in Cmds /\ Promise!Execute(i)
    BY <1>3, <2>2, SessionAssumption DEF Promise!Execute, tagVars, Issued, Cmds
  <2>3. CASE served' = served
    BY <1>3, <2>3 DEF Promise!vars, tagVars
  <2> QED
    BY <2>1, <2>2, <2>3 DEF Promise!Next
<1> QED
  BY <1>1, <1>2, <1>3, Writers

\* A Session whose life is shorter than a round of tags keeps the promises of
\* Rpc: a command is carried out at most once, ends at most once, and returns
\* normally only after it was carried out.
THEOREM SessionRefinesRpc == ASSUME MaxCmds <= MaxTag PROVE Spec => KeepsPromise
<1>1. Init => HistoryOK /\ Promise!Init
  BY SessionAssumption DEF Init, HistoryOK, Promise!Init
<1>2. Inv /\ Inv' /\ OwnReply' /\ HistoryOK /\ [Next]_vars
        => [Promise!Next]_(Promise!vars)
  BY StepRefines
<1>3. Inv /\ HistoryOK /\ [Next]_vars => HistoryOK'
  BY HistoryNext
<1> QED
  BY <1>1, <1>2, <1>3, InvHolds, OwnReplyHolds, PTL
  DEF Spec, KeepsPromise, Promise!Spec

-----------------------------------------------------------------------------
(* The RX queue: sequences                                                 *)

\* Numbers that rise, then at most one sentinel: RxInOrder is InOrder(Heard).
InOrder(s) ==
  \A i, j \in DOMAIN s : i < j => s[i] # DEAD /\ (s[j] = DEAD \/ s[i] < s[j])

NoSentinel(s) == \A n \in DOMAIN s : s[n] # DEAD

Below(s, e) == \A n \in DOMAIN s : s[n] < e

LEMMA ConcatIndex ==
  ASSUME NEW s \in Seq(Nat), NEW t \in Seq(Nat)
  PROVE  /\ s \o t \in Seq(Nat) /\ Len(s \o t) = Len(s) + Len(t)
         /\ \A n \in 1 .. Len(s) : (s \o t)[n] = s[n]
         /\ \A n \in 1 .. Len(t) : (s \o t)[Len(s) + n] = t[n]
OBVIOUS

LEMMA AppendIndex ==
  ASSUME NEW s \in Seq(Nat), NEW e \in Nat
  PROVE  \A n \in DOMAIN Append(s, e) :
           \/ n \in DOMAIN s /\ Append(s, e)[n] = s[n]
           \/ n = Len(s) + 1 /\ Append(s, e)[n] = e
OBVIOUS

LEMMA TailIndex ==
  ASSUME NEW s \in Seq(Nat), s # <<>>
  PROVE  /\ Tail(s) \in Seq(Nat) /\ Len(Tail(s)) = Len(s) - 1
         /\ Len(s) = 1 => Tail(s) = <<>>
         /\ Len(s) # 1 => Tail(s) # <<>> /\ Tail(s)[Len(s) - 1] = s[Len(s)]
<1> DEFINE t == Tail(s)
<1>1. t \in Seq(Nat) /\ Len(t) = Len(s) - 1 /\ Len(s) \in Nat \ {0}
  OBVIOUS
<1>2. \A n \in 1 .. Len(t) : t[n] = s[n + 1]
  OBVIOUS
<1> HIDE DEF t
<1>3. Len(<<>>) = 0 /\ (t # <<>> => Len(t) \in Nat \ {0})
  BY <1>1, EmptySeq
<1>4. Len(s) = 1 => t = <<>>
  BY <1>1, <1>3
<1>5. ASSUME Len(s) # 1 PROVE t # <<>> /\ t[Len(s) - 1] = s[Len(s)]
  <2>1. Len(t) # 0 /\ Len(t) \in 1 .. Len(t) /\ Len(t) + 1 = Len(s)
    BY <1>1, <1>5
  <2> QED
    BY <1>1, <1>2, <1>3, <2>1
<1> QED
  BY <1>1, <1>4, <1>5 DEF t

LEMMA ConcatNoSentinel ==
  ASSUME NEW s \in Seq(Nat), NEW t \in Seq(Nat), NoSentinel(s), NoSentinel(t)
  PROVE  NoSentinel(s \o t)
<1>1. \A n \in DOMAIN (s \o t) : \/ n \in DOMAIN s /\ (s \o t)[n] = s[n]
                                \/ /\ n - Len(s) \in DOMAIN t
                                   /\ (s \o t)[n] = t[n - Len(s)]
  OBVIOUS
<1> QED
  BY <1>1 DEF NoSentinel

LEMMA ConcatAppend ==
  ASSUME NEW s \in Seq(Nat), NEW t \in Seq(Nat), NEW e \in Nat
  PROVE  s \o Append(t, e) = Append(s \o t, e)
OBVIOUS

\* What is taken from the front of t and put at the end of s leaves s \o t.
LEMMA ConcatShift ==
  ASSUME NEW s \in Seq(Nat), NEW t \in Seq(Nat), t # <<>>
  PROVE  Append(s, Head(t)) \o Tail(t) = s \o t
BY SMTT(30)

LEMMA AppendInOrder ==
  ASSUME NEW s \in Seq(Nat), NEW e \in Nat, InOrder(s), NoSentinel(s),
         e = DEAD \/ Below(s, e)
  PROVE  InOrder(Append(s, e))
<1>1. \A n \in DOMAIN Append(s, e) :
        \/ n \in DOMAIN s /\ Append(s, e)[n] = s[n]
        \/ n = Len(s) + 1 /\ Append(s, e)[n] = e
  BY AppendIndex
<1>2. \A n \in DOMAIN s : n < Len(s) + 1
  OBVIOUS
<1> SUFFICES ASSUME NEW i \in DOMAIN Append(s, e), NEW j \in DOMAIN Append(s, e),
                    i < j
             PROVE  /\ Append(s, e)[i] # DEAD
                    /\ Append(s, e)[j] = DEAD \/ Append(s, e)[i] < Append(s, e)[j]
  BY DEF InOrder
<1>3. i \in DOMAIN s /\ Append(s, e)[i] = s[i]
  BY <1>1, <1>2
<1> QED
  BY <1>1, <1>3 DEF InOrder, NoSentinel, Below

-----------------------------------------------------------------------------
(* The inductive invariant                                                 *)

\* All RX events the reader has queued, those already handed on first.
Heard == delivered \o rxq

Holders == {x \in Consumers : xpc[x] = "repost"}

\* No consumer was given the sentinel for a packet, and the numbers heard are
\* numbers of events that the device has emitted.
HeardOK ==
  /\ InOrder(Heard)
  /\ NoSentinel(delivered)
  /\ Below(Heard, asyncSent + 1)

\* The events on their way come after those heard, and rise.
ComingOK ==
  \A n \in DOMAIN fromDev : fromDev[n].type = "RX" =>
    /\ fromDev[n].of \in 1 .. asyncSent
    /\ Below(Heard, fromDev[n].of)
    /\ \A m \in DOMAIN fromDev :
         m < n /\ fromDev[m].type = "RX" => fromDev[m].of < fromDev[n].of

\* SentinelKept, for a queue that is in order.
SentinelOK ==
  IF rpc = "dead"
  THEN \/ Holders = {} /\ rxq # <<>> /\ rxq[Len(rxq)] = DEAD
       \/ (\E x \in Consumers : Holders = {x}) /\ NoSentinel(rxq)
  ELSE Holders = {} /\ NoSentinel(rxq)

QueueInv == HeardOK /\ ComingOK /\ SentinelOK

LEMMA QueueInit == Init => QueueInv
BY DEF Init, QueueInv, HeardOK, ComingOK, SentinelOK, Heard, Holders, InOrder,
       NoSentinel, Below

\* The steps that touch what QueueInv is about.
LEMMA QueueWriters ==
  ASSUME TypeInv, [Next]_vars
  PROVE  \/ ReadFrame \/ PoisonQueue \/ Device
         \/ \E x \in Consumers : NextRxGets(x) \/ NextRxReposts(x)
         \/ /\ UNCHANGED <<rxq, delivered, fromDev, asyncSent, Holders>>
            /\ rpc' = "dead" <=> rpc = "dead"
<1> USE DEF tagVars, devVars, readVars, closeVars, rxVars, Holders
<1>1. CASE Allocates \/ \E c \in Callers : CallerRuns(c) \/ WaitTimesOut(c)
  BY <1>1 DEF Allocates, AllocTag, CallerFrame, CallerRuns, RegisterPending,
              WriteFrame, WaitReturns, WaitTimesOut, ReadResult, ForgetPending
<1>2. CASE ReaderRuns
  BY <1>2 DEF ReaderRuns, ReaderLoop, ReadNothing, LookupPending, ApplyFrame,
              SignalEvent, ReaderWakesAll, ReaderDies, ReaderFrame
<1>3. CASE \E k \in Closers : CloseSetsFlag(k) \/ CloserRuns(k)
  BY <1>3 DEF CloserRuns, CloseSetsFlag, CloseWakesAll, CloseShutsTransport,
              CloserFrame
<1>4. ASSUME NEW x \in Consumers, NextRx(x) \/ NextRxTimesOut(x)
      PROVE  /\ UNCHANGED <<rxq, delivered, fromDev, asyncSent, Holders>>
             /\ rpc' = "dead" <=> rpc = "dead"
  <2>1. /\ UNCHANGED <<rxq, delivered, fromDev, asyncSent, rpc>>
        /\ xpc[x] # "repost"
        /\ \E label \in {"get", "idle"} : xpc' = [xpc EXCEPT ![x] = label]
    BY <1>4 DEF NextRx, NextRxTimesOut, RxFrame
  <2>2. \A y \in Consumers : xpc'[y] = "repost" <=> xpc[y] = "repost"
    BY <2>1 DEF TypeInv, TypeOK
  <2> QED
    BY <2>1, <2>2
<1>5. CASE DrainAsyncErrors
  BY <1>5 DEF DrainAsyncErrors, RxFrame
<1>6. CASE UNCHANGED vars
  BY <1>6 DEF vars
<1> QED
  BY <1>1, <1>2, <1>3, <1>4, <1>5, <1>6
  DEF Next, ConsumerRuns, Terminated, Allocates

\* The reader queues the number of a good RX event.
LEMMA ReadFrameQueue ==
  ASSUME TypeInv, QueueInv, ReadFrame
  PROVE  QueueInv'
<1> USE DEF QueueInv, DEAD
<1>0. /\ rxq \in Seq(Nat) /\ delivered \in Seq(Nat) /\ asyncSent \in Nat
      /\ fromDev \in Seq(Frames) /\ xpc \in [Consumers -> {"idle", "get", "repost"}]
  BY DEF TypeInv, TypeOK
<1> DEFINE f == Head(fromDev)
<1>1. /\ rxq \in Seq(Nat) /\ delivered \in Seq(Nat) /\ asyncSent \in Nat
      /\ fromDev \in Seq(Frames) /\ fromDev # <<>>
  BY <1>0 DEF ReadFrame
<1>2. /\ UNCHANGED <<delivered, asyncSent, Holders>>
      /\ rpc # "dead" /\ rpc' # "dead"
      /\ fromDev' = Tail(fromDev)
      /\ UNCHANGED rxq \/ (f.type = "RX" /\ rxq' = Append(rxq, f.of))
  BY DEF ReadFrame, DispatchAsync, ReaderFrame, devVars, Holders
<1>3. /\ 1 \in DOMAIN fromDev /\ f = fromDev[1]
      /\ \A n \in DOMAIN fromDev' :
           n + 1 \in DOMAIN fromDev /\ fromDev'[n] = fromDev[n + 1] /\ 1 < n + 1
  BY <1>1, <1>2
<1>4. f.type = "RX" => f.of \in 1 .. asyncSent /\ Below(Heard, f.of)
  BY <1>3 DEF ComingOK
<1>5. Holders = {} /\ NoSentinel(rxq) /\ NoSentinel(delivered) /\ NoSentinel(Heard)
  BY <1>1, <1>2, ConcatIndex DEF SentinelOK, HeardOK, NoSentinel, Heard
<1>6. CASE UNCHANGED rxq
  <2>1. Heard' = Heard
    BY <1>2, <1>6 DEF Heard
  <2>2. HeardOK' /\ SentinelOK'
    BY <1>2, <1>5, <1>6, <2>1 DEF HeardOK, SentinelOK
  <2>3. ComingOK'
    BY <1>2, <1>3, <2>1 DEF ComingOK
  <2> QED
    BY <2>2, <2>3
<1>7. CASE f.type = "RX" /\ rxq' = Append(rxq, f.of)
  <2>1. /\ Heard \in Seq(Nat) /\ f.of \in Nat \ {0}
        /\ Heard' = Append(Heard, f.of)
    <3>1. f.of \in Nat \ {0}
      BY <1>1, <1>4, <1>7
    <3>2. delivered \o Append(rxq, f.of) = Append(delivered \o rxq, f.of)
      BY <1>1, <3>1, ConcatAppend
    <3> QED
      BY <1>1, <1>2, <1>7, <3>1, <3>2, ConcatIndex DEF Heard
  <2>2. \A n \in DOMAIN Heard' : (n \in DOMAIN Heard /\ Heard'[n] = Heard[n])
                                   \/ Heard'[n] = f.of
    BY <2>1
  <2>3. HeardOK'
    <3>1. InOrder(Heard')
      BY <1>4, <1>5, <1>7, <2>1, AppendInOrder DEF HeardOK
    <3>2. Below(Heard', asyncSent + 1)
      BY <1>1, <1>4, <1>7, <2>1, <2>2 DEF HeardOK, Below
    <3> QED
      BY <1>2, <1>5, <3>1, <3>2 DEF HeardOK
  <2>4. SentinelOK'
    <3>1. NoSentinel(rxq')
      <4>1. \A n \in DOMAIN rxq' : (n \in DOMAIN rxq /\ rxq'[n] = rxq[n])
                                    \/ rxq'[n] = f.of
        BY <1>1, <1>7, <2>1
      <4> QED
        BY <1>5, <2>1, <4>1 DEF NoSentinel
    <3> QED
      BY <1>2, <1>5, <3>1 DEF SentinelOK
  <2>5. ComingOK'
    <3> SUFFICES ASSUME NEW n \in DOMAIN fromDev', fromDev'[n].type = "RX"
                 PROVE  /\ fromDev'[n].of \in 1 .. asyncSent
                        /\ Below(Heard', fromDev'[n].of)
                        /\ \A m \in DOMAIN fromDev' :
                             m < n /\ fromDev'[m].type = "RX"
                               => fromDev'[m].of < fromDev'[n].of
      BY <1>2 DEF ComingOK
    <3>1. /\ fromDev[n + 1].of \in 1 .. asyncSent
          /\ Below(Heard, fromDev[n + 1].of)
          /\ f.of < fromDev[n + 1].of
      BY <1>3, <1>7 DEF ComingOK
    <3>2. Below(Heard', fromDev'[n].of)
      BY <1>3, <2>2, <3>1 DEF Below
    <3>3. ASSUME NEW m \in DOMAIN fromDev', m < n, fromDev'[m].type = "RX"
          PROVE  fromDev'[m].of < fromDev'[n].of
      <4>1. m + 1 < n + 1
        BY <1>1, <1>2, <3>3
      <4> QED
        BY <1>3, <3>3, <4>1 DEF ComingOK
    <3> QED
      BY <1>3, <3>1, <3>2, <3>3
  <2> QED
    BY <2>3, <2>4, <2>5
<1> QED
  BY <1>2, <1>6, <1>7

\* What comes after Heard stays after it, when nothing but the sentinel is
\* added to it and the frames on their way are the same.
LEMMA ComingStays ==
  ASSUME ComingOK, UNCHANGED <<fromDev, asyncSent>>, asyncSent \in Nat,
         \A n \in DOMAIN Heard' :
           (n \in DOMAIN Heard /\ Heard'[n] = Heard[n]) \/ Heard'[n] = DEAD
  PROVE  ComingOK'
<1>1. ASSUME NEW e \in 1 .. asyncSent, Below(Heard, e) PROVE Below(Heard', e)
  BY <1>1 DEF Below, DEAD
<1> QED
  BY <1>1 DEF ComingOK

\* The sentinel goes to the end of a queue that has none.
LEMMA SentinelQueued ==
  ASSUME TypeInv, QueueInv, NoSentinel(rxq),
         rxq' = Append(rxq, DEAD), UNCHANGED <<delivered, fromDev, asyncSent>>,
         rpc' = "dead", Holders' = {}
  PROVE  QueueInv'
<1> USE DEF QueueInv, DEAD
<1>0. /\ rxq \in Seq(Nat) /\ delivered \in Seq(Nat) /\ asyncSent \in Nat
      /\ fromDev \in Seq(Frames) /\ xpc \in [Consumers -> {"idle", "get", "repost"}]
  BY DEF TypeInv, TypeOK
<1>1. rxq \in Seq(Nat) /\ delivered \in Seq(Nat) /\ asyncSent \in Nat
  BY <1>0
<1>2. Heard \in Seq(Nat) /\ Heard' = Append(Heard, DEAD) /\ NoSentinel(Heard)
  <2>1. delivered \o Append(rxq, DEAD) = Append(delivered \o rxq, DEAD)
    BY <1>1, ConcatAppend
  <2>2. Heard \in Seq(Nat) /\ Heard' = Append(Heard, DEAD)
    BY <1>1, <2>1, ConcatIndex DEF Heard
  <2>3. NoSentinel(Heard)
    BY <1>1, ConcatNoSentinel DEF Heard, HeardOK
  <2> QED
    BY <2>2, <2>3
<1>3. \A n \in DOMAIN Heard' : (n \in DOMAIN Heard /\ Heard'[n] = Heard[n])
                                 \/ Heard'[n] = DEAD
  BY <1>2, AppendIndex
<1>4. HeardOK'
  <2>1. InOrder(Heard')
    BY <1>2, AppendInOrder DEF HeardOK
  <2>2. Below(Heard', asyncSent + 1)
    <3>1. DEAD < asyncSent + 1
      BY <1>1
    <3> QED
      BY <1>3, <3>1 DEF HeardOK, Below
  <2> QED
    BY <2>1, <2>2 DEF HeardOK
<1>5. ComingOK'
  BY <1>1, <1>3, ComingStays
<1>6. SentinelOK'
  <2>1. Len(Append(rxq, DEAD)) = Len(rxq) + 1 /\ Append(rxq, DEAD) # <<>>
    BY <1>0
  <2>2. Append(rxq, DEAD)[Len(rxq) + 1] = DEAD
    BY <1>1, AppendProperties
  <2>3. rxq' # <<>> /\ rxq'[Len(rxq')] = DEAD
    BY <2>1, <2>2
  <2> QED
    BY <2>3 DEF SentinelOK
<1> QED
  BY <1>4, <1>5, <1>6

\* A consumer takes the packet at the head of the queue, or the sentinel, and
\* then the queue is empty.
LEMMA NextRxQueue ==
  ASSUME TypeInv, QueueInv, NEW x \in Consumers, NextRxGets(x)
  PROVE  QueueInv'
<1> USE DEF QueueInv, DEAD
<1>0. /\ rxq \in Seq(Nat) /\ delivered \in Seq(Nat) /\ asyncSent \in Nat
      /\ fromDev \in Seq(Frames) /\ xpc \in [Consumers -> {"idle", "get", "repost"}]
  BY DEF TypeInv, TypeOK
<1>1. /\ rxq \in Seq(Nat) /\ delivered \in Seq(Nat) /\ asyncSent \in Nat
      /\ rxq # <<>> /\ rxq' = Tail(rxq) /\ xpc[x] = "get"
      /\ UNCHANGED <<fromDev, asyncSent, rpc>>
  BY <1>0 DEF NextRxGets, RxFrame, devVars, readVars
<1>2. /\ 1 \in DOMAIN rxq /\ Head(rxq) = rxq[1] /\ Head(rxq) \in Nat
      /\ \A n \in DOMAIN rxq' :
           n + 1 \in DOMAIN rxq /\ rxq'[n] = rxq[n + 1] /\ 1 < n + 1
  BY <1>1
<1>3. \A n \in DOMAIN rxq : Len(delivered) + n \in DOMAIN Heard
                            /\ Heard[Len(delivered) + n] = rxq[n]
  BY <1>1, ConcatIndex DEF Heard
<1>4. CASE Head(rxq) = DEAD
  <2>1. /\ UNCHANGED delivered
        /\ xpc' = [xpc EXCEPT ![x] = "repost"]
    BY <1>4 DEF NextRxGets
  <2>2. Len(rxq) = 1
    <3>1. ASSUME 2 \in DOMAIN rxq PROVE FALSE
      <4>1. Len(delivered) + 1 < Len(delivered) + 2
        BY <1>1
      <4> QED
        BY <1>2, <1>3, <1>4, <3>1, <4>1 DEF HeardOK, InOrder
    <3>2. Len(rxq) \in Nat /\ DOMAIN rxq = 1 .. Len(rxq)
      BY <1>1
    <3> QED
      BY <1>2, <3>1, <3>2
  <2>3. rxq' = <<>> /\ Heard' = delivered
    <3>1. rxq' = <<>>
      BY <1>1, <2>2, TailIndex
    <3>2. delivered \o <<>> = delivered
      BY <1>1
    <3> QED
      BY <2>1, <3>1, <3>2 DEF Heard
  <2>4. \A n \in DOMAIN Heard' : n \in DOMAIN Heard /\ Heard'[n] = Heard[n]
    <3>1. \A n \in DOMAIN delivered : n \in DOMAIN (delivered \o rxq)
                                      /\ (delivered \o rxq)[n] = delivered[n]
      BY <1>1
    <3> QED
      BY <2>3, <3>1 DEF Heard
  <2>5. HeardOK'
    BY <1>1, <2>1, <2>4 DEF HeardOK, InOrder, Below
  <2>6. ComingOK'
    BY <1>1, <2>4, ComingStays
  <2>7. SentinelOK'
    <3>1. rpc = "dead" /\ Holders = {}
      BY <1>2, <1>4 DEF SentinelOK, NoSentinel
    <3>2. Holders' = {x}
      BY <1>0, <2>1, <3>1 DEF Holders
    <3> QED
      BY <1>1, <2>3, <3>1, <3>2 DEF SentinelOK, NoSentinel
  <2> QED
    BY <2>5, <2>6, <2>7
<1>5. CASE Head(rxq) # DEAD
  <2>1. /\ delivered' = Append(delivered, Head(rxq))
        /\ xpc' = [xpc EXCEPT ![x] = "idle"]
    BY <1>5 DEF NextRxGets
  <2>2. Heard' = Heard
    BY <1>1, <2>1, ConcatShift DEF Heard
  <2>3. NoSentinel(delivered')
    <3>1. \A n \in DOMAIN delivered' :
            (n \in DOMAIN delivered /\ delivered'[n] = delivered[n])
              \/ delivered'[n] = Head(rxq)
      <4>1. delivered \in Seq(Nat) /\ Head(rxq) \in Nat
        BY <1>1, <1>2
      <4>2. \A n \in DOMAIN Append(delivered, Head(rxq)) :
              \/ n \in DOMAIN delivered
                 /\ Append(delivered, Head(rxq))[n] = delivered[n]
              \/ Append(delivered, Head(rxq))[n] = Head(rxq)
        BY <4>1, AppendIndex
      <4> QED
        BY <2>1, <4>2
    <3> QED
      BY <1>5, <3>1 DEF HeardOK, NoSentinel
  <2>4. HeardOK' /\ ComingOK'
    BY <1>1, <2>2, <2>3 DEF HeardOK, ComingOK
  <2>5. SentinelOK'
    <3>1. Holders' = Holders
      BY <1>1, <2>1 DEF Holders
    <3>2. NoSentinel(rxq) => NoSentinel(rxq')
      BY <1>2 DEF NoSentinel
    <3>3. rxq[Len(rxq)] = DEAD => rxq' # <<>> /\ rxq'[Len(rxq')] = DEAD
      <4>1. rxq[Len(rxq)] = DEAD => Len(rxq) # 1
        BY <1>2, <1>5
      <4> QED
        BY <1>1, <4>1, TailIndex
    <3> QED
      BY <1>1, <3>1, <3>2, <3>3 DEF SentinelOK
  <2> QED
    BY <2>4, <2>5
<1> QED
  BY <1>4, <1>5

\* No other step of the device than DeviceEmits sends an RX event, and that
\* one sends a new number.
LEMMA DeviceSends ==
  ASSUME TypeInv, Device
  PROVE  \/ UNCHANGED fromDev /\ asyncSent' \in {asyncSent, asyncSent + 1}
         \/ \E f \in Frames :
              /\ fromDev' = Append(fromDev, f)
              /\ asyncSent' \in {asyncSent, asyncSent + 1}
              /\ f.type = "RX" => f.of = asyncSent + 1 /\ asyncSent' = asyncSent + 1
<1> USE DEF TypeInv, TypeOK, Arrives
<1>0. Junk \in Frames /\ Junk.type # "RX"
  BY JunkTyped DEF Junk, FrameOf
<1>1. ASSUME NEW i \in Cmds, NEW type \in {"OK", "ERR", "TX_DONE"},
             NEW B \in SUBSET Bodies, Arrives(Reply(type, i, B))
      PROVE  \E f \in Frames : fromDev' = Append(fromDev, f) /\ f.type # "RX"
  <2>1. \A f \in Reply(type, i, B) : f \in Frames /\ f.type # "RX"
    BY ReplyTyped DEF Reply, FrameOf
  <2> QED
    BY <1>0, <1>1, <2>1
<1>2. /\ {"code"} \cup Undecodable \in SUBSET Bodies
      /\ {"sent"} \in SUBSET Bodies
      /\ {"refused"} \cup Undecodable \in SUBSET Bodies
      /\ \A k : {OkBody(k)} \cup Undecodable \in SUBSET Bodies
  BY DEF Undecodable, Bodies, OkBody
<1>3. CASE DeviceAnswers
  <2>1. Head(toDev) \in Cmds /\ UNCHANGED asyncSent
    BY <1>3 DEF DeviceAnswers
  <2>2. \/ UNCHANGED fromDev
        \/ \E f \in Frames : fromDev' = Append(fromDev, f) /\ f.type # "RX"
    BY <1>1, <1>2, <1>3, <2>1 DEF DeviceAnswers
  <2> QED
    BY <2>1, <2>2
<1>4. ASSUME NEW i \in Cmds, DeviceTxDone(i)
      PROVE  /\ UNCHANGED asyncSent
             /\ \E f \in Frames : fromDev' = Append(fromDev, f) /\ f.type # "RX"
  BY <1>1, <1>2, <1>4 DEF DeviceTxDone
<1>5. CASE DeviceEmits
  <2>1. PICK b \in {"good"} \cup Undecodable, e \in {"code"} \cup Undecodable :
          \/ Arrives({FrameOf("RX", 0, asyncSent + 1, b)})
          \/ Arrives({FrameOf("ERR", 0, 0, e)})
    BY <1>5 DEF DeviceEmits
  <2>2. PICK f : /\ fromDev' = Append(fromDev, f)
                 /\ f \in {FrameOf("RX", 0, asyncSent + 1, b),
                          FrameOf("ERR", 0, 0, e), Junk}
    BY <2>1
  <2>3. f \in Frames /\ (f.type = "RX" => f.of = asyncSent + 1)
    BY <1>0, <2>2 DEF FrameOf, Frames, Bodies, Undecodable
  <2>4. asyncSent' = asyncSent + 1
    BY <1>5 DEF DeviceEmits
  <2> QED
    BY <2>2, <2>3, <2>4
<1>6. CASE LinkDrops
  BY <1>6 DEF LinkDrops, devVars
<1> QED
  BY <1>3, <1>4, <1>5, <1>6 DEF Device

\* A new event has a number above all that were heard or are on their way.
LEMMA DeviceQueue ==
  ASSUME TypeInv, QueueInv, Device
  PROVE  QueueInv'
<1> USE DEF QueueInv
<1>1. /\ asyncSent \in Nat /\ fromDev \in Seq(Frames)
      /\ asyncSent' \in {asyncSent, asyncSent + 1}
  BY DeviceSends, SessionAssumption DEF TypeInv, TypeOK
<1>2. UNCHANGED <<rxq, delivered, xpc, rpc>>
  BY DEF Device, DeviceAnswers, DeviceTxDone, DeviceEmits, LinkDrops,
         DeviceFrame, rxVars, readVars
<1>3. UNCHANGED <<Heard, Holders>>
  BY <1>2 DEF Heard, Holders
<1>4. HeardOK' /\ SentinelOK'
  <2>1. Below(Heard, asyncSent + 1) => Below(Heard, asyncSent' + 1)
    <3>1. Heard \in Seq(Nat)
      BY ConcatIndex DEF Heard, TypeInv, TypeOK
    <3>2. \A n \in DOMAIN Heard : Heard[n] \in Nat
      BY <3>1
    <3> QED
      BY <1>1, <3>2 DEF Below
  <2> QED
    BY <1>2, <1>3, <2>1 DEF HeardOK, SentinelOK
<1>5. CASE UNCHANGED fromDev
  BY <1>1, <1>3, <1>4, <1>5 DEF ComingOK
<1>6. ASSUME NEW f \in Frames, fromDev' = Append(fromDev, f),
             f.type = "RX" => f.of = asyncSent + 1 /\ asyncSent' = asyncSent + 1
      PROVE  ComingOK'
  <2>1. \A n \in DOMAIN fromDev' :
          \/ n \in DOMAIN fromDev /\ fromDev'[n] = fromDev[n]
          \/ /\ fromDev'[n] = f
             /\ \A m \in DOMAIN fromDev' : m < n =>
                  m \in DOMAIN fromDev /\ fromDev'[m] = fromDev[m]
    BY <1>1, <1>6
  <2>2. \A n, m \in DOMAIN fromDev' :
          m < n => m \in DOMAIN fromDev /\ fromDev'[m] = fromDev[m]
    BY <1>1, <1>6
  <2> SUFFICES ASSUME NEW n \in DOMAIN fromDev', fromDev'[n].type = "RX"
               PROVE  /\ fromDev'[n].of \in 1 .. asyncSent'
                      /\ Below(Heard, fromDev'[n].of)
                      /\ \A m \in DOMAIN fromDev' :
                           m < n /\ fromDev'[m].type = "RX"
                             => fromDev'[m].of < fromDev'[n].of
    BY <1>3 DEF ComingOK
  <2>3. CASE n \in DOMAIN fromDev /\ fromDev'[n] = fromDev[n]
    BY <1>1, <2>2, <2>3 DEF ComingOK
  <2>4. CASE fromDev'[n] = f
    <3>1. f.of = asyncSent + 1 /\ asyncSent' = asyncSent + 1
      BY <1>6, <2>4
    <3>2. ASSUME NEW m \in DOMAIN fromDev', m < n, fromDev'[m].type = "RX"
          PROVE  fromDev'[m].of < f.of
      <4>1. fromDev'[m].of \in 1 .. asyncSent
        BY <2>2, <3>2 DEF ComingOK
      <4> QED
        BY <1>1, <3>1, <4>1
    <3> QED
      BY <1>1, <2>4, <3>1, <3>2 DEF HeardOK
  <2> QED
    BY <2>1, <2>3, <2>4
<1> QED
  BY <1>4, <1>5, <1>6, DeviceSends

LEMMA QueueNext ==
  ASSUME TypeInv, QueueInv, [Next]_vars
  PROVE  QueueInv'
<1>1. CASE PoisonQueue
  <2>1. /\ rpc # "dead" /\ rpc' = "dead" /\ rxq' = Append(rxq, DEAD)
        /\ UNCHANGED <<delivered, fromDev, asyncSent, xpc>>
    BY <1>1 DEF PoisonQueue, ReaderFrame, devVars
  <2>2. NoSentinel(rxq) /\ Holders = {}
    BY <2>1 DEF QueueInv, SentinelOK
  <2>3. Holders' = {}
    BY <2>1, <2>2 DEF Holders
  <2> QED
    BY <2>1, <2>2, <2>3, SentinelQueued
<1>2. ASSUME NEW x \in Consumers, NextRxReposts(x)
      PROVE  QueueInv'
  <2>1. /\ x \in Holders /\ rxq' = Append(rxq, DEAD)
        /\ xpc' = [xpc EXCEPT ![x] = "idle"]
        /\ UNCHANGED <<delivered, fromDev, asyncSent, rpc>>
    BY <1>2 DEF NextRxReposts, RxFrame, devVars, readVars, Holders
  <2>2. rpc = "dead" /\ NoSentinel(rxq) /\ Holders = {x}
    BY <2>1 DEF QueueInv, SentinelOK
  <2>3. Holders' = {}
    BY <2>1, <2>2 DEF Holders, TypeInv, TypeOK
  <2> QED
    BY <2>1, <2>2, <2>3, SentinelQueued
<1>3. CASE /\ UNCHANGED <<rxq, delivered, fromDev, asyncSent, Holders>>
           /\ rpc' = "dead" <=> rpc = "dead"
  BY <1>3 DEF QueueInv, HeardOK, ComingOK, SentinelOK, Heard
<1> QED
  BY <1>1, <1>2, <1>3, QueueWriters, ReadFrameQueue, NextRxQueue, DeviceQueue

LEMMA QueueHolds == Spec => []QueueInv
<1>1. Inv => TypeInv
  BY DEF Inv
<1> QED
  BY <1>1, QueueInit, QueueNext, InvHolds, PTL DEF Spec

-----------------------------------------------------------------------------
(* What next_rx gives                                                      *)

\* RX events reach next_rx once each and in order, and the sentinel only after
\* the last of them, however many consumers race for the queue.
THEOREM RxInOrderHolds == Spec => []RxInOrder
<1>1. QueueInv => RxInOrder
  BY DEF QueueInv, HeardOK, InOrder, Heard, RxInOrder
<1> QED
  BY <1>1, QueueHolds, PTL

LEMMA InvImpliesSentinelKept == TypeInv /\ QueueInv => SentinelKept
<1> SUFFICES ASSUME TypeInv, QueueInv PROVE SentinelKept
  OBVIOUS
<1> DEFINE queued == {n \in DOMAIN rxq : rxq[n] = DEAD}
<1>1. rxq \in Seq(Nat) /\ delivered \in Seq(Nat)
  BY DEF TypeInv, TypeOK
<1>2. NoSentinel(rxq) <=> queued = {}
  BY DEF NoSentinel
<1>3. ASSUME rxq # <<>>, rxq[Len(rxq)] = DEAD
      PROVE  Len(rxq) \in queued /\ queued = {Len(rxq)}
  <2>1. Len(rxq) \in DOMAIN rxq
    BY <1>1, <1>3
  <2>2. ASSUME NEW n \in DOMAIN rxq, n # Len(rxq) PROVE rxq[n] # DEAD
    <3>1. /\ Len(delivered) + n \in DOMAIN Heard
          /\ Heard[Len(delivered) + n] = rxq[n]
          /\ Len(delivered) + Len(rxq) \in DOMAIN Heard
          /\ Len(delivered) + n < Len(delivered) + Len(rxq)
      BY <1>1, <2>1, <2>2, ConcatIndex DEF Heard
    <3> QED
      BY <3>1 DEF QueueInv, HeardOK, InOrder
  <2> QED
    BY <1>3, <2>1, <2>2
<1>4. CASE rpc = "dead" /\ Holders = {} /\ rxq # <<>> /\ rxq[Len(rxq)] = DEAD
  BY <1>3, <1>4 DEF SentinelKept, Holders
<1>5. CASE rpc = "dead" /\ (\E x \in Consumers : Holders = {x}) /\ NoSentinel(rxq)
  BY <1>2, <1>5 DEF SentinelKept, Holders
<1>6. CASE rpc # "dead" /\ Holders = {} /\ NoSentinel(rxq)
  BY <1>2, <1>6 DEF SentinelKept, Holders
<1> QED
  BY <1>4, <1>5, <1>6 DEF QueueInv, SentinelOK

\* Once the reader is gone there is one sentinel, in the queue or in the hands
\* of the one consumer about to post it again; before, there is none.
THEOREM SentinelKeptHolds == Spec => []SentinelKept
<1>1. Inv => TypeInv
  BY DEF Inv
<1> QED
  BY <1>1, InvImpliesSentinelKept, InvHolds, QueueHolds, PTL
=============================================================================
