--------------------------- MODULE TopLevelProofs ---------------------------
(***************************************************************************)
(* The default Dongle is never lost, for any number of threads and Dongles. *)
(***************************************************************************)
EXTENDS TopLevel, TLAPS

LEMMA InitInv == Init => Inv
<1> SUFFICES ASSUME Init PROVE Inv
  OBVIOUS
<1> USE TopLevelAssumption DEF Init
<1>1. TypeOK
  <2>1. pc \in [Everyone -> Steps] /\ held \in [Everyone -> Dongles \cup {None}]
    BY DEF Steps
  <2>2. \A t \in Everyone : pc[t] \notin {"use", "close"}
    OBVIOUS
  <2>3. default \in Dongles \cup {None} /\ made \in 0 .. MaxDongles
    OBVIOUS
  <2> QED BY <2>1, <2>2, <2>3 DEF TypeOK
<1>2. LockInv /\ DefaultInv /\ NoOrphan /\ ExitInv
  BY DEF LockInv, DefaultInv, NoOrphan, ExitInv, None
<1> QED BY <1>1, <1>2 DEF Inv

\* A step that moves a thread between points where it has nothing to close, and
\* leaves the Dongles and the handler alone, keeps the parts about them.
LEMMA Moves ==
  ASSUME Inv, NEW t \in Everyone, NEW to \in Steps \ {"close"}, pc[t] # "close",
         Goes(t, to), held' = [held EXCEPT ![t] = held'[t]],
         UNCHANGED <<default, open, made, hooked>>
  PROVE  DefaultInv' /\ NoOrphan'
<1>1. \A u \in Everyone :
        /\ (pc'[u] = "close") = (pc[u] = "close")
        /\ pc[u] = "close" => held'[u] = held[u]
  BY DEF Goes, Inv, TypeOK
<1>2. DefaultInv'
  BY <1>1 DEF Inv, DefaultInv
<1>3. ASSUME NEW d \in open
      PROVE  {u \in Everyone : pc'[u] = "close" /\ held'[u] = d}
               = {u \in Everyone : pc[u] = "close" /\ held[u] = d}
  BY <1>1
<1>4. NoOrphan'
  BY <1>3, Zenon DEF Inv, NoOrphan
<1> QED BY <1>2, <1>4

LEMMA CallsInv ==
  ASSUME Inv, NEW t \in Everyone, Calls(t) \/ CallsClose(t) PROVE Inv'
<1> USE DEF Calls, CallsClose
<1>1. TypeOK'
  BY DEF Inv, TypeOK, Steps, Goes
<1>2. DefaultInv' /\ NoOrphan'
  BY Moves DEF Steps, Inv, TypeOK
<1>3. LockInv' /\ ExitInv'
  BY DEF Inv, TypeOK, LockInv, ExitInv, Goes
<1> QED BY <1>1, <1>2, <1>3 DEF Inv

LEMMA GetsDefaultInv == ASSUME Inv, NEW t \in Everyone, GetsDefault(t) PROVE Inv'
<1> USE DEF GetsDefault
<1>1. TypeOK'
  BY DEF Inv, TypeOK, Steps, Goes
<1>2. DefaultInv' /\ NoOrphan'
  BY Moves DEF Steps, Inv, TypeOK
<1>3. LockInv' /\ ExitInv'
  BY DEF Inv, TypeOK, LockInv, ExitInv, Goes
<1> QED BY <1>1, <1>2, <1>3 DEF Inv

LEMMA BeginsConnectInv == ASSUME Inv, NEW t \in Everyone, BeginsConnect(t) PROVE Inv'
<1> USE DEF BeginsConnect
<1>1. TypeOK'
  BY DEF Inv, TypeOK, Steps, Goes
<1>2. DefaultInv' /\ NoOrphan'
  BY Moves DEF Steps, Inv, TypeOK
<1>3. LockInv' /\ ExitInv'
  BY DEF Inv, TypeOK, LockInv, ExitInv, Goes
<1> QED BY <1>1, <1>2, <1>3 DEF Inv

\* There was no default and the new Dongle is in nobody's hands, so that it can
\* become the default without orphaning another.
LEMMA ConnectsInv == ASSUME Inv, NEW t \in Everyone, Connects(t) PROVE Inv'
<1> USE TopLevelAssumption DEF Connects, Hooks
<1>0. made \in Nat /\ made' = made + 1 /\ made' \in 1 .. MaxDongles /\ made' # None
  BY DEF Inv, TypeOK, None
<1>1. TypeOK'
  <2>1. pc' \in [Everyone -> Steps] /\ held' \in [Everyone -> Dongles \cup {None}]
    BY <1>0 DEF Inv, TypeOK, Steps, Goes, Dongles
  <2>2. open' \subseteq 1 .. made'
    BY <1>0 DEF Inv, TypeOK
  <2>3. \A u \in Everyone : pc'[u] \in {"use", "close"} => held'[u] # None
    BY <1>0 DEF Inv, TypeOK, Goes
  <2>4. default' \in Dongles /\ lock' = FALSE /\ hooked' = TRUE
    BY <1>0 DEF Dongles
  <2>5. made' \in 0 .. MaxDongles
    BY <1>0
  <2>6. phase' \in {"runs", "exits", "ended"}
    BY DEF Inv, TypeOK
  <2> QED BY <2>1, <2>2, <2>3, <2>4, <2>5, <2>6 DEF TypeOK
<1>2. \A u \in Everyone :
        /\ (pc'[u] = "close") = (pc[u] = "close")
        /\ pc[u] = "close" => held'[u] = held[u] /\ held[u] \in Int /\ held[u] <= made
  BY DEF Goes, Inv, TypeOK, DefaultInv, Dongles, None
<1>3. DefaultInv'
  BY <1>0, <1>2 DEF DefaultInv
<1>4. NoOrphan'
  <2>1. ASSUME NEW d \in open'
        PROVE  LET C == {u \in Everyone : pc'[u] = "close" /\ held'[u] = d}
               IN  IF d = default' THEN C = {} ELSE \E u \in Everyone : C = {u}
    <3>1. CASE d = made'
      BY <1>0, <1>2, <3>1
    <3>2. CASE d # made'
      <4>1. d \in open /\ d # default
        BY <3>2 DEF Inv, LockInv, TypeOK, None
      <4>2. {u \in Everyone : pc'[u] = "close" /\ held'[u] = d}
              = {u \in Everyone : pc[u] = "close" /\ held[u] = d}
        BY <1>2
      <4> QED BY <3>2, <4>1, <4>2, Zenon DEF Inv, NoOrphan
    <3> QED BY <3>1, <3>2
  <2> QED BY <2>1, Zenon DEF NoOrphan
<1>5. LockInv'
  BY DEF Inv, TypeOK, LockInv, Goes
<1>6. ExitInv'
  BY DEF Inv, TypeOK, ExitInv, Goes
<1> QED BY <1>1, <1>3, <1>4, <1>5, <1>6 DEF Inv

LEMMA ConnectFailsInv == ASSUME Inv, NEW t \in Everyone, ConnectFails(t) PROVE Inv'
<1> USE DEF ConnectFails
<1>1. TypeOK'
  BY DEF Inv, TypeOK, Steps, Goes
<1>2. DefaultInv' /\ NoOrphan'
  BY Moves DEF Steps, Inv, TypeOK
<1>3. LockInv' /\ ExitInv'
  BY DEF Inv, TypeOK, LockInv, ExitInv, Goes
<1> QED BY <1>1, <1>2, <1>3 DEF Inv

LEMMA UsesInv == ASSUME Inv, NEW t \in Everyone, Uses(t) PROVE Inv'
<1> USE DEF Uses
<1>1. TypeOK'
  BY DEF Inv, TypeOK, Steps, Goes
<1>2. DefaultInv' /\ NoOrphan'
  BY Moves DEF Steps, Inv, TypeOK
<1>3. LockInv' /\ ExitInv'
  BY DEF Inv, TypeOK, LockInv, ExitInv, Goes
<1> QED BY <1>1, <1>2, <1>3 DEF Inv

LEMMA ExitsInv == ASSUME Inv, Exits PROVE Inv'
<1> USE DEF Exits
<1>1. TypeOK'
  BY DEF Inv, TypeOK, Steps, Goes
<1>2. DefaultInv' /\ NoOrphan'
  <2>1. CASE hooked
    BY <2>1, Moves DEF Steps, Inv, TypeOK, Everyone
  <2>2. CASE ~hooked
    BY <2>2 DEF Inv, DefaultInv, NoOrphan
  <2> QED BY <2>1, <2>2
<1>3. LockInv'
  BY DEF Inv, TypeOK, LockInv, Goes
<1>4. ExitInv'
  BY DEF Inv, TypeOK, DefaultInv, ExitInv, Goes, Everyone
<1> QED BY <1>1, <1>2, <1>3, <1>4 DEF Inv

\* The default passes into the hands of one thread.
LEMMA SwapsInv == ASSUME Inv, NEW t \in Everyone, Swaps(t) PROVE Inv'
<1> USE DEF Swaps, ClearsDefault, AfterSwap
<1>1. TypeOK'
  BY DEF Inv, TypeOK, Steps, Goes
<1>2. \A u \in Everyone \ {t} : pc'[u] = pc[u] /\ held'[u] = held[u]
  BY DEF Goes, Inv, TypeOK
<1>3. pc'[t] = (IF default = None THEN "done" ELSE "close") /\ held'[t] = default
  BY DEF Goes, Inv, TypeOK
<1>4. DefaultInv'
  BY <1>2, <1>3 DEF Inv, TypeOK, DefaultInv
<1>5. NoOrphan'
  <2> SUFFICES ASSUME NEW d \in open
               PROVE  \E u \in Everyone :
                        {v \in Everyone : pc'[v] = "close" /\ held'[v] = d} = {u}
    BY DEF NoOrphan, Inv, TypeOK, None
  <2>1. d # None
    BY DEF Inv, TypeOK, None
  <2>2. CASE d = default
    <3>1. {v \in Everyone : pc[v] = "close" /\ held[v] = d} = {}
      BY <2>2 DEF Inv, NoOrphan
    <3>2. {v \in Everyone : pc'[v] = "close" /\ held'[v] = d} = {t}
      BY <1>2, <1>3, <2>1, <2>2, <3>1
    <3> QED BY <3>2
  <2>3. CASE d # default
    <3>1. {v \in Everyone : pc'[v] = "close" /\ held'[v] = d}
            = {v \in Everyone : pc[v] = "close" /\ held[v] = d}
      BY <1>2, <1>3, <2>3
    <3> QED BY <2>3, <3>1 DEF Inv, NoOrphan
  <2> QED BY <2>2, <2>3
<1>6. LockInv' /\ ExitInv'
  BY DEF Inv, TypeOK, LockInv, ExitInv, Goes
<1> QED BY <1>1, <1>4, <1>5, <1>6 DEF Inv

\* The Dongle a thread closes is no longer open, and no other was in its hands.
LEMMA ClosesInv == ASSUME Inv, NEW t \in Everyone, Closes(t) PROVE Inv'
<1> USE DEF Closes
<1>1. TypeOK'
  BY DEF Inv, TypeOK, Steps, Goes
<1>2. \A u \in Everyone \ {t} : pc'[u] = pc[u] /\ held'[u] = held[u]
  BY DEF Goes, Inv, TypeOK
<1>3. pc'[t] = "done"
  BY DEF Goes, Inv, TypeOK
<1>4. DefaultInv'
  BY <1>2, <1>3 DEF Inv, DefaultInv
<1>5. ASSUME NEW d \in open'
      PROVE  d \in open /\ {u \in Everyone : pc'[u] = "close" /\ held'[u] = d}
                             = {u \in Everyone : pc[u] = "close" /\ held[u] = d}
  BY <1>2, <1>3
<1>6. NoOrphan'
  BY <1>5, Zenon DEF Inv, NoOrphan
<1>7. LockInv' /\ ExitInv'
  BY DEF Inv, TypeOK, LockInv, ExitInv, Goes
<1> QED BY <1>1, <1>4, <1>6, <1>7 DEF Inv

LEMMA ReturnsInv == ASSUME Inv, NEW t \in Everyone, Returns(t) PROVE Inv'
<1> USE DEF Returns
<1>1. TypeOK'
  BY DEF Inv, TypeOK, Steps, Goes
<1>2. DefaultInv' /\ NoOrphan'
  BY Moves DEF Steps, Inv, TypeOK
<1>3. LockInv'
  BY DEF Inv, TypeOK, LockInv, Goes
<1>4. ExitInv'
  BY DEF Inv, TypeOK, ExitInv, Goes, Everyone
<1> QED BY <1>1, <1>2, <1>3, <1>4 DEF Inv

LEMMA NextInv == Inv /\ [Next]_vars => Inv'
<1> SUFFICES ASSUME Inv, [Next]_vars PROVE Inv'
  OBVIOUS
<1>1. ASSUME NEW t \in Everyone, Calls(t) \/ CallsClose(t) PROVE Inv'
  BY <1>1, CallsInv
<1>2. ASSUME NEW t \in Everyone, Step(t) PROVE Inv'
  BY <1>2, GetsDefaultInv, BeginsConnectInv, UsesInv, SwapsInv, ClosesInv, ReturnsInv
     DEF Step
<1>3. ASSUME NEW t \in Everyone, Connects(t) \/ ConnectFails(t) PROVE Inv'
  BY <1>3, ConnectsInv, ConnectFailsInv
<1>4. CASE Exits
  BY <1>4, ExitsInv
<1>5. CASE UNCHANGED vars
  BY <1>5 DEF vars, Inv, TypeOK, LockInv, DefaultInv, NoOrphan, ExitInv
<1> QED BY <1>1, <1>2, <1>3, <1>4, <1>5 DEF Next, Ended

THEOREM InvHolds == Spec => []Inv
<1> QED BY InitInv, NextInv, PTL DEF Spec

-----------------------------------------------------------------------------
(* The properties                                                          *)

\* Every variable has its type, and a thread that uses or closes has a Dongle.
THEOREM TypeCorrect == Spec => []TypeOK
<1>1. Inv => TypeOK
  BY DEF Inv
<1> QED BY <1>1, InvHolds, PTL

\* An open Dongle is the default or in the hands of exactly one thread that
\* closes it, however many threads call and close at once.
THEOREM NoOrphanHolds == Spec => []NoOrphan
<1>1. Inv => NoOrphan
  BY DEF Inv
<1> QED BY <1>1, InvHolds, PTL

\* Nothing is open when the interpreter has ended: an open Dongle would be the
\* default, which is gone, or in the hands of a thread, which has ended.
THEOREM ExitClosesHolds == Spec => []ExitCloses
<1>1. Inv => ExitCloses
  <2> SUFFICES ASSUME Inv, phase = "ended", NEW d \in open PROVE FALSE
    BY DEF ExitCloses
  <2>1. default = None /\ \A t \in Everyone : pc[t] # "close"
    BY DEF Inv, ExitInv, Everyone
  <2>2. d # default
    BY <2>1 DEF Inv, TypeOK, None
  <2> QED BY <2>1, <2>2 DEF Inv, NoOrphan
<1> QED BY <1>1, InvHolds, PTL
=============================================================================
