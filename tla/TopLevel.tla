------------------------------ MODULE TopLevel ------------------------------
(***************************************************************************)
(* donglora/_top_level.py: one default Dongle for the process, connected   *)
(* when a thread first needs it and closed by close() or at exit.          *)
(*                                                                         *)
(* connect() runs under the lock and may take for ever; a Dongle is closed *)
(* outside the lock, when the module has already forgotten it.  The Dongle *)
(* itself is the module Dongle's; here it is open or closed.               *)
(***************************************************************************)
EXTENDS Integers

CONSTANTS
  Threads,   \* threads of the program that call the module's functions
  MaxDongles \* bound: Dongles the process ever connects

ASSUME TopLevelAssumption == MaxDongles \in Nat

Dongles == 1 .. MaxDongles
None == 0

VARIABLES
  default, \* _default
  lock,    \* _lock: it is held
  hooked,  \* atexit has _cleanup
  open,    \* the Dongles that are connected
  made,    \* Dongles connected so far
  pc,      \* where a thread is
  held,    \* the Dongle in a thread's local variable
  phase    \* the interpreter: "runs", "exits", "ended"

vars == <<default, lock, hooked, open, made, pc, held, phase>>

\* The main thread runs the handlers of atexit when the others have ended.
Main == "main"
Everyone == Threads \cup {Main}

Goes(t, to) == pc' = [pc EXCEPT ![t] = to]

Init ==
  /\ default = None
  /\ lock = FALSE
  /\ hooked = FALSE
  /\ open = {}
  /\ made = 0
  /\ pc = [t \in Everyone |-> "idle"]
  /\ held = [t \in Everyone |-> None]
  /\ phase = "runs"

-----------------------------------------------------------------------------
(* tx, rx, recv: _get_default, then the method of the Dongle               *)

Calls(t) ==
  /\ phase = "runs"
  /\ pc[t] = "idle"
  /\ Goes(t, "get")
  /\ UNCHANGED <<default, lock, hooked, open, made, held, phase>>

\* with _lock: the default there is.
GetsDefault(t) ==
  /\ pc[t] = "get" /\ ~lock
  /\ default # None
  /\ held' = [held EXCEPT ![t] = default]
  /\ Goes(t, "use")
  /\ UNCHANGED <<default, lock, hooked, open, made, phase>>

\* Faulty: the check is made without the lock.
ChecksUnlocked(t) ==
  /\ pc[t] = "get"
  /\ default = None
  /\ Goes(t, "connect")
  /\ UNCHANGED <<default, lock, hooked, open, made, held, phase>>

\* with _lock: there is none, so connect() begins.
BeginsConnect(t) ==
  /\ pc[t] = "get" /\ ~lock
  /\ default = None
  /\ lock' = TRUE
  /\ Goes(t, "connect")
  /\ UNCHANGED <<default, hooked, open, made, held, phase>>

\* Faulty: the handler is not registered.
ForgetsHook == UNCHANGED hooked

Hooks == hooked' = TRUE

Connects(t) ==
  /\ pc[t] = "connect"
  /\ made < MaxDongles
  /\ made' = made + 1
  /\ open' = open \cup {made'}
  /\ default' = made'
  /\ Hooks
  /\ lock' = FALSE
  /\ held' = [held EXCEPT ![t] = made']
  /\ Goes(t, "use")
  /\ UNCHANGED phase

\* connect() raises, or is interrupted.
ConnectFails(t) ==
  /\ pc[t] = "connect"
  /\ lock' = FALSE
  /\ Goes(t, "idle")
  /\ UNCHANGED <<default, hooked, open, made, held, phase>>

\* The method returns or raises; on a Dongle that was closed meanwhile it raises.
Uses(t) ==
  /\ pc[t] = "use"
  /\ held' = [held EXCEPT ![t] = None]
  /\ Goes(t, "idle")
  /\ UNCHANGED <<default, lock, hooked, open, made, phase>>

-----------------------------------------------------------------------------
(* close() and the exit of the interpreter: _cleanup                       *)

CallsClose(t) ==
  /\ phase = "runs"
  /\ pc[t] = "idle"
  /\ Goes(t, "cleanup")
  /\ UNCHANGED <<default, lock, hooked, open, made, held, phase>>

\* The program's threads have ended, and atexit calls _cleanup if it has it.
Exits ==
  /\ phase = "runs"
  /\ \A t \in Everyone : pc[t] = "idle"
  /\ phase' = IF hooked THEN "exits" ELSE "ended"
  /\ IF hooked THEN Goes(Main, "cleanup") ELSE UNCHANGED pc
  /\ UNCHANGED <<default, lock, hooked, open, made, held>>

ClearsDefault == default' = None

\* Faulty: there is always something to close.
ClosesNothing == "close"

\* Faulty: it waits until there is.
AwaitsDongle == IF default = None THEN "cleanup" ELSE "close"

AfterSwap == IF default = None THEN "done" ELSE "close"

\* with _lock: take the Dongle, if any, out of the module.
Swaps(t) ==
  /\ pc[t] = "cleanup" /\ ~lock
  /\ held' = [held EXCEPT ![t] = default]
  /\ ClearsDefault
  /\ Goes(t, AfterSwap)
  /\ UNCHANGED <<lock, hooked, open, made, phase>>

\* d.close(), whose exceptions are suppressed.
Closes(t) ==
  /\ pc[t] = "close"
  /\ open' = open \ {held[t]}
  /\ held' = [held EXCEPT ![t] = None]
  /\ Goes(t, "done")
  /\ UNCHANGED <<default, lock, hooked, made, phase>>

Returns(t) ==
  /\ pc[t] = "done"
  /\ Goes(t, "idle")
  /\ phase' = IF phase = "exits" THEN "ended" ELSE phase
  /\ UNCHANGED <<default, lock, hooked, open, made, held>>

Ended == phase = "ended" /\ UNCHANGED vars

Step(t) ==
  \/ GetsDefault(t) \/ BeginsConnect(t) \/ Uses(t)
  \/ Swaps(t) \/ Closes(t) \/ Returns(t)

Next ==
  \/ \E t \in Everyone :
       Calls(t) \/ CallsClose(t) \/ Step(t) \/ Connects(t) \/ ConnectFails(t)
  \/ Exits
  \/ Ended

Spec == Init /\ [][Next]_vars

\* Threads are scheduled and a lock that is free again and again is had at
\* last.  Nothing makes connect() end.
FairSpec ==
  /\ Spec
  /\ \A t \in Everyone :
       /\ SF_vars(GetsDefault(t) \/ BeginsConnect(t) \/ Swaps(t))
       /\ WF_vars(Uses(t) \/ Closes(t) \/ Returns(t))

-----------------------------------------------------------------------------
(* Properties                                                              *)

Steps == {"idle", "get", "connect", "use", "cleanup", "close", "done"}

TypeOK ==
  /\ default \in Dongles \cup {None}
  /\ lock \in BOOLEAN /\ hooked \in BOOLEAN
  /\ made \in 0 .. MaxDongles
  /\ open \subseteq 1 .. made
  /\ pc \in [Everyone -> Steps]
  /\ held \in [Everyone -> Dongles \cup {None}]
  /\ phase \in {"runs", "exits", "ended"}
  /\ \A t \in Everyone : pc[t] \in {"use", "close"} => held[t] # None

\* Every open Dongle is the default or about to be closed by the one thread that
\* took it: two first calls at once do not connect twice, and no call of
\* close() loses a Dongle or closes another's (_top_level.py:34-50).
NoOrphan ==
  \A d \in open :
    LET Closers == {t \in Everyone : pc[t] = "close" /\ held[t] = d}
    IN  IF d = default THEN Closers = {} ELSE \E t \in Everyone : Closers = {t}

\* Whatever the threads did before, the interpreter ends with no Dongle
\* open: the handler is registered whenever there is something to close.
ExitCloses == phase = "ended" => open = {}

\* close() returns, and so does a call that found a default, unless connect()
\* never ends; an exception in connect() does not leave the lock behind.
LockServes ==
  \/ \A t \in Everyone : pc[t] \in {"get", "cleanup"} ~> pc[t] \notin {"get", "cleanup"}
  \/ <>[](\E t \in Everyone : pc[t] = "connect")

-----------------------------------------------------------------------------
(* The inductive invariant behind NoOrphan and ExitCloses                  *)

\* connect() runs in one thread at a time, with no default.
LockInv ==
  /\ \A t \in Everyone : pc[t] = "connect" => lock /\ default = None
  /\ \A t, u \in Everyone : pc[t] = "connect" /\ pc[u] = "connect" => t = u

\* What was made before: the default has its handler, and is in no thread's
\* hands for closing.
DefaultInv ==
  /\ default # None => hooked /\ default <= made
  /\ \A t \in Everyone : pc[t] = "close" => held[t] # default /\ held[t] <= made

\* At exit the main thread is alone, and past the swap there is no default.
ExitInv ==
  phase # "runs" =>
    /\ \A t \in Everyone \ {Main} : pc[t] = "idle"
    /\ phase = "exits" => pc[Main] \in {"cleanup", "close", "done"}
    /\ phase = "ended" => pc[Main] = "idle"
    /\ phase = "ended" \/ pc[Main] \in {"close", "done"} => default = None

Inv == TypeOK /\ LockInv /\ DefaultInv /\ NoOrphan /\ ExitInv
=============================================================================
