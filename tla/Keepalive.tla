----------------------------- MODULE Keepalive -----------------------------
(***************************************************************************)
(* The cadence of the keepalive thread of donglora/dongle.py, with a clock. *)
(*                                                                         *)
(* The device forgets its configuration when it hears nothing for a while. *)
(* The thread sleeps for Interval, pings unless a caller has marked a      *)
(* write in the meantime, and stamps the time when the ping is answered.   *)
(* A caller stamps the time before its command is encoded and written, and *)
(* some commands are never heard: that is where the stamp and the truth    *)
(* part.                                                                   *)
(*                                                                         *)
(* The module Dongle has the same thread without the clock, with close()   *)
(* and everything that can fail in a reconnect.                            *)
(***************************************************************************)
EXTENDS Integers

CONSTANTS
  Users,       \* threads that call methods of the Dongle
  Interval,    \* _KEEPALIVE_INTERVAL_S
  PingTimeout, \* the time-out of the keepalive's own commands
  Inactivity,  \* the device's inactivity time-out
  Reply,       \* longest time an answered command takes
  Late,        \* longest time a thread that is due is not scheduled
  Slack,       \* longest time from a caller's stamp to its frame's arrival
  MaxNow,      \* bound: the clock
  MaxAllow     \* bound: the allowance for what was lost

ASSUME KeepaliveAssumption ==
  /\ {Interval, PingTimeout, Inactivity, Reply, Late, Slack, MaxNow, MaxAllow}
       \subseteq Nat
  /\ Interval > 0

None == -1

VARIABLES
  now,    \* the clock, time.monotonic()
  last,   \* _last_write_time
  marked, \* the time a caller stamped last, None if it has nothing to write
  up,     \* the session is alive
  kpc,    \* the keepalive thread: "wait", "ping", "apply", "reopen"
  due,    \* the end of its wait, or of its command's
  reply,  \* what will answer its command: "ok", "unconfigured", "none"
  heard,  \* the device: when it last heard a command
  conf,   \* the device: it has a configuration
  allow   \* history: what was lost since, as time without a ping

vars == <<now, last, marked, up, kpc, due, reply, heard, conf, allow>>

Asking == kpc \in {"ping", "apply"}

\* The longest silence when nothing is lost: a caller that stamps right after
\* the thread began to wait makes it wait once more.
Rest == IF Reply > Interval THEN Reply ELSE Interval
Quiet == Interval + Rest + Late + Slack

\* What a lost command or answer of the thread may add: it waits in vain.
LostPing == Quiet + PingTimeout + Late

Allow(n) == allow + n <= MaxAllow /\ allow' = allow + n

\* The device hears a command; a thread that waits in vain still does.
Hears ==
  /\ heard' = now
  /\ allow' = IF Asking /\ reply = "none" THEN LostPing ELSE 0

Waits == kpc' = "wait" /\ due' = now + Interval

Init ==
  /\ now = 0 /\ last = 0 /\ heard = 0 /\ allow = 0
  /\ marked = [u \in Users |-> None]
  /\ up = TRUE
  /\ kpc = "wait" /\ due = Interval
  /\ reply = "none"
  /\ conf = TRUE

-----------------------------------------------------------------------------
(* Time and the world                                                      *)

\* Nobody is later than the constants say.
Tick ==
  /\ now < MaxNow
  /\ kpc = "wait" => now < due + Late
  /\ Asking => now < due + (IF reply = "none" THEN Late ELSE 0)
  /\ up => \A u \in Users : marked[u] # None => now < marked[u] + Slack
  /\ now' = now + 1
  /\ UNCHANGED <<last, marked, up, kpc, due, reply, heard, conf, allow>>

Forgets ==
  /\ conf
  /\ now - heard >= Inactivity
  /\ conf' = FALSE
  /\ UNCHANGED <<now, last, marked, up, kpc, due, reply, heard, allow>>

\* The reader ends: it wakes the callers and the thread out of their commands.
Drops ==
  /\ up
  /\ up' = FALSE
  /\ marked' = [u \in Users |-> None]
  /\ IF Asking THEN Waits ELSE UNCHANGED <<kpc, due>>
  /\ UNCHANGED <<now, last, reply, heard, conf, allow>>

\* Some thread reconnects and the bring-up configures the device; the thread, if
\* it was reconnecting or waiting for the lock, goes on with its loop.
Reopens ==
  /\ ~up
  /\ up' = TRUE
  /\ heard' = now
  /\ conf' = TRUE
  /\ allow' = 0
  /\ IF kpc = "reopen" THEN Waits ELSE UNCHANGED <<kpc, due>>
  /\ UNCHANGED <<now, last, marked, reply>>

-----------------------------------------------------------------------------
(* Callers                                                                 *)

\* _mark_write
UserMarks(u) ==
  /\ marked[u] = None
  /\ last' = now
  /\ marked' = [marked EXCEPT ![u] = IF up THEN now ELSE None]
  /\ UNCHANGED <<now, up, kpc, due, reply, heard, conf, allow>>

\* The command arrives; set_config(), and _with_recovery after an
\* ENOTCONFIGURED, leave the device configured.
UserWrites(u) ==
  /\ marked[u] # None
  /\ Hears
  /\ marked' = [marked EXCEPT ![u] = None]
  /\ conf' \in {conf, TRUE}
  /\ UNCHANGED <<now, last, up, kpc, due, reply>>

\* Nothing arrives: the payload is empty or too long, or the frame is lost.
UserUnheard(u) ==
  /\ marked[u] # None
  /\ Allow(Quiet)
  /\ marked' = [marked EXCEPT ![u] = None]
  /\ UNCHANGED <<now, last, up, kpc, due, reply, heard, conf>>

-----------------------------------------------------------------------------
(* _keepalive_loop                                                         *)

\* The thread writes a command that is answered, or whose answer is lost, or
\* that is lost itself.
Ask(step, configured) ==
  /\ kpc' = step
  /\ \/ /\ reply' = IF configured THEN "ok" ELSE "unconfigured"
        /\ due' = now + Reply
        /\ heard' = now /\ allow' = 0
        /\ conf' = configured
     \/ /\ reply' = "none"
        /\ due' = now + PingTimeout
        /\ \/ heard' = now /\ allow' = LostPing /\ conf' = configured
           \/ Allow(LostPing) /\ UNCHANGED <<heard, conf>>

Awake == kpc = "wait" /\ now >= due

\* Faulty: the thread compares with twice the interval.
TooPatient(since) == since < 2 * Interval

\* A caller's stamp is younger than the interval.
Fresh(since) == since < Interval

KeeperSkips ==
  /\ Awake /\ up
  /\ Fresh(now - last)
  /\ Waits
  /\ UNCHANGED <<now, last, marked, up, reply, heard, conf, allow>>

KeeperPings ==
  /\ Awake /\ up
  /\ ~Fresh(now - last)
  /\ Ask("ping", conf)
  /\ UNCHANGED <<now, last, marked, up>>

\* Faulty: an exception of the reconnect ends the thread.
Ends == kpc' = "gone"

EntersRecovery == kpc' = "reopen"

KeeperReopens ==
  /\ Awake /\ ~up
  /\ EntersRecovery
  /\ UNCHANGED <<now, last, marked, up, due, reply, heard, conf, allow>>

PingAnswered ==
  /\ kpc = "ping" /\ reply = "ok"
  /\ last' = now
  /\ Waits
  /\ UNCHANGED <<now, marked, up, reply, heard, conf, allow>>

\* except NotConfiguredError: re-apply the configuration.
PingUnconfigured ==
  /\ kpc = "ping" /\ reply = "unconfigured"
  /\ Ask("apply", TRUE)
  /\ UNCHANGED <<now, last, marked, up>>

\* The configuration is back; last is left as it was.
Reapplied ==
  /\ kpc = "apply" /\ reply # "none"
  /\ Waits
  /\ UNCHANGED <<now, last, marked, up, reply, heard, conf, allow>>

\* TimeoutError_ is logged and the loop goes on.
KeeperTimesOut ==
  /\ Asking /\ reply = "none"
  /\ now >= due
  /\ Waits
  /\ UNCHANGED <<now, last, marked, up, reply, heard, conf, allow>>

Next ==
  \/ Tick \/ Forgets \/ Drops \/ Reopens
  \/ \E u \in Users : UserMarks(u) \/ UserWrites(u) \/ UserUnheard(u)
  \/ KeeperSkips \/ KeeperPings \/ KeeperReopens
  \/ PingAnswered \/ PingUnconfigured \/ Reapplied \/ KeeperTimesOut

Spec == Init /\ [][Next]_vars

-----------------------------------------------------------------------------
(* Properties                                                              *)

TypeOK ==
  /\ now \in Nat /\ last \in Nat /\ due \in Nat /\ heard \in Nat /\ allow \in Nat
  /\ marked \in [Users -> Nat \cup {None}]
  /\ up \in BOOLEAN /\ conf \in BOOLEAN
  /\ kpc \in {"wait", "ping", "apply", "reopen"}
  /\ reply \in {"ok", "unconfigured", "none"}

\* While the session is up the device hears something at least every Quiet,
\* about twice the interval, and what was lost delays that by the allowance
\* for it and no more (dongle.py:303-319 with the stamps of 208-210).
GapBound == up => now - heard <= Quiet + allow

\* dongle.py:28-30 promises a margin of two to the device's time-out: when
\* nothing is lost, the device should never come to forget its configuration.
HeardInTime == up /\ allow = 0 => now - heard < Inactivity

-----------------------------------------------------------------------------
(* The inductive invariant behind GapBound                                 *)

\* A caller has stamped early enough and is about to write.
Covered ==
  \E u \in Users :
    marked[u] # None /\ marked[u] - heard <= Interval + Rest + Late + allow

ClockInv ==
  /\ last <= now /\ heard <= now
  /\ \A u \in Users : marked[u] <= now
  /\ up => \A u \in Users : marked[u] # None => now <= marked[u] + Slack
  /\ ~up => \A u \in Users : marked[u] = None
  /\ kpc = "reopen" => ~up
  /\ Asking => up

\* What the thread's wait began with, and a stamp made since.
WaitInv ==
  kpc = "wait" =>
    /\ due <= now + Interval /\ now <= due + Late
    /\ up => due - Interval - heard <= Rest + allow \/ Covered
    /\ up /\ last > due - Interval => last - heard <= allow \/ Covered

\* A command of the thread: answered soon after the device heard it, or one
\* that the allowance covers.
AskInv ==
  Asking =>
    IF reply = "none"
    THEN /\ now <= due + Late /\ due <= now + PingTimeout
         /\ due + Late - heard <= Rest + allow
    ELSE now <= due /\ due - heard <= Reply

GapInv == TypeOK /\ ClockInv /\ WaitInv /\ AskInv
=============================================================================
