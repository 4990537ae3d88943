--------------------------- MODULE ConnectProofs ---------------------------
(***************************************************************************)
(* What holds of connect.py for all devices, requests and threads.         *)
(***************************************************************************)
EXTENDS Connect, TLAPS

\* _prepare_config returns, for a request it does not reject, the request but
\* for its power, and that within the limits of the device; and it leaves
\* alone what already fits.
THEOREM PrepareConfigFits ==
  ASSUME NEW i \in Capabilities, i.powerMin <= i.powerMax,
         NEW q \in Modulations, ~Rejects(i, q)
  PROVE  /\ PrepareConfig(i, q) \in Modulations
         /\ SameButPower(PrepareConfig(i, q), q)
         /\ Fits(i, PrepareConfig(i, q))
         /\ Fits(i, q) => PrepareConfig(i, q) = q
<1>1. Clamp(i, q.power) \in Int
      /\ i.powerMin <= Clamp(i, q.power) /\ Clamp(i, q.power) <= i.powerMax
  BY DEF Clamp, Capabilities, Modulations
<1>2. CASE q.lora
  <2>1. PrepareConfig(i, q) = [q EXCEPT !.power = Clamp(i, q.power)]
    BY <1>2 DEF PrepareConfig
  <2>2. PrepareConfig(i, q) \in Modulations
        /\ SameButPower(PrepareConfig(i, q), q)
    BY <1>1, <2>1 DEF Modulations, SameButPower
  <2>3. Supports(i, q)
    BY <1>2 DEF Rejects
  <2>4. Fits(i, PrepareConfig(i, q))
    BY <1>1, <2>1, <2>3 DEF Fits, Supports, Modulations
  <2>5. ASSUME Fits(i, q) PROVE PrepareConfig(i, q) = q
    <3>1. i.powerMin <= q.power /\ q.power <= i.powerMax
      BY <1>2, <2>5 DEF Fits
    <3>2. Clamp(i, q.power) = q.power
      BY <3>1 DEF Clamp, Capabilities, Modulations
    <3> QED BY <2>1, <3>2 DEF Modulations
  <2> QED BY <2>2, <2>4, <2>5
<1>3. CASE ~q.lora
  BY <1>3 DEF PrepareConfig, SameButPower, Fits, Modulations
<1> QED BY <1>2, <1>3

-----------------------------------------------------------------------------
(* The inductive invariant                                                 *)

\* A thread that may go on to the serial port began before any mux connection
\* had succeeded, or was given the port.
StickyInv ==
  /\ muxed => usedMux
  /\ \A t \in Threads :
       /\ job[t].since => muxed
       /\ pc[t] = "port" => job[t].entry = "port"
       /\ pc[t] \in {"usb", "wait"} => job[t].entry \in {"connect", "try_connect"}
       /\ pc[t] \in {"tcp", "find", "usb", "wait"} /\ job[t].since
            => job[t].entry \notin {"connect", "try_connect"}
       /\ job[t].since /\ job[t].entry # "port" => transport[t] # "serial"

Inv == TypeOK /\ StickyInv /\ HeldOrClosed /\ ConfigFits

LEMMA JobTypes ==
  /\ NoMod \in Modulations
  /\ NoJob \in Jobs
  /\ \A i \in Infos, q \in Modulations :
       ~Rejects(i, q) => /\ PrepareConfig(i, q) \in Modulations
                         /\ SameButPower(PrepareConfig(i, q), q)
                         /\ Fits(i, PrepareConfig(i, q))
  /\ Foreign \subseteq Modulations
  /\ Requests \cup {NoMod, DefaultReq} \subseteq Modulations
<1>1. NoMod \in Modulations
  BY DEF NoMod, Modulations
<1>2. NoJob \in Jobs
  BY <1>1 DEF NoJob, Jobs
<1>3. ASSUME NEW i \in Infos, NEW q \in Modulations, ~Rejects(i, q)
      PROVE  /\ PrepareConfig(i, q) \in Modulations
             /\ SameButPower(PrepareConfig(i, q), q)
             /\ Fits(i, PrepareConfig(i, q))
  <2>1. i \in Capabilities /\ i.powerMin <= i.powerMax
    BY ConnectAssumption DEF ConnectAssumption
  <2> QED BY <1>3, <2>1, PrepareConfigFits
<1> QED BY <1>1, <1>2, <1>3, ConnectAssumption DEF ConnectAssumption

\* What the actions do to the job of a thread.
LEMMA JobUpdates ==
  ASSUME job \in [Threads -> Jobs], NEW t \in Threads
  PROVE  /\ [job EXCEPT ![t] = NoJob] \in [Threads -> Jobs]
         /\ \A e \in AllEntries : [job EXCEPT ![t].entry = e] \in [Threads -> Jobs]
         /\ \A m \in Modulations : [job EXCEPT ![t].config = m] \in [Threads -> Jobs]
         /\ \A b \in BOOLEAN, m \in Modulations :
              [job EXCEPT ![t].since = b, ![t].config = m] \in [Threads -> Jobs]
         /\ job[t].want \in Modulations
<1>1. job[t] \in Jobs
  OBVIOUS
<1>2. ASSUME NEW e \in AllEntries PROVE [job[t] EXCEPT !.entry = e] \in Jobs
  BY <1>1 DEF Jobs
<1>3. ASSUME NEW m \in Modulations PROVE [job[t] EXCEPT !.config = m] \in Jobs
  BY <1>1 DEF Jobs
<1>4. ASSUME NEW b \in BOOLEAN, NEW m \in Modulations
      PROVE  [job[t] EXCEPT !.since = b, !.config = m] \in Jobs
  BY <1>1 DEF Jobs
<1>5. job[t].want \in Modulations
  BY <1>1 DEF Jobs
<1> QED BY <1>2, <1>3, <1>4, <1>5, JobTypes

LEMMA InitInv == Init => Inv
<1> SUFFICES ASSUME Init PROVE Inv
  OBVIOUS
<1>1. TypeOK
  <2>1. job \in [Threads -> Jobs]
    BY JobTypes DEF Init
  <2>2. leaks \in 0..MaxLeaks
    BY ConnectAssumption DEF Init, ConnectAssumption
  <2> QED BY <2>1, <2>2 DEF Init, TypeOK, Labels
<1>2. StickyInv
  BY DEF Init, StickyInv, NoJob
<1>3. HeldOrClosed /\ ConfigFits
  BY DEF Init, HeldOrClosed, ConfigFits
<1> QED BY <1>1, <1>2, <1>3 DEF Inv

\* Nothing about the threads changes.
LEMMA WorldChangesInv == ASSUME Inv, WorldChanges PROVE Inv'
<1>1. UNCHANGED <<mode, caps, usedMux, muxed, pc, job, transport, leaks>>
  BY DEF WorldChanges
<1>2. {tcpUp', usb'} \subseteq BOOLEAN
  BY DEF WorldChanges, Inv, TypeOK
<1>3. socks' \subseteq Paths /\ listening' \subseteq socks'
  BY DEF WorldChanges, Inv, TypeOK
<1>4. TypeOK'
  BY <1>1, <1>2, <1>3 DEF Inv, TypeOK
<1>5. StickyInv' /\ HeldOrClosed' /\ ConfigFits'
  BY <1>1 DEF Inv, StickyInv, HeldOrClosed, ConfigFits
<1> QED BY <1>4, <1>5 DEF Inv

LEMMA BeginInv ==
  ASSUME Inv, NEW t \in Threads, NEW e \in Entries,
         NEW q \in Requests \cup {NoMod, DefaultReq}, Begin(t, e, q)
  PROVE  Inv'
<1> DEFINE new == [NoJob EXCEPT !.entry = e, !.since = muxed, !.want = q]
<1>0. /\ new \in Jobs /\ new.entry = e /\ new.since = muxed
      /\ job' = [job EXCEPT ![t] = new]
  BY JobTypes, ConnectAssumption
  DEF Inv, TypeOK, Begin, Jobs, NoJob, ConnectAssumption
<1> HIDE DEF new
<1>1. TypeOK'
  <2>1. job' \in [Threads -> Jobs]
    BY <1>0 DEF Inv, TypeOK
  <2>2. pc' \in [Threads -> Labels]
    BY DEF Inv, TypeOK, Begin, Goto, Start, Labels
  <2> QED BY <2>1, <2>2 DEF Inv, TypeOK, Begin, world
<1>2. StickyInv'
  <2>1. ASSUME NEW r \in Threads, r # t
        PROVE  job'[r] = job[r] /\ pc'[r] = pc[r]
    BY <1>0, <2>1 DEF Inv, TypeOK, Begin, Goto
  <2>2. job'[t] = new /\ pc'[t] = Start(e) /\ transport[t] = "none"
    BY <1>0 DEF Inv, TypeOK, HeldOrClosed, Begin, Goto
  <2>3. UNCHANGED <<usedMux, muxed, transport>>
    BY DEF Begin
  <2>4. Start(e) = "port" <=> e = "port"
    BY DEF Start
  <2>5. /\ Start(e) \notin {"usb", "wait"}
        /\ Start(e) \in {"tcp", "find"} => e \in {"connect_mux_auto", "mux_connect"}
    BY DEF Start
  <2> QED BY <1>0, <2>1, <2>2, <2>3, <2>4, <2>5 DEF Inv, StickyInv
<1>3. HeldOrClosed' /\ ConfigFits'
  BY DEF Inv, TypeOK, HeldOrClosed, ConfigFits, Begin, Goto, Start, world
<1> QED BY <1>1, <1>2, <1>3 DEF Inv

LEMMA SelectInv == ASSUME Inv, NEW t \in Threads, Select(t) PROVE Inv'
<1> USE DEF Inv, Select, Goto, OpenFrame, world
<1>1. TypeOK'
  <2>1. job' \in [Threads -> Jobs]
    <3>1. CASE usedMux /\ job[t].entry = "connect"
      BY <3>1 DEF TypeOK
    <3>2. CASE ~(usedMux /\ job[t].entry = "connect") /\ usedMux
      <4>1. job' = [job EXCEPT ![t].entry = "connect_mux_auto"]
        BY <3>2
      <4>2. "connect_mux_auto" \in AllEntries
        BY DEF AllEntries
      <4> QED BY <4>1, <4>2, JobUpdates DEF TypeOK
    <3>3. CASE ~usedMux
      <4>1. job' = [job EXCEPT ![t].entry = job[t].entry]
        BY <3>3
      <4> QED BY <4>1 DEF TypeOK, Jobs
    <3> QED BY <3>1, <3>2, <3>3
  <2>2. pc' \in [Threads -> Labels]
    BY DEF TypeOK, Labels
  <2> QED BY <2>1, <2>2 DEF TypeOK
<1>2. StickyInv'
  BY DEF TypeOK, Jobs, StickyInv, HeldOrClosed, NoJob
<1>3. HeldOrClosed'
  BY DEF TypeOK, HeldOrClosed
<1>4. ConfigFits'
  BY JobTypes DEF TypeOK, Jobs, ConfigFits, NoJob, HeldOrClosed
<1> QED BY <1>1, <1>2, <1>3, <1>4

LEMMA PollInv == ASSUME Inv, NEW t \in Threads, Poll(t) PROVE Inv'
<1> USE DEF Inv, Poll, MuxOpened, Opened, Fails, Goto, OpenFrame, world
<1>1. TypeOK'
  <2>1. job' \in [Threads -> Jobs]
    BY JobUpdates DEF TypeOK
  <2>2. pc' \in [Threads -> Labels]
    BY DEF TypeOK, Labels
  <2> QED BY <2>1, <2>2 DEF TypeOK
<1>2. StickyInv'
  BY DEF TypeOK, Jobs, StickyInv, HeldOrClosed, NoJob
<1>3. HeldOrClosed'
  BY DEF TypeOK, HeldOrClosed
<1>4. ConfigFits'
  BY JobTypes DEF TypeOK, Jobs, ConfigFits, NoJob, HeldOrClosed
<1> QED BY <1>1, <1>2, <1>3, <1>4

LEMMA TryTcpInv == ASSUME Inv, NEW t \in Threads, TryTcp(t) PROVE Inv'
<1> USE DEF Inv, TryTcp, MuxOpened, Opened, GoesOn, Goto, OpenFrame, world
<1>1. TypeOK'
  BY JobTypes, ConnectAssumption DEF TypeOK, Labels, Jobs, ConnectAssumption
<1>2. StickyInv'
  BY DEF TypeOK, Jobs, StickyInv, HeldOrClosed, NoJob
<1>3. HeldOrClosed'
  BY DEF TypeOK, HeldOrClosed
<1>4. ConfigFits'
  BY JobTypes DEF TypeOK, Jobs, ConfigFits, NoJob, HeldOrClosed
<1> QED BY <1>1, <1>2, <1>3, <1>4

LEMMA DialTcpInv == ASSUME Inv, NEW t \in Threads, DialTcp(t) PROVE Inv'
<1> USE DEF Inv, DialTcp, MuxOpened, Opened, Fails, Goto, OpenFrame, world
<1>1. TypeOK'
  BY JobTypes, ConnectAssumption DEF TypeOK, Labels, Jobs, ConnectAssumption
<1>2. StickyInv'
  BY DEF TypeOK, Jobs, StickyInv, HeldOrClosed, NoJob
<1>3. HeldOrClosed'
  BY DEF TypeOK, HeldOrClosed
<1>4. ConfigFits'
  BY JobTypes DEF TypeOK, Jobs, ConfigFits, NoJob, HeldOrClosed
<1> QED BY <1>1, <1>2, <1>3, <1>4

LEMMA DialSocketInv == ASSUME Inv, NEW t \in Threads, DialSocket(t) PROVE Inv'
<1> USE DEF Inv, DialSocket, MuxOpened, Opened, Fails, Goto, OpenFrame, world
<1>1. TypeOK'
  BY JobTypes, ConnectAssumption DEF TypeOK, Labels, Jobs, ConnectAssumption
<1>2. StickyInv'
  BY DEF TypeOK, Jobs, StickyInv, HeldOrClosed, NoJob
<1>3. HeldOrClosed'
  BY DEF TypeOK, HeldOrClosed
<1>4. ConfigFits'
  BY JobTypes DEF TypeOK, Jobs, ConfigFits, NoJob, HeldOrClosed
<1> QED BY <1>1, <1>2, <1>3, <1>4

LEMMA TrySocketInv == ASSUME Inv, NEW t \in Threads, TrySocket(t) PROVE Inv'
<1> USE DEF Inv, TrySocket, MuxOpened, Opened, GoesOn, Fails, Goto, OpenFrame, world
<1>1. TypeOK'
  BY JobTypes, ConnectAssumption DEF TypeOK, Labels, Jobs, ConnectAssumption
<1>2. StickyInv'
  BY DEF TypeOK, Jobs, StickyInv, HeldOrClosed, NoJob
<1>3. HeldOrClosed'
  BY DEF TypeOK, HeldOrClosed
<1>4. ConfigFits'
  BY JobTypes DEF TypeOK, Jobs, ConfigFits, NoJob, HeldOrClosed
<1> QED BY <1>1, <1>2, <1>3, <1>4

LEMMA TryUsbInv == ASSUME Inv, NEW t \in Threads, TryUsb(t) PROVE Inv'
<1> USE DEF Inv, TryUsb, Opened, GoesOn, Fails, Goto, OpenFrame, world
<1>1. TypeOK'
  BY JobTypes, ConnectAssumption DEF TypeOK, Labels, Jobs, ConnectAssumption
<1>2. StickyInv'
  BY DEF TypeOK, Jobs, StickyInv, HeldOrClosed, NoJob
<1>3. HeldOrClosed'
  BY DEF TypeOK, HeldOrClosed
<1>4. ConfigFits'
  BY JobTypes DEF TypeOK, Jobs, ConfigFits, NoJob, HeldOrClosed
<1> QED BY <1>1, <1>2, <1>3, <1>4

LEMMA WaitForDeviceInv == ASSUME Inv, NEW t \in Threads, WaitForDevice(t) PROVE Inv'
<1> USE DEF Inv, WaitForDevice, Opened, Fails, Goto, OpenFrame, world
<1>1. TypeOK'
  BY JobTypes, ConnectAssumption DEF TypeOK, Labels, Jobs, ConnectAssumption
<1>2. StickyInv'
  BY DEF TypeOK, Jobs, StickyInv, HeldOrClosed, NoJob
<1>3. HeldOrClosed'
  BY DEF TypeOK, HeldOrClosed
<1>4. ConfigFits'
  BY JobTypes DEF TypeOK, Jobs, ConfigFits, NoJob, HeldOrClosed
<1> QED BY <1>1, <1>2, <1>3, <1>4

LEMMA OpenPortInv == ASSUME Inv, NEW t \in Threads, OpenPort(t) PROVE Inv'
<1> USE DEF Inv, OpenPort, Opened, Fails, Goto, OpenFrame, world
<1>1. TypeOK'
  BY JobTypes, ConnectAssumption DEF TypeOK, Labels, Jobs, ConnectAssumption
<1>2. StickyInv'
  BY DEF TypeOK, Jobs, StickyInv, HeldOrClosed, NoJob
<1>3. HeldOrClosed'
  BY DEF TypeOK, HeldOrClosed
<1>4. ConfigFits'
  BY JobTypes DEF TypeOK, Jobs, ConfigFits, NoJob, HeldOrClosed
<1> QED BY <1>1, <1>2, <1>3, <1>4

LEMMA GetInfoInv == ASSUME Inv, NEW t \in Threads, GetInfo(t) PROVE Inv'
<1> USE DEF Inv, GetInfo, GoesOn, Connected, Refused, Escapes, Goto, BringFrame, world
<1>1. TypeOK'
  BY JobTypes, ConnectAssumption DEF TypeOK, Labels, Jobs, ConnectAssumption
<1>2. StickyInv'
  BY DEF TypeOK, Jobs, StickyInv, HeldOrClosed, NoJob
<1>3. HeldOrClosed'
  BY DEF TypeOK, HeldOrClosed
<1>4. ConfigFits'
  BY JobTypes DEF TypeOK, Jobs, ConfigFits, NoJob, HeldOrClosed
<1> QED BY <1>1, <1>2, <1>3, <1>4

LEMMA ConfigureInv == ASSUME Inv, NEW t \in Threads, Configure(t) PROVE Inv'
<1> USE DEF Inv, Configure, Connected, Refused, Escapes, Goto, BringFrame, world
<1>1. TypeOK'
  <2>1. job' \in [Threads -> Jobs]
    <3>1. PICK m \in Modulations :
            \/ job' = [job EXCEPT ![t] = NoJob]
            \/ job' = [job EXCEPT ![t].config = m]
      <4>1. caps \in Infos /\ job[t].want \in Modulations
        BY JobUpdates DEF TypeOK
      <4> QED BY <4>1, JobTypes DEF Configure
    <3>2. job \in [Threads -> Jobs]
      BY DEF TypeOK
    <3>3. /\ [job EXCEPT ![t] = NoJob] \in [Threads -> Jobs]
          /\ [job EXCEPT ![t].config = m] \in [Threads -> Jobs]
      BY <3>2, JobUpdates
    <3> QED BY <3>1, <3>3
  <2>2. pc' \in [Threads -> Labels]
    BY DEF TypeOK, Labels
  <2>3. leaks' \in 0..MaxLeaks
    BY ConnectAssumption DEF TypeOK, ConnectAssumption
  <2>4. transport' \in [Threads -> {"none", "serial", "mux"}]
    BY DEF TypeOK
  <2> QED BY <2>1, <2>2, <2>3, <2>4 DEF TypeOK
<1>2. StickyInv'
  BY DEF TypeOK, Jobs, StickyInv, HeldOrClosed, NoJob
<1>3. HeldOrClosed'
  BY DEF TypeOK, HeldOrClosed
<1>4. ConfigFits'
  BY JobTypes DEF TypeOK, Jobs, ConfigFits, NoJob, HeldOrClosed
<1> QED BY <1>1, <1>2, <1>3, <1>4

LEMMA DisconnectsInv == ASSUME Inv, NEW t \in Threads, Disconnects(t) PROVE Inv'
<1> USE DEF Inv, Disconnects, Start, Goto, world
<1>1. TypeOK'
  <2>1. job' \in [Threads -> Jobs]
    <3>1. \/ job' = [job EXCEPT ![t] = NoJob]
          \/ job' = [job EXCEPT ![t].since = muxed, ![t].config = NoMod]
      OBVIOUS
    <3>2. job \in [Threads -> Jobs] /\ muxed \in BOOLEAN /\ NoMod \in Modulations
      BY JobTypes DEF TypeOK
    <3>3. /\ [job EXCEPT ![t] = NoJob] \in [Threads -> Jobs]
          /\ [job EXCEPT ![t].since = muxed, ![t].config = NoMod]
               \in [Threads -> Jobs]
      BY <3>2, JobUpdates
    <3> QED BY <3>1, <3>3
  <2>2. pc' \in [Threads -> Labels]
    BY DEF TypeOK, Labels
  <2> QED BY <2>1, <2>2 DEF TypeOK
<1>2. StickyInv'
  BY DEF TypeOK, Jobs, StickyInv, HeldOrClosed, NoJob
<1>3. HeldOrClosed'
  BY DEF TypeOK, HeldOrClosed
<1>4. ConfigFits'
  BY JobTypes DEF TypeOK, Jobs, ConfigFits, NoJob, HeldOrClosed
<1> QED BY <1>1, <1>2, <1>3, <1>4
LEMMA OpensInv == ASSUME Inv, NEW t \in Threads, Opens(t) PROVE Inv'
BY SelectInv, PollInv, TryTcpInv, DialTcpInv, DialSocketInv, TrySocketInv,
   TryUsbInv, WaitForDeviceInv, OpenPortInv DEF Opens

LEMMA NextInv == Inv /\ [Next]_vars => Inv'
<1> SUFFICES ASSUME Inv, [Next]_vars PROVE Inv'
  OBVIOUS
<1>1. CASE UNCHANGED vars
  BY <1>1 DEF vars, world, Inv, TypeOK, StickyInv, HeldOrClosed, ConfigFits
<1>2. ASSUME NEW t \in Threads, NEW e \in Entries,
             NEW q \in Requests \cup {NoMod, DefaultReq}, Begin(t, e, q)
      PROVE  Inv'
  BY <1>2, BeginInv
<1>3. ASSUME NEW t \in Threads, Opens(t) PROVE Inv'
  BY <1>3, OpensInv
<1>4. ASSUME NEW t \in Threads, GetInfo(t) PROVE Inv'
  BY <1>4, GetInfoInv
<1>5. ASSUME NEW t \in Threads, Configure(t) PROVE Inv'
  BY <1>5, ConfigureInv
<1>6. ASSUME NEW t \in Threads, Disconnects(t) PROVE Inv'
  BY <1>6, DisconnectsInv
<1>7. CASE WorldChanges
  BY <1>7, WorldChangesInv
<1> QED BY <1>1, <1>2, <1>3, <1>4, <1>5, <1>6, <1>7 DEF Next

THEOREM InvHolds == Spec => []Inv
<1> QED BY InitInv, NextInv, PTL DEF Spec

-----------------------------------------------------------------------------
(* The properties                                                          *)

\* Every variable has its type in every behaviour.
THEOREM TypeCorrect == Spec => []TypeOK
<1>1. Inv => TypeOK
  BY DEF Inv
<1> QED BY <1>1, InvHolds, PTL

\* However a mux was reached, a search that began after that does not end at
\* the serial port: what keeps it from there is which of the functions a
\* thread with _used_mux set goes on in, long before it would look for USB.
THEOREM StickyMuxHolds == Spec => []StickyMux
<1>1. Inv => StickyMux
  BY DEF Inv, StickyInv, StickyMux
<1> QED BY <1>1, InvHolds, PTL

\* No transport is held by a call that failed, and none closed under a Dongle
\* that is being brought up, whatever step of the bring-up fails.
THEOREM HeldOrClosedHolds == Spec => []HeldOrClosed
<1>1. Inv => HeldOrClosed
  BY DEF Inv
<1> QED BY <1>1, InvHolds, PTL

\* A Dongle gets the configuration asked for, made to fit in power only; the
\* fit is PrepareConfigFits, for every device and every request.
THEOREM ConfigFitsHolds == Spec => []ConfigFits
<1>1. Inv => ConfigFits
  BY DEF Inv
<1> QED BY <1>1, InvHolds, PTL
=============================================================================
