------------------------------ MODULE Connect ------------------------------
(***************************************************************************)
(* donglora/connect.py: how a transport is chosen (_open_transport and the *)
(* other openers), how a session is brought up on it (_open_and_init,      *)
(* _session_on) and how a configuration is fitted to the device            *)
(* (_prepare_config).                                                      *)
(*                                                                         *)
(* Threads of one process share the flag _used_mux.  A thread that got its *)
(* Dongle may open again: the reopener of the Dongle runs _open_and_init   *)
(* in whichever thread finds the session dead.  The mux, its sockets, the  *)
(* serial port and the device come and go as they like.                    *)
(***************************************************************************)
EXTENDS Integers, FiniteSets

CONSTANTS
  Threads,    \* threads that open
  Entries,    \* functions they call, a subset of AllEntries
  Modes,      \* what the environment says of the mux socket's path
  Infos,      \* capabilities a device may report
  Requests,   \* modulations connect() may be asked for
  DefaultReq, \* LoRaConfig.default()
  Foreign,    \* modulations another client of the mux may have set
  MaxLeaks    \* bound: transports left open by an OSError

\* connect() without and with a port, mux_connect() without and with a path,
\* and the others by name.
AllEntries ==
  {"connect", "port", "try_connect", "connect_mux_auto", "mux_connect", "path",
   "mux_tcp_connect"}

\* DONGLORA_MUX is set; or XDG_RUNTIME_DIR is; or neither.
AllModes == {"env", "xdg", "none"}

\* The fields that _prepare_config reads; a modulation other than LoRa only has
\* its family.
Modulations == [lora : BOOLEAN, freq : Int, sf : Int, bw : Int, power : Int]

Capabilities ==
  [freqMin : Int, freqMax : Int, sfs : SUBSET Int, bws : SUBSET Int,
   powerMin : Int, powerMax : Int]

ASSUME ConnectAssumption ==
  /\ Entries \subseteq AllEntries
  /\ Modes \subseteq AllModes
  /\ Infos \subseteq Capabilities
  /\ \A i \in Infos : i.powerMin <= i.powerMax
  /\ Requests \cup Foreign \cup {DefaultReq} \subseteq Modulations
  /\ MaxLeaks \in Nat

-----------------------------------------------------------------------------
(* _prepare_config                                                         *)

Supports(info, q) ==
  /\ info.freqMin <= q.freq /\ q.freq <= info.freqMax
  /\ q.sf \in info.sfs
  /\ q.bw \in info.bws

\* Faulty: the power is clamped from above only.
ClampHigh(info, p) == IF p > info.powerMax THEN info.powerMax ELSE p

Clamp(info, p) ==
  IF p > info.powerMax THEN info.powerMax
  ELSE IF p < info.powerMin THEN info.powerMin ELSE p

\* Raises ConfigNotSupported.
Rejects(info, q) == q.lora /\ ~Supports(info, q)

PrepareConfig(info, q) ==
  IF q.lora THEN [q EXCEPT !.power = Clamp(info, q.power)] ELSE q

-----------------------------------------------------------------------------

VARIABLES
  mode,       \* the environment: path of the mux socket
  tcpUp,      \* a mux accepts on TCP (none does, with DONGLORA_MUX_TCP unset)
  socks, listening,  \* the socket files there are, those a mux listens on
  usb,        \* the serial device is there
  caps,       \* the Info of the device
  usedMux,    \* _used_mux
  muxed,      \* whether a mux connection has succeeded in this process
  pc,         \* each thread's program counter
  job,        \* each thread's call in progress, or the Dongle it got
  transport,  \* what it holds open: "none", "serial" or "mux"
  leaks       \* transports that nobody can close any more

world == <<mode, tcpUp, socks, listening, usb, caps>>
vars == <<world, usedMux, muxed, pc, job, transport, leaks>>

Paths == {"run", "tmp"}

\* None, of a modulation.
NoMod == [lora |-> FALSE, freq |-> 0, sf |-> 0, bw |-> 0, power |-> 0]

\* entry: the function called; since: muxed, when it was; want: the modulation
\* asked for; config: the one the Dongle got.
NoJob == [entry |-> "none", since |-> FALSE, want |-> NoMod, config |-> NoMod]

\* default_socket_path()
DefaultPath == IF mode = "none" THEN "tmp" ELSE "run"

\* _find_mux_socket(): the path found, or none.  Only with XDG_RUNTIME_DIR is
\* there a second place to look.
FindSocket ==
  IF DefaultPath \in socks THEN {DefaultPath}
  ELSE IF mode = "xdg" THEN {"tmp"} \cap socks ELSE {}

Init ==
  /\ mode \in Modes
  /\ tcpUp = FALSE /\ socks = {} /\ listening = {} /\ usb = FALSE
  /\ caps \in Infos
  /\ usedMux = FALSE /\ muxed = FALSE
  /\ pc = [t \in Threads |-> "idle"]
  /\ job = [t \in Threads |-> NoJob]
  /\ transport = [t \in Threads |-> "none"]
  /\ leaks = 0

-----------------------------------------------------------------------------
(* The openers: _open_transport and the others                             *)

OpenFrame == UNCHANGED <<world, leaks>>

Goto(t, label) == pc' = [pc EXCEPT ![t] = label]

\* Faulty: mux_connect(None) does not look for the socket.
StartUnsearched(e) == IF e = "mux_connect" THEN "dial_none" ELSE "select"

\* Where each function starts.
Start(e) ==
  CASE e = "port"             -> "port"
    [] e = "connect_mux_auto" -> "tcp"
    [] e = "mux_connect"      -> "find"
    [] e = "path"             -> "dial"
    [] e = "mux_tcp_connect"  -> "dial_tcp"
    [] OTHER                  -> "select"

Begin(t, e, q) ==
  /\ pc[t] = "idle"
  /\ \/ q = DefaultReq
     \/ e \in {"connect", "port"} /\ q \in Requests \cup {NoMod}
  /\ job' = [job EXCEPT ![t] = [NoJob EXCEPT !.entry = e, !.since = muxed, !.want = q]]
  /\ Goto(t, Start(e))
  /\ UNCHANGED <<world, usedMux, muxed, transport, leaks>>

Opened(t, kind) ==
  /\ transport' = [transport EXCEPT ![t] = kind]
  /\ Goto(t, "info")
  /\ UNCHANGED job

\* Nothing was opened: FileNotFoundError, SerialException, OSError.
Fails(t) ==
  /\ Goto(t, "idle")
  /\ job' = [job EXCEPT ![t] = NoJob]
  /\ UNCHANGED transport

GoesOn(t, label) == Goto(t, label) /\ UNCHANGED <<job, transport>>

\* Faulty: only the Unix socket makes the mux sticky.
MuxOpenedOnce(t) == Opened(t, "mux") /\ muxed' = TRUE /\ UNCHANGED usedMux

\* _used_mux = True
MuxOpened(t) == Opened(t, "mux") /\ muxed' = TRUE /\ usedMux' = TRUE

\* if _used_mux: connect() waits for the mux, try_connect() looks for it.
Select(t) ==
  /\ pc[t] = "select"
  /\ IF usedMux /\ job[t].entry = "connect"
     THEN Goto(t, "poll") /\ UNCHANGED job
     ELSE /\ Goto(t, "tcp")
          /\ job' = [job EXCEPT ![t].entry = IF usedMux THEN "connect_mux_auto" ELSE @]
  /\ OpenFrame /\ UNCHANGED <<usedMux, muxed, transport>>

\* while not os.path.exists(mux_path): only default_socket_path() is tried.
Poll(t) ==
  /\ pc[t] = "poll"
  /\ DefaultPath \in socks
  /\ \/ DefaultPath \in listening /\ MuxOpened(t)
     \/ DefaultPath \notin listening /\ Fails(t) /\ UNCHANGED <<usedMux, muxed>>
  /\ OpenFrame

\* _try_tcp_mux(DONGLORA_MUX_TCP)
TryTcp(t) ==
  /\ pc[t] = "tcp"
  /\ \/ tcpUp /\ MuxOpened(t)
     \/ ~tcpUp /\ GoesOn(t, "find") /\ UNCHANGED <<usedMux, muxed>>
  /\ OpenFrame

\* mux_tcp_connect(host, port)
DialTcp(t) ==
  /\ pc[t] = "dial_tcp"
  /\ IF tcpUp THEN MuxOpened(t) ELSE Fails(t) /\ UNCHANGED <<usedMux, muxed>>
  /\ OpenFrame

\* mux_connect(path), for a path of any mux
DialSocket(t) ==
  /\ pc[t] = "dial"
  /\ \/ listening # {} /\ MuxOpened(t)
     \/ listening # Paths /\ Fails(t) /\ UNCHANGED <<usedMux, muxed>>
  /\ OpenFrame

\* A socket file that is there is committed to, whether a mux listens or not;
\* without one connect() and try_connect() go on to USB, the others raise.
TrySocket(t) ==
  /\ pc[t] = "find"
  /\ \/ FindSocket # {} /\ FindSocket \subseteq listening /\ MuxOpened(t)
     \/ FindSocket # {} /\ ~(FindSocket \subseteq listening) /\ Fails(t)
        /\ UNCHANGED <<usedMux, muxed>>
     \/ /\ FindSocket = {}
        /\ IF job[t].entry \in {"connect", "try_connect"}
           THEN GoesOn(t, "usb") ELSE Fails(t)
        /\ UNCHANGED <<usedMux, muxed>>
  /\ OpenFrame

\* find_port(); try_connect() raises where connect() waits for a device.  What
\* was found may be gone, or refuse, when it is opened.
TryUsb(t) ==
  /\ pc[t] = "usb"
  /\ \/ usb /\ (Opened(t, "serial") \/ Fails(t))
     \/ ~usb /\ job[t].entry = "connect" /\ GoesOn(t, "wait")
     \/ ~usb /\ job[t].entry = "try_connect" /\ Fails(t)
  /\ OpenFrame /\ UNCHANGED <<usedMux, muxed>>

\* wait_for_device()
WaitForDevice(t) ==
  /\ pc[t] = "wait"
  /\ usb
  /\ Opened(t, "serial") \/ Fails(t)
  /\ OpenFrame /\ UNCHANGED <<usedMux, muxed>>

OpenPort(t) ==
  /\ pc[t] = "port"
  /\ \/ usb /\ Opened(t, "serial")
     \/ Fails(t)
  /\ OpenFrame /\ UNCHANGED <<usedMux, muxed>>

-----------------------------------------------------------------------------
(* _open_and_init and _session_on, from the Session on                     *)

BringFrame == UNCHANGED <<world, usedMux, muxed>>

\* Faulty: raises without session.close().
RefusedUnclosed(t) == Fails(t) /\ UNCHANGED leaks

\* except DongloraError, or an Info that will not do: session.close(); raise.
Refused(t) ==
  /\ transport' = [transport EXCEPT ![t] = "none"]
  /\ job' = [job EXCEPT ![t] = NoJob]
  /\ Goto(t, "idle")
  /\ UNCHANGED leaks

\* An OSError is not caught: the session stays open and nobody has it.
Escapes(t) ==
  /\ leaks < MaxLeaks
  /\ leaks' = leaks + 1
  /\ transport' = [transport EXCEPT ![t] = "none"]
  /\ job' = [job EXCEPT ![t] = NoJob]
  /\ Goto(t, "idle")

Connected(t, m) ==
  /\ job' = [job EXCEPT ![t].config = m]
  /\ Goto(t, "connected")
  /\ UNCHANGED <<transport, leaks>>

\* session.get_info(), its payload and the protocol version.
GetInfo(t) ==
  /\ pc[t] = "info"
  /\ \/ job[t].want # NoMod /\ GoesOn(t, "config") /\ UNCHANGED leaks
     \/ job[t].want = NoMod /\ Connected(t, NoMod)
     \/ Refused(t)
     \/ Escapes(t)
  /\ BringFrame

\* _prepare_config, session.set_config; applied = result.current, which
\* through a mux may be what another client set (LOCKED_MISMATCH).
Configure(t) ==
  /\ pc[t] = "config"
  /\ \/ Rejects(caps, job[t].want) /\ Refused(t)
     \/ /\ ~Rejects(caps, job[t].want)
        /\ \/ Connected(t, PrepareConfig(caps, job[t].want))
           \/ \E m \in Foreign : transport[t] = "mux" /\ Connected(t, m)
           \/ Refused(t)
           \/ Escapes(t)
  /\ BringFrame

\* The Dongle is closed, or its session dies; then old_session.close() and,
\* on a Dongle from connect(), the reopener.
Disconnects(t) ==
  /\ pc[t] = "connected"
  /\ transport' = [transport EXCEPT ![t] = "none"]
  /\ \/ Goto(t, "idle") /\ job' = [job EXCEPT ![t] = NoJob]
     \/ /\ job[t].entry \in {"connect", "port"}
        /\ job' = [job EXCEPT ![t].since = muxed, ![t].config = NoMod]
        /\ Goto(t, Start(job[t].entry))
  /\ UNCHANGED <<world, usedMux, muxed, leaks>>

-----------------------------------------------------------------------------
\* The mux and the device come and go (external).
WorldChanges ==
  /\ \/ tcpUp' = ~tcpUp /\ UNCHANGED <<socks, listening, usb>>
     \/ usb' = ~usb /\ UNCHANGED <<tcpUp, socks, listening>>
     \/ \E p \in Paths :
          \/ socks' = socks \cup {p} /\ listening' = listening \cup {p}
          \/ socks' = socks \ {p} /\ listening' = listening \ {p}
          \/ listening' = listening \ {p} /\ UNCHANGED socks
        /\ UNCHANGED <<tcpUp, usb>>
  /\ UNCHANGED <<mode, caps>>
  /\ UNCHANGED <<usedMux, muxed, pc, job, transport, leaks>>

Opens(t) ==
  \/ Select(t) \/ Poll(t) \/ TryTcp(t) \/ DialTcp(t) \/ DialSocket(t)
  \/ TrySocket(t) \/ TryUsb(t) \/ WaitForDevice(t) \/ OpenPort(t)

Next ==
  \/ \E t \in Threads :
       \/ \E e \in Entries : \E q \in Requests \cup {NoMod, DefaultReq} : Begin(t, e, q)
       \/ Opens(t) \/ GetInfo(t) \/ Configure(t) \/ Disconnects(t)
  \/ WorldChanges

Spec == Init /\ [][Next]_vars

-----------------------------------------------------------------------------
(* Properties                                                              *)

Labels ==
  {"idle", "select", "poll", "port", "tcp", "dial_tcp", "dial", "find", "usb",
   "wait", "info", "config", "connected"}

Jobs ==
  [entry : AllEntries \cup {"none"}, since : BOOLEAN, want : Modulations,
   config : Modulations]

\* Every variable has its type.
TypeOK ==
  /\ mode \in Modes /\ {tcpUp, usb, usedMux, muxed} \subseteq BOOLEAN
  /\ socks \subseteq Paths /\ listening \subseteq socks
  /\ caps \in Infos
  /\ pc \in [Threads -> Labels]
  /\ job \in [Threads -> Jobs]
  /\ transport \in [Threads -> {"none", "serial", "mux"}]
  /\ leaks \in 0..MaxLeaks

\* CHANGELOG.md:67-71: from the first mux connection on no opener called
\* without a port touches the serial port, the reopener of a Dongle that came
\* over USB included; whichever of the four ways the mux was reached.
StickyMux ==
  \A t \in Threads :
    job[t].since /\ job[t].entry # "port" =>
      pc[t] \notin {"usb", "wait"} /\ transport[t] # "serial"

\* A transport is open exactly while a session is brought up on it or a
\* Dongle has it: whatever makes a bring-up fail with a DongloraError, at
\* whichever of its steps, closes it.
HeldOrClosed ==
  \A t \in Threads :
    transport[t] # "none" <=> pc[t] \in {"info", "config", "connected"}

\* a is b, but for the power.
SameButPower(a, b) == a = [b EXCEPT !.power = a.power]

\* info's limits, as far as connect() looks at them.
Fits(i, m) ==
  m.lora => Supports(i, m) /\ i.powerMin <= m.power /\ m.power <= i.powerMax

\* The config of a new Dongle is the one asked for but for the power and
\* within the limits of the device, unless another client of a mux holds the
\* device; it is never the one asked for made to fit in any other way.
ConfigFits ==
  \A t \in Threads :
    pc[t] = "connected" /\ job[t].want # NoMod =>
      \/ SameButPower(job[t].config, job[t].want) /\ Fits(caps, job[t].config)
      \/ transport[t] = "mux" /\ job[t].config \in Foreign
=============================================================================
