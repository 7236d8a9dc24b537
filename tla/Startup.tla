------------------------------ MODULE Startup ------------------------------
(***************************************************************************)
(* The daemon's life (cmd/server.go): what `netbootd server' does from its *)
(* start to READY=1, the goroutines it leaves behind, and its end.         *)
(*                                                                         *)
(* The main goroutine binds the sockets of TFTP, HTTP, syslog and the API  *)
(* itself; the DHCP server binds its own in the goroutine that serves it.  *)
(* A failure to bind ends the process (log.Fatal calls os.Exit).           *)
(***************************************************************************)
EXTENDS Naturals, Sequences

CONSTANTS Configs,      \* configurations the daemon may be started with
          Others,       \* sets of sockets other processes may hold
          Reader, Lossy, Lines, QueueSize, Strings      \* see Syslog

VARIABLES conf,         \* the configuration
          busy,         \* sockets of other processes
          alive,        \* the process runs
          pc,           \* the main goroutine's next step
          loaded,       \* the manifest directory has been read
          hints,        \* Store.GlobalHints is set
          bound,        \* sockets of this process
          started,      \* services whose goroutine was started
          serving,      \* services whose goroutine serves requests
          ready,        \* systemd was told READY=1
          sent, queue, handling, logged                 \* see Syslog

L == INSTANCE Syslog

lines == <<sent, queue, handling, logged>>
process == <<conf, busy, alive, pc, loaded, hints, bound, started, serving, ready>>
vars == <<conf, busy, alive, pc, loaded, hints, bound, started, serving, ready,
          sent, queue, handling, logged>>

Services == {"dhcp", "tftp", "http", "syslog", "api"}

\* conf.dir: --manifests is not given, names a directory, or one that cannot
\* be read; conf.address: --address can be parsed; conf.cert, conf.key: the
\* TLS files are configured; conf.tls: they can be used.
Sockets ==
  [tftp |-> <<"udp", 69>>, http |-> <<"tcp", conf.http>>,
   syslogUDP |-> <<"udp", conf.syslog>>, syslogTCP |-> <<"tcp", conf.syslog>>,
   api |-> <<"tcp", conf.api>>]

\* Mutant of Steps: the DHCP server is started first.
StepsDhcpFirst ==
  <<"dhcp", "load", "hints", "tftp", "http", "syslogUDP", "syslogTCP", "api",
    "notify", "wait">>

\* The order of the main goroutine's steps.
Steps ==
  <<"load", "hints", "dhcp", "tftp", "http", "syslogUDP", "syslogTCP", "api",
    "notify", "wait">>

-----------------------------------------------------------------------------
(* The main goroutine *)

At(step) == alive /\ Steps[pc] = step
Advance == pc' = pc + 1

\* The process ends, with all its goroutines and sockets.
Exit ==
  /\ alive' = FALSE
  /\ pc' = 1
  /\ loaded' = FALSE
  /\ hints' = FALSE
  /\ bound' = {}
  /\ started' = {}
  /\ serving' = {}
  /\ ready' = FALSE
  /\ L!Reset
  /\ UNCHANGED <<conf, busy>>

\* A manifest directory that cannot be read is fatal; single files are not
\* (see Store!LoadFile).
Load ==
  /\ At("load")
  /\ \/ conf.dir = "unreadable" /\ Exit
     \/ /\ conf.dir # "unreadable"
        /\ loaded' = TRUE
        /\ Advance
        /\ UNCHANGED <<conf, busy, alive, hints, bound, started, serving, ready, lines>>

SetHints ==
  /\ At("hints")
  /\ hints' = TRUE
  /\ Advance
  /\ UNCHANGED <<conf, busy, alive, loaded, bound, started, serving, ready, lines>>

\* NewServer parses the address.
NewDhcpServer(c) == c.address

\* The second test of the address, behind it, cannot fail any more.
StartDhcp ==
  /\ At("dhcp")
  /\ \/ ~NewDhcpServer(conf) /\ Exit
     \/ /\ NewDhcpServer(conf)
        /\ started' = started \cup {"dhcp"}
        /\ Advance
        /\ UNCHANGED <<conf, busy, alive, loaded, hints, bound, serving, ready, lines>>

CanBind(s) == s \notin busy \cup bound

\* Mutant of Listen: the error is only logged.
ListenLogs(step, svcs) ==
  /\ At(step)
  /\ bound' = bound \cup (IF CanBind(Sockets[step]) THEN {Sockets[step]} ELSE {})
  /\ started' = started \cup svcs
  /\ Advance
  /\ UNCHANGED <<conf, busy, alive, loaded, hints, serving, ready, lines>>

\* Bind, or exit; then start the goroutines of svcs.
Listen(step, svcs) ==
  /\ At(step)
  /\ \/ ~CanBind(Sockets[step]) /\ Exit
     \/ /\ CanBind(Sockets[step])
        /\ bound' = bound \cup {Sockets[step]}
        /\ started' = started \cup svcs
        /\ Advance
        /\ UNCHANGED <<conf, busy, alive, loaded, hints, serving, ready, lines>>

ListenTftp == Listen("tftp", {"tftp"})
ListenHttp == Listen("http", {"http"})
ListenSyslogUDP == Listen("syslogUDP", {})
ListenSyslogTCP == Listen("syslogTCP", {"syslog"})

\* Without TLS two goroutines call Serve on the API's listener; either one
\* accepts connections for it, so one of them is modelled.
ListenApi == Listen("api", {"api"})

Notify ==
  /\ At("notify")
  /\ ready' = TRUE
  /\ Advance
  /\ UNCHANGED <<conf, busy, alive, loaded, hints, bound, started, serving, lines>>

\* SIGINT: its default action, or the end of the main goroutine's wait.
Interrupt ==
  /\ alive
  /\ Exit

-----------------------------------------------------------------------------
(* The goroutines of the services *)

Serving(svc) ==
  /\ serving' = serving \cup {svc}
  /\ UNCHANGED <<conf, busy, alive, pc, loaded, hints, bound, started, ready, lines>>

Serve(svc) ==
  /\ alive
  /\ svc \in ({"tftp", "http", "syslog"} \cap started) \ serving
  /\ Serving(svc)

\* The DHCP socket, its interface and its control messages.
DhcpServe ==
  /\ alive
  /\ "dhcp" \in started \ serving
  /\ Serving("dhcp")

\* Mutant of DhcpServeFails: the error is only logged.
DhcpServeFailsLogged ==
  /\ alive
  /\ "dhcp" \in started \ serving
  /\ started' = started \ {"dhcp"}
  /\ UNCHANGED <<conf, busy, alive, pc, loaded, hints, bound, serving, ready, lines>>

DhcpServeFails ==
  /\ alive
  /\ "dhcp" \in started \ serving
  /\ Exit

UsesTLS(c) == c.cert /\ c.key

\* TLS files that cannot be used: ServeTLS returns, its error is logged, and
\* the API's socket stays open with nobody to accept connections.
ApiWorks(c) == UsesTLS(c) => c.tls

ApiServe ==
  /\ alive
  /\ "api" \in started \ serving
  /\ ApiWorks(conf)
  /\ Serving("api")

-----------------------------------------------------------------------------
(* Syslog, and starting the daemon *)

\* Sockets take lines as soon as they are bound, Serve comes later.
Behind(step) == \E i \in 1..(pc - 1) : Steps[i] = step
SyslogArrive(r) ==
  /\ alive
  /\ Behind(IF r \in Lossy THEN "syslogUDP" ELSE "syslogTCP")
  /\ L!Arrive(r)
  /\ UNCHANGED process

SyslogReceive(r) ==
  /\ alive
  /\ "syslog" \in serving
  /\ L!Receive(r)
  /\ UNCHANGED process

SyslogHandle ==
  /\ alive
  /\ L!syslogHandleLog
  /\ UNCHANGED process

\* The unit file has no Restart=: somebody starts the daemon again.
Start ==
  /\ ~alive
  /\ alive' = TRUE
  /\ busy' \in Others
  /\ UNCHANGED <<conf, pc, loaded, hints, bound, started, serving, ready, lines>>

Init ==
  /\ conf \in Configs
  /\ busy \in Others
  /\ alive = TRUE
  /\ pc = 1
  /\ loaded = FALSE /\ hints = FALSE /\ ready = FALSE
  /\ bound = {} /\ started = {} /\ serving = {}
  /\ L!Init

Main ==
  \/ Load \/ SetHints \/ StartDhcp
  \/ ListenTftp \/ ListenHttp \/ ListenSyslogUDP \/ ListenSyslogTCP \/ ListenApi
  \/ Notify

Dhcp == DhcpServe \/ DhcpServeFails

Next ==
  \/ Main
  \/ \E svc \in Services : Serve(svc)
  \/ Dhcp
  \/ ApiServe
  \/ \E r \in Reader : SyslogArrive(r) \/ SyslogReceive(r)
  \/ SyslogHandle
  \/ Interrupt
  \/ Start

Spec == Init /\ [][Next]_vars

\* Goroutines run; nobody has to send lines, interrupt the daemon or start it.
\* Go queues the goroutines that wait to send on a channel, first come first
\* served, so no reader is passed over for ever.
FairSpec ==
  /\ Spec
  /\ WF_vars(Main)
  /\ \A svc \in Services : WF_vars(Serve(svc))
  /\ WF_vars(Dhcp)
  /\ WF_vars(ApiServe)
  /\ \A r \in Reader : SF_vars(SyslogReceive(r))
  /\ WF_vars(SyslogHandle)

-----------------------------------------------------------------------------
(* Properties *)

\* No service can answer from a store that is not loaded, and GlobalHints,
\* which the file servers read without a lock, is not written once they run.
LoadedFirst == started # {} => loaded /\ hints

\* READY=1 is only sent by a process that has read its manifests, holds the
\* sockets of TFTP, HTTP, syslog and the API, one for each, and has started
\* every service.
ReadyMeansBound ==
  ready => /\ loaded
           /\ started = Services
           /\ \A s \in DOMAIN Sockets : Sockets[s] \in bound
           /\ \A s, t \in DOMAIN Sockets : s # t => Sockets[s] # Sockets[t]

\* A daemon that is started comes up with all of its services or exits, DHCP
\* included although READY=1 does not wait for its socket; it does not linger
\* in between, whatever the configuration and whichever ports are taken.  Only
\* the API has no fatal error once its socket is bound: a certificate and a
\* key that are both given but cannot be used leave the daemon without it.
ComesUpOrExits ==
  \A c \in Configs :
    LET expected == IF c.cert /\ c.key /\ ~c.tls THEN Services \ {"api"} ELSE Services
    IN (alive /\ conf = c) ~> (~alive \/ (ready /\ expected \subseteq serving))

\* Of each sender lines are logged in the order they arrived in, each once and
\* with its text.
LoggedInOrder ==
  \A r \in Reader : \A i, j \in 1..Len(logged[r]) :
    /\ i < j => logged[r][i].line < logged[r][j].line
    /\ LET texts == L!Texts(Lines[r][logged[r][i].line])
       IN texts # {} /\ "" \notin texts => logged[r][i].msg \in texts

\* A line that found room is logged, unless the daemon ends before.
EveryLineLogged ==
  \A r \in Reader : \A n \in 1..Len(Lines[r]) :
    (\E i \in 1..Len(queue[r]) : queue[r][i] = n)
      ~> (~alive \/ \E i \in 1..Len(logged[r]) : logged[r][i].line = n)
=============================================================================
