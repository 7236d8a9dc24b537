--------------------------- MODULE StartupProofs ---------------------------
(***************************************************************************)
(* Proofs about Startup, for every set of configurations, whichever        *)
(* sockets other processes hold, and every stream of syslog lines.         *)
(***************************************************************************)
EXTENDS Startup, SequenceTheorems, TLAPS

-----------------------------------------------------------------------------
(* How far the main goroutine is tells what it has done *)

\* The places in Steps that bind a socket, and that start a service.
SocketStep == [tftp |-> 4, http |-> 5, syslogUDP |-> 6, syslogTCP |-> 7, api |-> 8]
ServiceStep == [dhcp |-> 3, tftp |-> 4, http |-> 5, syslog |-> 7, api |-> 8]

Passed == {s \in DOMAIN SocketStep : SocketStep[s] < pc}

Progress ==
  /\ pc \in 1..10
  /\ pc > 1 => loaded
  /\ pc > 2 => hints
  /\ ready => pc > 9
  /\ started = {s \in Services : ServiceStep[s] < pc}
  /\ bound = {Sockets[s] : s \in Passed}
  /\ \A s, t \in Passed : s # t => Sockets[s] # Sockets[t]

LEMMA StepNumbers ==
  ASSUME NEW i \in 1..10
  PROVE  /\ Steps[i] = "load" <=> i = 1
         /\ Steps[i] = "hints" <=> i = 2
         /\ Steps[i] = "dhcp" <=> i = 3
         /\ \A s \in DOMAIN SocketStep : Steps[i] = s <=> i = SocketStep[s]
         /\ Steps[i] = "notify" <=> i = 9
  BY DEF Steps, SocketStep

\* The end of the process, and the start of a new one.
LEMMA ExitProgress == Exit => Progress'
<1> SUFFICES ASSUME Exit PROVE Progress'
  OBVIOUS
<1>1. Passed' = {} /\ pc' = 1
  BY DEF Exit, Passed, SocketStep
<1>2. started' = {s \in Services : ServiceStep[s] < pc'}
  BY <1>1 DEF Exit, ServiceStep, Services
<1> QED BY <1>1, <1>2 DEF Exit, Progress

\* A step that binds a socket and starts svcs, in its place.
LEMMA ListenProgress ==
  ASSUME Progress, NEW step \in DOMAIN SocketStep, NEW svcs,
         svcs = {s \in Services : ServiceStep[s] = SocketStep[step]},
         Listen(step, svcs)
  PROVE  Progress'
<1>1. CASE ~CanBind(Sockets[step]) /\ Exit
  BY <1>1, ExitProgress
<1>2. CASE ~(~CanBind(Sockets[step]) /\ Exit)
  <2>1. /\ CanBind(Sockets[step])
        /\ bound' = bound \cup {Sockets[step]}
        /\ started' = started \cup svcs
        /\ pc' = pc + 1
        /\ UNCHANGED <<conf, loaded, hints, ready>>
    BY <1>2 DEF Listen, Advance
  <2>2. pc = SocketStep[step] /\ pc \in 4..8 /\ Steps[pc] = step
    BY StepNumbers DEF Listen, At, Progress, SocketStep
  <2>3. Passed' = Passed \cup {step} /\ step \notin Passed
    BY <2>1, <2>2 DEF Passed, SocketStep
  <2>4. Sockets' = Sockets
    BY <2>1 DEF Sockets
  <2>5. bound' = {Sockets'[s] : s \in Passed'}
    BY <2>1, <2>3, <2>4 DEF Progress
  <2>6. \A s, t \in Passed' : s # t => Sockets'[s] # Sockets'[t]
    BY <2>1, <2>3, <2>4 DEF Progress, CanBind
  <2>7. started' = {s \in Services : ServiceStep[s] < pc'}
    BY <2>1, <2>2 DEF Progress, ServiceStep, Services
  <2>8. /\ pc' \in 1..10
        /\ pc' > 1 => loaded'
        /\ pc' > 2 => hints'
        /\ ready' => pc' > 9
    BY <2>1, <2>2 DEF Progress
  <2> QED BY <2>5, <2>6, <2>7, <2>8 DEF Progress
<1> QED BY <1>1, <1>2

\* A step that neither binds a socket nor moves the main goroutine.
LEMMA SameProgress ==
  ASSUME Progress, UNCHANGED <<conf, pc, loaded, hints, bound, started, ready>>
  PROVE  Progress'
<1>1. Passed' = Passed /\ Sockets' = Sockets
  BY DEF Passed, Sockets
<1> QED BY <1>1 DEF Progress

LEMMA InitProgress == Init => Progress
<1> SUFFICES ASSUME Init PROVE Progress
  OBVIOUS
<1>1. Passed = {}
  BY DEF Init, Passed, SocketStep
<1>2. started = {s \in Services : ServiceStep[s] < pc}
  BY DEF Init, ServiceStep, Services
<1> QED BY <1>1, <1>2 DEF Init, Progress

LEMMA NextProgress == Progress /\ [Next]_vars => Progress'
<1> SUFFICES ASSUME Progress, [Next]_vars PROVE Progress'
  OBVIOUS
<1>1. ASSUME pc \in {1, 2, 3, 9}, pc' = pc + 1, UNCHANGED <<conf, bound>>
      PROVE  /\ bound' = {Sockets'[s] : s \in Passed'}
             /\ \A s, t \in Passed' : s # t => Sockets'[s] # Sockets'[t]
  <2>1. Passed' = Passed /\ Sockets' = Sockets
    BY <1>1 DEF Passed, Sockets, SocketStep
  <2> QED BY <1>1, <2>1 DEF Progress
<1>2. CASE Load
  <2>1. pc = 1
    BY <1>2, StepNumbers DEF Load, At, Progress
  <2>2. CASE Exit
    BY <2>2, ExitProgress
  <2>3. CASE ~Exit
    <3>1. /\ pc' = pc + 1 /\ loaded' = TRUE
          /\ UNCHANGED <<conf, hints, bound, started, ready>>
      BY <1>2, <2>3 DEF Load, Advance
    <3>2. started' = {s \in Services : ServiceStep[s] < pc'}
      BY <2>1, <3>1 DEF Progress, ServiceStep, Services
    <3> QED BY <1>1, <2>1, <3>1, <3>2 DEF Progress
  <2> QED BY <2>2, <2>3
<1>3. CASE SetHints
  <2>1. pc = 2
    BY <1>3, StepNumbers DEF SetHints, At, Progress
  <2>2. /\ pc' = pc + 1 /\ hints' = TRUE
        /\ UNCHANGED <<conf, loaded, bound, started, ready>>
    BY <1>3 DEF SetHints, Advance
  <2>3. started' = {s \in Services : ServiceStep[s] < pc'}
    BY <2>1, <2>2 DEF Progress, ServiceStep, Services
  <2> QED BY <1>1, <2>1, <2>2, <2>3 DEF Progress
<1>4. CASE StartDhcp
  <2>1. pc = 3
    BY <1>4, StepNumbers DEF StartDhcp, At, Progress
  <2>2. CASE Exit
    BY <2>2, ExitProgress
  <2>3. CASE ~Exit
    <3>1. /\ pc' = pc + 1 /\ started' = started \cup {"dhcp"}
          /\ UNCHANGED <<conf, loaded, hints, bound, ready>>
      BY <1>4, <2>3 DEF StartDhcp, Advance
    <3>2. started' = {s \in Services : ServiceStep[s] < pc'}
      BY <2>1, <3>1 DEF Progress, ServiceStep, Services
    <3>3. pc' \in 1..10 /\ loaded' /\ hints' /\ ~ready'
      BY <2>1, <3>1 DEF Progress
    <3> QED BY <1>1, <2>1, <3>1, <3>2, <3>3 DEF Progress
  <2> QED BY <2>2, <2>3
<1>5. CASE ListenTftp \/ ListenHttp \/ ListenSyslogUDP \/ ListenSyslogTCP \/ ListenApi
  <2> DEFINE Started(step) == {s \in Services : ServiceStep[s] = SocketStep[step]}
  <2>1. /\ Started("tftp") = {"tftp"}
        /\ Started("http") = {"http"}
        /\ Started("syslogUDP") = {}
        /\ Started("syslogTCP") = {"syslog"}
        /\ Started("api") = {"api"}
    BY DEF Services, ServiceStep, SocketStep
  <2>2. \E step \in DOMAIN SocketStep : Listen(step, Started(step))
    BY <1>5, <2>1 DEF ListenTftp, ListenHttp, ListenSyslogUDP, ListenSyslogTCP,
                      ListenApi, SocketStep
  <2> QED BY <2>2, ListenProgress
<1>6. CASE Notify
  <2>1. pc = 9
    BY <1>6, StepNumbers DEF Notify, At, Progress
  <2>2. /\ pc' = pc + 1 /\ ready' = TRUE
        /\ UNCHANGED <<conf, loaded, hints, bound, started>>
    BY <1>6 DEF Notify, Advance
  <2>3. started' = {s \in Services : ServiceStep[s] < pc'}
    BY <2>1, <2>2 DEF Progress, ServiceStep, Services
  <2>4. pc' = 10 /\ loaded' /\ hints'
    BY <2>1, <2>2 DEF Progress
  <2> QED BY <1>1, <2>1, <2>2, <2>3, <2>4 DEF Progress
<1>7. ASSUME NEW svc \in Services, Serve(svc) PROVE Progress'
  BY <1>7, SameProgress DEF Serve, Serving
<1>8. CASE Dhcp \/ ApiServe
  BY <1>8, SameProgress, ExitProgress DEF Dhcp, DhcpServe, DhcpServeFails, ApiServe, Serving
<1>9. ASSUME NEW r \in Reader, SyslogArrive(r) \/ SyslogReceive(r) PROVE Progress'
  BY <1>9, SameProgress DEF SyslogArrive, SyslogReceive, process
<1>10. CASE SyslogHandle \/ Start
  BY <1>10, SameProgress DEF SyslogHandle, Start, process
<1>11. CASE Interrupt
  BY <1>11, ExitProgress DEF Interrupt
<1>12. CASE UNCHANGED vars
  BY <1>12, SameProgress DEF vars
<1> QED BY <1>2, <1>3, <1>4, <1>5, <1>6, <1>7, <1>8, <1>9, <1>10, <1>11, <1>12
        DEF Next, Main

LEMMA ProgressHolds == Spec => []Progress
BY InitProgress, NextProgress, PTL DEF Spec

\* No service runs before the manifest directory has been read and GlobalHints
\* is set, in every configuration and after every restart.
THEOREM ServicesAfterLoad == Spec => []LoadedFirst
<1>1. Progress => LoadedFirst
  BY DEF Progress, LoadedFirst, ServiceStep, Services
<1> QED BY <1>1, ProgressHolds, PTL

\* READY=1 tells that the manifests are loaded, every service was started and
\* each of the five sockets is held, whatever ports are configured or taken.
THEOREM ReadyIsHonest == Spec => []ReadyMeansBound
<1>1. Progress => ReadyMeansBound
  <2> SUFFICES ASSUME Progress, ready PROVE ReadyMeansBound
    BY DEF ReadyMeansBound
  <2>1. pc = 10
    BY DEF Progress
  <2>2. Passed = DOMAIN Sockets
    BY <2>1 DEF Passed, SocketStep, Sockets
  <2>3. started = Services
    BY <2>1 DEF Progress, ServiceStep, Services
  <2> QED BY <2>1, <2>2, <2>3 DEF Progress, ReadyMeansBound
<1> QED BY <1>1, ProgressHolds, PTL

-----------------------------------------------------------------------------
(* A line passes from its socket over the channel to the log, in order *)

Entry == [line : Nat, msg : Strings \cup {"UNKNOWN"}]

LinesType ==
  /\ sent \in [Reader -> Nat]
  /\ queue \in [Reader -> Seq(Nat)]
  /\ logged \in [Reader -> Seq(Entry)]
  /\ handling \in SUBSET [from : Reader, line : Nat]

\* What waits is newer than line n of reader r; what is logged is older.
Waiting(r, n) == \A i \in 1..Len(queue[r]) : n < queue[r][i]
Done(r, n) == \A i \in 1..Len(logged[r]) : logged[r][i].line < n

\* The lines of r that are logged and those that wait, in their order.
InOrder(r) ==
  /\ \A i, j \in 1..Len(queue[r]) : i < j => queue[r][i] < queue[r][j]
  /\ \A i \in 1..Len(queue[r]) : queue[r][i] <= sent[r] /\ Done(r, queue[r][i])
  /\ \A i, j \in 1..Len(logged[r]) : i < j => logged[r][i].line < logged[r][j].line
  /\ \A i \in 1..Len(logged[r]) :
       /\ logged[r][i].line <= sent[r]
       /\ logged[r][i].msg \in L!Messages(Lines[r][logged[r][i].line])

\* The one line syslogHandleLog is working on is between them.
Between(h) ==
  /\ h.line <= sent[h.from]
  /\ Done(h.from, h.line)
  /\ Waiting(h.from, h.line)

Flow ==
  /\ LinesType
  /\ \A r \in Reader : InOrder(r)
  /\ \A h \in handling : Between(h)
  /\ \A g, h \in handling : g = h

LEMMA LineNumbers ==
  ASSUME LinesType, NEW r \in Reader
  PROVE  /\ sent[r] \in Nat
         /\ queue[r] \in Seq(Nat) /\ Len(queue[r]) \in Nat
         /\ \A i \in 1..Len(queue[r]) : queue[r][i] \in Nat
         /\ logged[r] \in Seq(Entry) /\ Len(logged[r]) \in Nat
         /\ \A i \in 1..Len(logged[r]) : logged[r][i].line \in Nat
<1>1. /\ sent[r] \in Nat
      /\ queue[r] \in Seq(Nat) /\ Len(queue[r]) \in Nat
      /\ logged[r] \in Seq(Entry) /\ Len(logged[r]) \in Nat
  BY DEF LinesType
<1>2. \A i \in 1..Len(queue[r]) : queue[r][i] \in Nat
  BY <1>1, ElementOfSeq
<1>3. \A i \in 1..Len(logged[r]) : logged[r][i] \in Entry
  BY <1>1, ElementOfSeq
<1>4. \A i \in 1..Len(logged[r]) : logged[r][i].line \in Nat
  BY <1>3 DEF Entry
<1> QED BY <1>1, <1>2, <1>4

LEMMA ResetFlow == L!Reset => Flow'
BY DEF L!Reset, Flow, LinesType, InOrder, Between

LEMMA SameFlow == Flow /\ UNCHANGED lines => Flow'
BY DEF lines, Flow, LinesType, InOrder, Between, Waiting, Done

\* A line of r that is logged or waits stays in its place when others arrive.
LEMMA ArriveFlow ==
  ASSUME Flow, NEW r \in Reader, L!Arrive(r)
  PROVE  Flow'
<1> DEFINE n == sent[r] + 1
           q == queue[r]
<1>0. LinesType
  BY DEF Flow
<1>1. /\ sent' = [sent EXCEPT ![r] = n] /\ n \in Nat /\ sent[r] \in Nat
      /\ UNCHANGED <<handling, logged>>
  BY DEF L!Arrive, Flow, LinesType
<1>2. queue' = queue \/ queue' = [queue EXCEPT ![r] = Append(q, n)]
  BY <1>1 DEF L!Arrive, Flow, LinesType
<1>3. \A s \in Reader : sent[s] <= sent'[s] /\ sent'[s] \in Nat /\ sent[s] \in Nat
  BY <1>1 DEF Flow, LinesType
<1>4. sent'[r] = n /\ sent[r] < n
  BY <1>1, <1>3 DEF Flow, LinesType
<1> HIDE DEF n, q
<1>5. ASSUME NEW s \in Reader, queue'[s] = queue[s] PROVE InOrder(s)'
  <2>1. InOrder(s)
    BY DEF Flow
  <2>2. \A i \in 1..Len(queue[s]) : queue[s][i] <= sent'[s]
    <3> SUFFICES ASSUME NEW i \in 1..Len(queue[s]) PROVE queue[s][i] <= sent'[s]
      OBVIOUS
    <3>1. queue[s][i] <= sent[s]
      BY <2>1 DEF InOrder
    <3>2. queue[s][i] \in Nat
      BY <1>0, LineNumbers
    <3> QED BY <1>3, <3>1, <3>2
  <2>3. \A i \in 1..Len(logged[s]) : logged[s][i].line <= sent'[s]
    <3> SUFFICES ASSUME NEW i \in 1..Len(logged[s]) PROVE logged[s][i].line <= sent'[s]
      OBVIOUS
    <3>1. logged[s][i].line <= sent[s]
      BY <2>1 DEF InOrder
    <3>2. logged[s][i].line \in Nat
      BY <1>0, LineNumbers
    <3> QED BY <1>3, <3>1, <3>2
  <2> QED BY <1>1, <1>5, <2>1, <2>2, <2>3 DEF InOrder, Done
<1>6. ASSUME NEW h \in handling, queue'[h.from] = queue[h.from] PROVE Between(h)'
  <2>1. h.from \in Reader /\ h.line \in Nat /\ Between(h)
    BY <1>0 DEF Flow, LinesType
  <2>2. h.line <= sent'[h.from]
    BY <1>3, <2>1 DEF Between
  <2> QED BY <1>1, <1>6, <2>1, <2>2 DEF Between, Done, Waiting
<1>7. CASE queue' = queue
  <2>1. LinesType'
    BY <1>0, <1>1, <1>7 DEF LinesType
  <2> QED BY <1>1, <1>5, <1>6, <1>7, <2>1 DEF Flow
<1>8. CASE queue' = [queue EXCEPT ![r] = Append(q, n)]
  <2>1. /\ q = queue[r] /\ q \in Seq(Nat) /\ queue'[r] = Append(q, n)
        /\ \A s \in Reader : s # r => queue'[s] = queue[s]
    BY <1>0, <1>8 DEF LinesType, q
  <2>2. /\ Len(queue'[r]) = Len(q) + 1 /\ Len(q) \in Nat
        /\ \A i \in 1..Len(q) : queue'[r][i] = q[i]
        /\ queue'[r][Len(q) + 1] = n
    BY <1>1, <2>1
  <2>3. LinesType'
    BY <1>0, <1>1, <1>8, <2>1 DEF LinesType
  <2>4. /\ \A i \in 1..Len(logged[r]) : logged[r][i].line \in Nat
        /\ \A i \in 1..Len(q) : q[i] \in Nat
    BY <1>0, <2>1, LineNumbers
  <2>5. InOrder(r)
    BY DEF Flow
  <2>6. \A i \in 1..Len(logged[r]) : logged[r][i].line < n
    BY <1>1, <1>4, <2>4, <2>5 DEF InOrder
  <2>7. \A i \in 1..Len(q) : q[i] < n
    <3> SUFFICES ASSUME NEW i \in 1..Len(q) PROVE q[i] < n
      OBVIOUS
    <3>1. q[i] <= sent[r] /\ q[i] \in Nat
      BY <2>1, <2>4, <2>5 DEF InOrder
    <3> QED BY <1>1, <1>4, <3>1
  <2>8. InOrder(r)'
    <3>1. \A i, j \in 1..Len(queue'[r]) : i < j => queue'[r][i] < queue'[r][j]
      <4> SUFFICES ASSUME NEW i \in 1..(Len(q) + 1), NEW j \in 1..(Len(q) + 1), i < j
                   PROVE  queue'[r][i] < queue'[r][j]
        BY <2>2
      <4>1. CASE j = Len(q) + 1
        BY <2>2, <2>7, <4>1
      <4>2. CASE j # Len(q) + 1
        BY <2>1, <2>2, <2>5, <4>2 DEF InOrder
      <4> QED BY <4>1, <4>2
    <3>2. \A i \in 1..Len(queue'[r]) : queue'[r][i] <= sent'[r]
      <4> SUFFICES ASSUME NEW i \in 1..(Len(q) + 1)
                   PROVE  queue'[r][i] <= n
        BY <1>4, <2>2
      <4> QED BY <1>1, <2>2, <2>4, <2>7
    <3>3. \A i \in 1..Len(queue'[r]) : Done(r, queue'[r][i])
      <4> SUFFICES ASSUME NEW i \in 1..(Len(q) + 1)
                   PROVE  Done(r, queue'[r][i])
        BY <2>2
      <4> QED BY <2>1, <2>2, <2>5, <2>6 DEF InOrder, Done
    <3>4. \A i \in 1..Len(logged[r]) : logged[r][i].line <= sent'[r]
      BY <1>3, <2>4, <2>5 DEF InOrder
    <3> QED BY <1>1, <2>5, <3>1, <3>2, <3>3, <3>4 DEF InOrder, Done
  <2>9. ASSUME NEW h \in handling, h.from = r PROVE Between(h)'
    <3>1. h.line \in Nat /\ Between(h)
      BY <1>0 DEF Flow, LinesType
    <3>2. h.line < n
      BY <1>1, <1>4, <2>9, <3>1 DEF Between
    <3>3. Waiting(r, h.line)'
      <4> SUFFICES ASSUME NEW i \in 1..(Len(q) + 1)
                   PROVE  h.line < queue'[r][i]
        BY <2>2 DEF Waiting
      <4> QED BY <2>1, <2>2, <2>9, <3>1, <3>2 DEF Between, Waiting
    <3>4. Done(r, h.line)'
      BY <1>1, <2>9, <3>1 DEF Between, Done
    <3>5. h.line <= sent'[r]
      BY <1>1, <1>4, <3>1, <3>2
    <3> QED BY <2>9, <3>3, <3>4, <3>5 DEF Between
  <2>10. \A h \in handling : h.from \in Reader
    BY <1>0 DEF LinesType
  <2> QED BY <1>1, <1>5, <1>6, <2>1, <2>3, <2>8, <2>9, <2>10 DEF Flow
<1> QED BY <1>2, <1>7, <1>8

LEMMA ReceiveFlow ==
  ASSUME Flow, NEW r \in Reader, L!Receive(r)
  PROVE  Flow'
<1> DEFINE q == queue[r]
<1>1. q \in Seq(Nat) /\ q # <<>>
  BY DEF L!Receive, Flow, LinesType
<1>2. /\ Len(q) \in Nat /\ Len(q) > 0
      /\ Tail(q) \in Seq(Nat) /\ Len(Tail(q)) = Len(q) - 1
      /\ \A i \in 1..(Len(q) - 1) : Tail(q)[i] = q[i + 1]
      /\ Head(q) = q[1] /\ q[1] \in Nat
  BY <1>1
<1>3. /\ handling' = {[from |-> r, line |-> q[1]]}
      /\ queue' = [queue EXCEPT ![r] = Tail(q)]
      /\ UNCHANGED <<sent, logged>>
  BY <1>2 DEF L!Receive
<1>4. LinesType'
  BY <1>2, <1>3 DEF Flow, LinesType
<1>5. /\ Len(queue'[r]) = Len(q) - 1
      /\ \A i \in 1..(Len(q) - 1) : queue'[r][i] = q[i + 1]
  BY <1>2, <1>3 DEF Flow, LinesType
<1> HIDE DEF q
<1>6. /\ InOrder(r) /\ queue[r] = q
      /\ \A i \in 1..Len(q) : q[i] \in Nat
  BY <1>1, ElementOfSeq DEF Flow, q
<1>7. InOrder(r)'
  <2>1. \A i \in 1..(Len(q) - 1) : i + 1 \in 1..Len(q)
    BY <1>2
  <2>2. \A i, j \in 1..Len(queue'[r]) : i < j => queue'[r][i] < queue'[r][j]
    <3> SUFFICES ASSUME NEW i \in 1..(Len(q) - 1), NEW j \in 1..(Len(q) - 1), i < j
                 PROVE  q[i + 1] < q[j + 1]
      BY <1>5
    <3>1. i + 1 < j + 1
      BY <1>2
    <3> QED BY <1>6, <2>1, <3>1 DEF InOrder
  <2>3. \A i \in 1..Len(queue'[r]) : queue'[r][i] <= sent[r] /\ Done(r, queue'[r][i])
    BY <1>5, <1>6, <2>1 DEF InOrder
  <2> QED BY <1>3, <1>6, <2>2, <2>3 DEF InOrder, Done
<1>8. ASSUME NEW s \in Reader, s # r PROVE InOrder(s)'
  BY <1>3, <1>8 DEF Flow, InOrder, LinesType, Done
<1>9. PICK h : h = [from |-> r, line |-> q[1]]
  OBVIOUS
<1>10. Between(h)'
  <2>1. h.from = r /\ h.line = q[1]
    BY <1>9
  <2>2. 1 \in 1..Len(q)
    BY <1>2
  <2>3. q[1] <= sent[r] /\ Done(r, q[1])
    BY <1>6, <2>2 DEF InOrder
  <2>4. \A i \in 1..(Len(q) - 1) : i + 1 \in 1..Len(q) /\ 1 < i + 1
    BY <1>2
  <2>5. \A i \in 1..Len(queue'[r]) : q[1] < queue'[r][i]
    BY <1>5, <1>6, <2>2, <2>4 DEF InOrder
  <2> QED BY <1>3, <2>1, <2>3, <2>5 DEF Between, Done, Waiting
<1> QED BY <1>3, <1>4, <1>7, <1>8, <1>9, <1>10 DEF Flow

LEMMA HandleFlow ==
  ASSUME Flow, L!syslogHandleLog
  PROVE  Flow'
<1>0. PICK h \in handling : \E m \in L!Messages(Lines[h.from][h.line]) :
        /\ logged' = [logged EXCEPT ![h.from] = Append(@, [line |-> h.line, msg |-> m])]
        /\ handling' = handling \ {h}
        /\ UNCHANGED <<sent, queue>>
  BY DEF L!syslogHandleLog
<1>1. PICK m \in L!Messages(Lines[h.from][h.line]) :
        /\ logged' = [logged EXCEPT ![h.from] = Append(@, [line |-> h.line, msg |-> m])]
        /\ handling' = handling \ {h}
        /\ UNCHANGED <<sent, queue>>
  BY <1>0
<1> DEFINE r == h.from
           l == logged[r]
           e == [line |-> h.line, msg |-> m]
<1>2. r \in Reader /\ h.line \in Nat
  BY DEF Flow, LinesType
<1>3. e \in Entry
  BY <1>2 DEF Entry, L!Messages, L!Texts
<1>4. l \in Seq(Entry) /\ logged'[r] = Append(l, e)
  BY <1>1, <1>2 DEF Flow, LinesType
<1> HIDE DEF e
<1>5. /\ Len(logged'[r]) = Len(l) + 1 /\ Len(l) \in Nat
      /\ \A i \in 1..Len(l) : logged'[r][i] = l[i] /\ l[i] \in Entry
      /\ logged'[r][Len(l) + 1] = e
  BY <1>3, <1>4
<1>6. handling' = {}
  BY <1>1 DEF Flow
<1>7. LinesType'
  BY <1>1, <1>2, <1>3, <1>4, <1>6 DEF Flow, LinesType, e
<1>8. InOrder(r)'
  <2>1. InOrder(r) /\ Between(h) /\ logged[r] = l
    BY <1>2 DEF Flow
  <2>2. e.line = h.line /\ e.msg = m
    BY DEF e
  <2> HIDE DEF l
  <2>3. \A i, j \in 1..Len(logged'[r]) : i < j => logged'[r][i].line < logged'[r][j].line
    <3> SUFFICES ASSUME NEW i \in 1..(Len(l) + 1), NEW j \in 1..(Len(l) + 1), i < j
                 PROVE  logged'[r][i].line < logged'[r][j].line
      BY <1>5
    <3>1. i \in 1..Len(l) /\ logged'[r][i] = l[i]
      BY <1>5
    <3>2. CASE j = Len(l) + 1
      <4>1. l[i].line < h.line
        BY <2>1, <3>1 DEF Between, Done
      <4> QED BY <1>5, <2>2, <3>1, <3>2, <4>1
    <3>3. CASE j # Len(l) + 1
      <4>1. j \in 1..Len(l) /\ logged'[r][j] = l[j]
        BY <1>5, <3>3
      <4>2. l[i].line < l[j].line
        BY <2>1, <3>1, <4>1 DEF InOrder
      <4> QED BY <3>1, <4>1, <4>2
    <3> QED BY <3>2, <3>3
  <2>4. \A i \in 1..Len(logged'[r]) :
          /\ logged'[r][i].line <= sent[r]
          /\ logged'[r][i].msg \in L!Messages(Lines[r][logged'[r][i].line])
    BY <1>5, <2>1, <2>2 DEF InOrder, Between
  <2>5. \A i \in 1..Len(queue[r]) : \A k \in 1..Len(logged'[r]) :
          logged'[r][k].line < queue[r][i]
    BY <1>5, <2>1, <2>2 DEF InOrder, Between, Done, Waiting
  <2> QED BY <1>1, <2>1, <2>3, <2>4, <2>5 DEF InOrder, Done
<1>9. ASSUME NEW s \in Reader, s # r PROVE InOrder(s)'
  BY <1>1, <1>2, <1>9 DEF Flow, InOrder, LinesType, Done
<1> QED BY <1>6, <1>7, <1>8, <1>9 DEF Flow

LEMMA NextFlow == Flow /\ [Next]_vars => Flow'
<1> SUFFICES ASSUME Flow, [Next]_vars PROVE Flow'
  OBVIOUS
<1>1. ASSUME NEW r \in Reader, SyslogArrive(r) PROVE Flow'
  BY <1>1, ArriveFlow DEF SyslogArrive
<1>2. ASSUME NEW r \in Reader, SyslogReceive(r) PROVE Flow'
  BY <1>2, ReceiveFlow DEF SyslogReceive
<1>3. CASE SyslogHandle
  BY <1>3, HandleFlow DEF SyslogHandle
<1>4. CASE Exit
  BY <1>4, ResetFlow DEF Exit
<1>5. CASE Main
  BY <1>4, <1>5, SameFlow
  DEF Main, Load, SetHints, StartDhcp, ListenTftp, ListenHttp, ListenSyslogUDP,
      ListenSyslogTCP, ListenApi, Listen, Notify
<1>6. ASSUME NEW svc \in Services, Serve(svc) PROVE Flow'
  BY <1>6, SameFlow DEF Serve, Serving
<1>7. CASE Dhcp \/ ApiServe \/ Interrupt \/ Start
  BY <1>4, <1>7, SameFlow
  DEF Dhcp, DhcpServe, DhcpServeFails, ApiServe, Serving, Interrupt, Start
<1>8. CASE UNCHANGED vars
  BY <1>8, SameFlow DEF vars, lines
<1> QED BY <1>1, <1>2, <1>3, <1>5, <1>6, <1>7, <1>8 DEF Next

\* Whatever senders, queues and the order in which a Go map is walked do, the
\* log has each sender's lines in the order of their arrival, none of them
\* twice, and each with a text the line does carry.
THEOREM LinesInOrder == Spec => []LoggedInOrder
<1>1. Init => Flow
  BY DEF Init, L!Init, Flow, LinesType, InOrder, Between
<1>2. Flow => LoggedInOrder
  <2> SUFFICES ASSUME Flow, NEW r \in Reader,
                      NEW i \in 1..Len(logged[r]), NEW j \in 1..Len(logged[r])
               PROVE  /\ i < j => logged[r][i].line < logged[r][j].line
                      /\ LET texts == L!Texts(Lines[r][logged[r][i].line])
                         IN texts # {} /\ "" \notin texts => logged[r][i].msg \in texts
    BY DEF LoggedInOrder
  <2>1. InOrder(r)
    BY DEF Flow
  <2> QED BY <2>1 DEF InOrder, L!Messages
<1> QED BY <1>1, <1>2, NextFlow, PTL DEF Spec
=============================================================================
