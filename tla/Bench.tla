------------------------------- MODULE Bench -------------------------------
(***************************************************************************)
(* scripts/run_benchmarks.py with what it runs: the network emulation of   *)
(* NetemManager, the demo server started for every combination of          *)
(* algorithms, and one client after the other against it.                  *)
(*                                                                         *)
(* The server (demos/quic/server/server.c, --handshake-only) takes one     *)
(* connection at a time and waits until its handshake is complete, but the *)
(* stack below works for all connections of the port on every tick.        *)
(* A client whose handshake the network spoils is killed after the time    *)
(* limit; the server never learns of it.                                   *)
(***************************************************************************)
EXTENDS Naturals, Sequences, FiniteSets

CONSTANTS
    Combos,         \* combinations, numbered from 1
    Count,          \* handshakes to measure for each
    Emulated,       \* the loss profile is enabled
    MaxSpoilt,      \* handshakes the network spoils
    MaxInterrupts   \* KeyboardInterrupts

VARIABLES
    at,             \* what the runner is doing
    combo, iter,    \* loop counters of main and run_benchmark
    skips,          \* timeout_skips
    outputs,        \* outputs of the clients of this combination
    results,        \* what is kept for the summary
    tc, active,     \* tc commands in effect; NetemManager._active
    leaked,         \* a tc command failed or was interrupted with some in effect
    server,         \* combination -> what its server process is doing
    serving,        \* the connection that server waits for
    queue,          \* connections it has not accepted yet, oldest first
    conns,          \* connections of the port, by combination and iteration:
                    \* "open", "half" (complete at the client) or "done"
    client,         \* the client process, and whose server it finished with
    spoilt,         \* handshakes spoilt by the network, by combination and iteration
    interrupts

runner == <<at, combo, iter, skips, outputs, results>>
netem  == <<tc, active, leaked>>
stack  == <<server, serving, queue, conns>>

TcCommands == 5
Attempt == <<combo, iter>>
NoConn == <<0, 0>>
NoConns == [a \in {} |-> "open"]
NoClient == [st |-> "none", peer |-> 0]
Known == DOMAIN conns
\* The process that holds the port.
Bound(c) == server[c] \in {"accepting", "waiting"}

\* The channels a tick of the engine works for, called from
\* SSL_accept_connection or from SSL_handle_events on one connection.
Ticked == Known

Init ==
    /\ at = "netem" /\ combo = 1 /\ iter = 1 /\ skips = 0
    /\ outputs = {} /\ results = {}
    /\ tc = 0 /\ active = FALSE /\ leaked = FALSE
    /\ server = [c \in Combos |-> "off"] /\ serving = NoConn
    /\ queue = <<>> /\ conns = NoConns
    /\ client = NoClient /\ spoilt = {} /\ interrupts = 0

-----------------------------------------------------------------------------
(* NetemManager *)

\* Mutant: _active is never set.
ApplyUnmarked ==
    /\ at = "netem"
    /\ tc' = IF tc < TcCommands THEN tc + 1 ELSE tc
    /\ at' = IF tc < TcCommands THEN at ELSE "start"
    /\ UNCHANGED <<combo, iter, skips, outputs, results, active, leaked, stack, client,
                   spoilt, interrupts>>

\* One tc command; _active is set behind the last one.
Apply ==
    /\ at = "netem"
    /\ \/ /\ Emulated /\ tc < TcCommands
          /\ tc' = tc + 1
          /\ UNCHANGED <<active, at>>
       \/ /\ Emulated => tc = TcCommands
          /\ active' = Emulated
          /\ at' = "start"
          /\ UNCHANGED tc
    /\ UNCHANGED <<combo, iter, skips, outputs, results, leaked, stack, client, spoilt,
                   interrupts>>

\* A tc command fails. apply calls clear, which does nothing while _active is
\* not set, and raises.
ApplyFails ==
    /\ at = "netem" /\ Emulated /\ tc < TcCommands
    /\ at' = "clear"
    /\ leaked' = (tc # 0)
    /\ UNCHANGED <<combo, iter, skips, outputs, results, tc, active, stack, client, spoilt,
                   interrupts>>

\* The end of the with statement of main: clear does nothing unless _active.
\* A tc command that fails is not looked at, and _active reset all the same.
Clear ==
    /\ at = "clear"
    /\ \/ /\ tc' = IF active THEN 0 ELSE tc
          /\ UNCHANGED leaked
       \/ /\ active /\ leaked' = TRUE
          /\ UNCHANGED tc
    /\ active' = FALSE
    /\ at' = "exit"
    /\ UNCHANGED <<combo, iter, skips, outputs, results, stack, client, spoilt, interrupts>>

-----------------------------------------------------------------------------
(* The runner *)

\* The next combination, or behind the last one the summary and the end.
NextCombo ==
    /\ combo' = combo + 1
    /\ iter' = 1 /\ skips' = 0 /\ outputs' = {}
    /\ at' = IF combo + 1 \in Combos THEN "start" ELSE "clear"

\* A BenchmarkError of run_benchmark: the combination is skipped. With --mode
\* one the error ends the run, which is the same: there is no other combination.
Raise == NextCombo

\* generate_certificate and Popen; the runner then sleeps for half a second.
StartServer ==
    /\ at = "start"
    /\ server' = [server EXCEPT ![combo] = "booting"]
    /\ at' = "boot"
    /\ UNCHANGED <<combo, iter, skips, outputs, results, netem, serving, queue, conns,
                   client, spoilt, interrupts>>

\* generate_certificate fails.
NoCertificate ==
    /\ at = "start"
    /\ Raise
    /\ UNCHANGED <<results, netem, stack, client, spoilt, interrupts>>

\* The server exited within that time, or is taken to be ready.
Booted ==
    /\ at = "boot"
    /\ IF server[combo] = "off" THEN Raise
       ELSE at' = "iterate" /\ UNCHANGED <<combo, iter, skips, outputs>>
    /\ UNCHANGED <<results, netem, stack, client, spoilt, interrupts>>

StartClient ==
    /\ at = "iterate" /\ iter <= Count
    /\ client' = [st |-> "trying", peer |-> 0]
    /\ at' = "client"
    /\ UNCHANGED <<combo, iter, skips, outputs, results, netem, stack, spoilt, interrupts>>

\* communicate returns; the output holds a time only if the handshake was
\* complete.
Collect ==
    /\ at = "client" /\ client.st \in {"finished", "refused"}
    /\ outputs' = IF client.st = "refused" THEN outputs
                  ELSE outputs \cup {[combo |-> combo, iter |-> iter, tc |-> tc,
                                      server |-> client.peer]}
    /\ client' = NoClient
    /\ iter' = iter + 1
    /\ at' = "iterate"
    /\ UNCHANGED <<combo, skips, results, netem, stack, spoilt, interrupts>>

\* Mutant: the client is waited for without a limit.
NoTimeout == FALSE

\* HANDSHAKE_TIMEOUT_SECONDS have passed: the client is killed. They pass only
\* when the network spoils the handshake or the server has ended. The second
\* time ends the combination.
Timeout ==
    /\ at = "client" /\ client.st = "trying"
    /\ Attempt \in spoilt \/ server[combo] = "off"
    /\ client' = NoClient
    /\ skips' = skips + 1
    /\ iter' = iter + 1
    /\ at' = IF skips + 1 > 1 THEN "stop" ELSE "iterate"
    /\ UNCHANGED <<combo, outputs, results, netem, stack, spoilt, interrupts>>

\* All iterations are done.
LeaveLoop ==
    /\ at = "iterate" /\ iter > Count
    /\ at' = "stop"
    /\ UNCHANGED <<combo, iter, skips, outputs, results, netem, stack, client, spoilt, interrupts>>

\* The process of combination c is gone, and with it its connections.
Gone(c) ==
    /\ server' = [server EXCEPT ![c] = "off"]
    /\ IF Bound(c) THEN serving' = NoConn /\ queue' = <<>> /\ conns' = NoConns
       ELSE UNCHANGED <<serving, queue, conns>>

\* Mutant: the server is asked to stop and not waited for.
StopUnwaited ==
    /\ at = "stop"
    /\ results' = results \cup outputs /\ NextCombo
    /\ UNCHANGED <<netem, stack, client, spoilt, interrupts>>

\* stop_server in the finally clause: SIGINT, and SIGKILL when that is not
\* enough, each waited for. Then the combination is aborted after two
\* timeouts, fails without a time, or is kept.
Stop ==
    /\ at = "stop"
    /\ Gone(combo)
    /\ IF interrupts > 0
       THEN at' = "clear" /\ UNCHANGED <<combo, iter, skips, outputs, results>>
       ELSE IF skips > 1 \/ outputs = {} THEN Raise /\ UNCHANGED results
       ELSE results' = results \cup outputs /\ NextCombo
    /\ UNCHANGED <<netem, client, spoilt, interrupts>>

\* A KeyboardInterrupt: the finally clauses between here and main run.
\* start_server has not returned the process it waits for yet, so nothing
\* stops that one.
Interrupt ==
    /\ interrupts < MaxInterrupts
    /\ at \in {"netem", "start", "boot", "iterate", "client"}
    /\ interrupts' = interrupts + 1
    /\ at' = IF at \in {"iterate", "client"} THEN "stop" ELSE "clear"
    /\ client' = NoClient
    /\ leaked' = (at = "netem" /\ tc # 0)
    /\ UNCHANGED <<combo, iter, skips, outputs, results, tc, active, stack, spoilt>>

\* One within a finally clause leaves it: stop_server before the server was
\* asked to stop or has done so, clear before or behind its tc command.
InterruptCleanup ==
    /\ interrupts < MaxInterrupts
    /\ interrupts' = interrupts + 1
    /\ \/ /\ at = "stop" /\ at' = "clear"
          /\ Gone(combo) \/ UNCHANGED stack
          /\ UNCHANGED netem
       \/ /\ at = "clear" /\ at' = "exit"
          /\ active' = FALSE
          /\ tc' \in IF active THEN {0, tc} ELSE {tc}
          /\ leaked' = (leaked \/ (active /\ tc' # 0))
          /\ UNCHANGED stack
    /\ UNCHANGED <<combo, iter, skips, outputs, results, client, spoilt>>

-----------------------------------------------------------------------------
(* The server and its client *)

\* create_socket: bind succeeds unless another process holds the port.
Bind(c) ==
    /\ server[c] = "booting"
    /\ server' = [server EXCEPT ![c] =
                    IF \E d \in Combos : Bound(d) THEN "off" ELSE "accepting"]
    /\ UNCHANGED <<runner, netem, serving, queue, conns, client, spoilt, interrupts>>

\* The server ends at once, for a certificate it cannot load.
BootFails(c) ==
    /\ server[c] = "booting"
    /\ Gone(c)
    /\ UNCHANGED <<runner, netem, client, spoilt, interrupts>>

\* The first packet of a client makes a channel, whatever run_quic_server is
\* waiting for; it is queued for SSL_accept_connection.
Arrive ==
    /\ client.st = "trying" /\ Attempt \notin Known
    /\ \E c \in Combos : Bound(c)
    /\ conns' = [a \in Known \cup {Attempt} |-> IF a = Attempt THEN "open" ELSE conns[a]]
    /\ queue' = Append(queue, Attempt)
    /\ UNCHANGED <<runner, netem, server, serving, client, spoilt, interrupts>>

\* Nobody listens on the port.
Refused ==
    /\ client.st = "trying"
    /\ ~\E c \in Combos : Bound(c)
    /\ client' = [client EXCEPT !.st = "refused"]
    /\ UNCHANGED <<runner, netem, stack, spoilt, interrupts>>

\* The network drops so much that the handshake will not end in time, or, when
\* the client has ended, its last flight never arrives.
Spoil ==
    /\ at = "client" /\ Emulated
    /\ Attempt \notin spoilt /\ Cardinality(spoilt) < MaxSpoilt
    /\ spoilt' = spoilt \cup {Attempt}
    /\ UNCHANGED <<runner, netem, stack, client, interrupts>>

\* The client has the server's flight and prints its time.
ClientFinishes ==
    /\ client.st = "trying" /\ Attempt \in Ticked \ spoilt
    /\ \E c \in Combos : Bound(c) /\ client' = [st |-> "finished", peer |-> c]
    /\ conns' = [conns EXCEPT ![Attempt] = "half"]
    /\ UNCHANGED <<runner, netem, server, serving, queue, spoilt, interrupts>>

\* The client's last flight arrives at the server, maybe after it ended.
ServerFinishes(a) ==
    /\ a \in Ticked \ spoilt /\ conns[a] = "half"
    /\ conns' = [conns EXCEPT ![a] = "done"]
    /\ UNCHANGED <<runner, netem, server, serving, queue, client, spoilt, interrupts>>

\* Mutant: the connection stays at the head of the queue.
AcceptPeeking(c) ==
    /\ server[c] = "accepting" /\ queue # <<>>
    /\ server' = [server EXCEPT ![c] = "waiting"]
    /\ serving' = Head(queue)
    /\ UNCHANGED <<runner, netem, queue, conns, client, spoilt, interrupts>>

\* SSL_accept_connection returns the oldest connection.
Accept(c) ==
    /\ server[c] = "accepting" /\ queue # <<>>
    /\ server' = [server EXCEPT ![c] = "waiting"]
    /\ serving' = Head(queue)
    /\ queue' = Tail(queue)
    /\ UNCHANGED <<runner, netem, conns, client, spoilt, interrupts>>

\* SSL_is_init_finished: the connection is shut down and freed; when the
\* shutdown fails the server ends.
Served(c) ==
    /\ server[c] = "waiting" /\ conns[serving] = "done"
    /\ \/ /\ server' = [server EXCEPT ![c] = "accepting"]
          /\ serving' = NoConn
          /\ UNCHANGED <<queue, conns>>
       \/ Gone(c)
    /\ UNCHANGED <<runner, netem, client, spoilt, interrupts>>

Runner ==
    \/ Apply \/ Clear \/ StartServer \/ Booted \/ StartClient \/ Collect \/ LeaveLoop \/ Stop
    \/ Timeout
Server == \/ \E c \in Combos : Bind(c) \/ Accept(c) \/ Served(c)
          \/ Arrive \/ Refused \/ ClientFinishes
          \/ \E a \in Known : ServerFinishes(a)
Trouble == \/ ApplyFails \/ NoCertificate \/ Interrupt \/ InterruptCleanup \/ Spoil
           \/ \E c \in Combos : BootFails(c)

-----------------------------------------------------------------------------
(* Properties *)

TypeOK ==
    /\ at \in {"netem", "start", "boot", "iterate", "client", "stop", "clear", "exit"}
    /\ combo \in Nat /\ iter \in 1 .. Count + 1 /\ skips \in 0 .. 2
    /\ tc \in 0 .. TcCommands /\ active \in BOOLEAN /\ leaked \in BOOLEAN
    /\ server \in [Combos -> {"off", "booting", "accepting", "waiting"}]
    /\ Cardinality({c \in Combos : Bound(c)}) <= 1
    /\ serving \in Known \cup {NoConn}
    /\ \A i \in DOMAIN queue : queue[i] \in Known \ {serving}
    /\ client.st \in {"none", "trying", "finished", "refused"}
    /\ interrupts \in 0 .. MaxInterrupts

(* Every time kept for the summary was measured against the server of its  *)
(* own combination and under the whole emulation the profile asks for:     *)
(* neither a server that outlived its combination, nor the tc commands     *)
(* that a failing NetemManager.apply leaves behind, get into a result.     *)
MeasuredAsConfigured ==
    \A r \in outputs \cup results :
        r.server = r.combo /\ r.tc = IF Emulated THEN TcCommands ELSE 0

(* The emulation is off the interface at the end, whichever combinations   *)
(* failed, timed out or were interrupted, unless a tc command failed or    *)
(* was interrupted: apply gets no clear before _active is set, and clear   *)
(* does not look at what its tc command returned.                          *)
EmulationRemoved == at = "exit" => tc = 0 \/ leaked
=============================================================================
