# TLA+ models of the papquic handshake

papquic measures post-quantum QUIC handshakes with a modified OpenSSL 3.6.0:
client addresses can be validated by Retry, the server's anti-amplification
limit can be switched off, and every packet is logged with the credit it adds
or uses. What the measurements mean depends on the part of the QUIC stack that
decides when each side may send, on how the runner takes them, and on the state
of host and network meanwhile. This project models these parts, checks them with
TLC on small instances and proves every safety property of the passing runs,
and the refinement of the abstract sender, with TLAPS for all sizes.

All C paths below are under `openssl-3.6.0/ssl/quic/`.

## 1. The system

| component | state | operations | interacts with |
|---|---|---|---|
| TX packetiser (`quic_txp.c`) | credit window, next packet numbers, ACKs wanted, staged packets | generate a datagram in four phases; validate, add, check and consume credit; schedule an ACK | reads the ACK manager and the congestion controller, records packets through the FIFD |
| Frame dispatcher and send streams (`quic_fifd.c`, `quic_sstream.c`, `quic_txpim.c`) | waiting ranges of each stream, chunks of each packet | commit; callbacks on acknowledged, lost and discarded | called by packetiser and ACK manager |
| ACK manager, sending half (`quic_ackm.c`) | packets in flight, counters, largest acknowledged, loss times, timer, probe requests | packet sent, ACK frame, timeout, space discarded, handshake confirmed, pseudo-loss | callbacks to the FIFD; probe requests read by the packetiser |
| ACK manager, receiving half (`quic_ackm.c`) | numbers received, watermark, ACK requests and flush deadlines | packet received, own ACK acknowledged, ACK frame built | asked by the record layer for duplicates, by the packetiser for frames |
| Receiving record layer (`quic_record_rx.c`) | pending datagrams and decrypted packets | decrypt, hand out | channel |
| Congestion controller (`cc_newreno.c`) | window, bytes in flight | allowance | read by the packetiser |
| RX depacketiser (`quic_rx_depack.c`) | none of its own | handle the frames of a packet, add credit or validate | ACK manager, packetiser, streams |
| Channel (`quic_channel.c`) | connection IDs, secrets, levels, handshake progress, token | start, tick, receive, Retry, transport parameters, discard a level, complete | everything above |
| Port (`quic_port.c`) | listening mode, token key, incoming channels | demultiplex, send Retry, issue and validate tokens, bind a channel | channels, LCIDM |
| Local connection IDs (`quic_lcidm.c`) | connection ID to channel | enrol, look up, retire | port, channels |
| Client token cache | one token per server | store, take | client channels |
| Demo server (`demos/quic/server`) | listener, one connection at a time | accept, wait for the handshake, close | port |
| Benchmark runner (`scripts/run_benchmarks.py`) | server process, qdiscs, results | start, stop, measure, emulate losses, summarise | demo server and client |
| Host tuning (`scripts/with_host_tuning.sh`) | saved host settings | change, run, restore | benchmark runner |

What is hard in this code, and what makes each part correct:

* *The window* is checked packet by packet after a datagram was planned as a
  whole. It must bound what goes out under every interleaving of credit,
  refusals, probes and retransmissions; nothing staged may count as sent; its
  sentinel `SIZE_MAX` must mean exactly "validated".
* *Retransmission*: acknowledgements, losses and refusals come in any order. No
  handshake byte may be forgotten or be in two places, no packet number reused,
  no probe request dropped without something being sent, and no ACK request
  unless the pass that staged it was starved.
* *Address validation* runs over a network that reorders, repeats and loses
  datagrams, while a post-quantum ClientHello needs several Initial packets,
  each of which looks like a new connection. Client and server must agree on
  IDs and secrets, there must be one channel per connection, a client that
  moved must not be exempt from the limit for its old address, and every
  handshake must end.
* *Timers*: one timer serves loss times, probe timeouts and the anti-deadlock
  timeout. While something is outstanding it must be armed, and it must not fire
  for a reason that is gone.
* *Reception*: packets are lost, repeated, reordered and come in batches. What
  was processed must stay known, ACK frames must be true, and every owed
  acknowledgement must be sent in time.
* *The runner* and *the host tuning* change global state, process by process and
  command by command, and must undo what they can after failures and signals; a
  time that is kept must have been measured under the conditions it is filed
  under.

The hazards, with their lines and the properties for each, are listed in
`PROJECT.json`.

## 2. Modules

| module | models |
|---|---|
| `LimitedSender` | abstract: what a sender under the amplification limit promises |
| `TxPacketiser` | a server channel's packetiser with what surrounds it, up to handshake completion; implements `LimitedSender` |
| `TxPacketiserProofs`, `SenderRefinement` | its inductive invariant and theorems; the refinement of `LimitedSender` |
| `AddrValidation` | clients, port, server channels and the network between them |
| `Ackm` | the sending half of the ACK manager with its timer, for both roles |
| `RxPath` | record layer, channel and receiving half of the ACK manager |
| `HostTuning` | the script that tunes the host around a command |
| `Bench` | runner, network emulation, server and client processes |
| `Testbed` | `HostTuning` and `Bench` composed, as `make` runs them |
| `AddrValidationProofs`, `AckmProofs`, `RxPathProofs`, `TestbedProofs` | inductive invariants and theorems of these modules |
| `Extrema` | lemmas: a nonempty finite set of integers has a largest and a smallest element |
| `MCTxPacketiser`, `MCAddrValidation`, `MCAckm`, `MCRxPath` | the modules the configurations run |

Definitions that begin with "Mutant:" in their comment are wrong variants of the
definition after them; they take part in no specification and show that the
property they break would notice such a change of the code.

### TxPacketiser

`credit`, `nextPn`, `wantAck` are fields of `OSSL_QUIC_TX_PACKETISER`;
`ackDesired`, `pto`, `sent`, `largestAcked` belong to the ACK manager; `crypto`
is the set of waiting offsets of each CRYPTO stream; `prov` the provisioned
levels. `hist` records what happened so far for properties and bounds.

`Generate` is one whole call of `ossl_quic_tx_packetiser_generate` from the loop
of `ch_tx`: archetype (`DetermineArchetype`), staging (`Staged`, with
`CryptoFrames` for the ranges handed out), padding (`Deficit`, `Adjusted`,
`GiveUp`) and commit (`CommitAll`, `RecordCommitted`). `RxInitial` and
`RxHandshake` are the reception of a packet with what the channel, the ACK
manager, the dispatcher and TLS do for it in the same tick; `OnProbeTimeout` and
`OnAntiDeadlockTimeout` are `ossl_ackm_on_timeout`; `Discard` is `ch_discard_el`.

`Sender` maps this state to `LimitedSender`: a byte is a level and an offset; it
is waiting in a stream, on its way in a tracked packet, or acknowledged. The
abstract specification has no packets, datagrams, padding, probes or congestion:
bytes move only between these three places, levels close with all their bytes,
and what is spent stays within the factor. `ImplementsSender` says every step of
the packetiser is one of its steps.

Abstractions. Lengths are in an arbitrary unit and frame headers are counted
with their data. Time is left out: a timeout may come whenever its condition
holds, and the packets an ACK makes old enough to be lost are chosen freely (`k`).
The congestion controller says yes or no freely, except that it must allow
sending while its minimum window is not full. An ACK acknowledges any subset of
the packets in flight. A send buffer does not wrap. The timer itself is in `Ackm`.

### AddrValidation

`cl` holds a client channel each: IDs, the ID its secrets come from, token,
packets in flight. `addr` is the address a client sends from, and `peer` of a
channel the one it sends to. `chans` are the server's channels, `lcids` the
port's LCIDM, `cache` the clients' token cache, `port` the listener's mode and
`net` the datagrams that can still arrive; receiving one does not remove it, so
it can arrive again. Actions: `Start`, `Pto`, `RxRetry`, `RxServer` and
`RxNewToken` of the client; `SendRetry`, `NewConn`, `RxInitial` and `RxFinished`
of the server; `Lose`, `Rebind` (a client's address changes) and `Tick` of the
environment.

Abstractions. The ClientHello is a set of chunks, one per Initial packet. A
packet opens exactly under the ID its secrets were derived from. Connection IDs
are unique. The server's flight is one datagram: the packetiser's module deals
with its parts. The uninitialized ID passed to a channel without token is
`None`, an ID no client has. Of a NEW_TOKEN's token what matters is that 16
bytes stay behind its AEAD tag (`tail`).

### Ackm

`m` is `struct ossl_ackm_st`, the rest is what the channel knows: time, packet
numbers, available keys, whether a Retry was followed. `Send`, `RxPlain`,
`RxAck`, `NewKeys`, `Confirmed`, `FollowRetry` and `OnTimeout` are the channel's
calls; `TxPacket`, `RxAckFrame`, `Discard`, `Confirm`, `Timeout`, `DetectLost`
and `SetTimer` the ACK manager's functions on `m`, in the order the code runs
them. A packet counts as one byte, is ack-eliciting, padding only or neither,
and an ACK frame covers any set of packets. Of the round-trip estimate only the
loss delay and the probe timeout computed from it are kept; a sample may replace
both. Zero means "no time", as in the code, which is what `ackm_loss_time` is
about.

### RxPath

Packets of the peer stay in `net`, so each can arrive any number of times or
never. `Receive` decrypts a whole batch against the history as it is; `Process`
handles one packet: its ACK frame first, then its number, then what confirms the
handshake and discards the Handshake space. `SendAck` is the packetiser with the
ACK request it clears, `OwnLost` the regeneration of an ACK frame. A set of
numbers with `NewestRanges` stands for the range list. A flush deadline is the
time left until it, so that the clock needs no bound.

### HostTuning, Bench and Testbed

`Plan` lists the commands of `with_host_tuning.sh` that save, change or flag a
setting, in order; `Step` runs one, `SetRefused` skips one with a warning,
`Fails` leaves through `set -e`, and `Signal` may come between any two, since
bash runs a trap between commands. `SaveFails` is the failure of a save guarded
by `|| true`: the script goes on and changes a setting without a usable backup.
`Restore` does what `restore_settings` does from the files and flags it finds,
and `RestoreFails` is a write of it that fails unnoticed; a signal meets it
before or after it resets the traps. `lost` records the settings hit by one of
these two failures, `left` the command at which the script left the plan.

`Bench` has the runner's program counter (`at`), the tc commands in effect,
the server processes of all combinations, which outlive theirs if nothing stops
them, their connections, and the client. The server serves one connection at a
time (`serving`), while `Ticked`, the connections a tick works for, is all of
the port. `Spoil` is the network dropping so much that a handshake will not end
in time. `Interrupt` is a KeyboardInterrupt with the `finally` clauses it runs,
`InterruptCleanup` one within `stop_server` or `clear`. The tc command of `Clear`
may fail, which `clear` does not look at; `leaked` records that a tc command
failed or was interrupted with rules in effect.

`Testbed` runs `Bench` as the child of `HostTuning`; after a signal the runner
goes on until the signal reaches it, if it ever does.

## 3. Runs

| run | constants that matter | shows |
|---|---|---|
| `txp_window` | flight that uses up the credit, 3 receptions, also of a short datagram, 1 loss, probe and anti-deadlock timeouts, tight congestion window, `SizeMax` within reach | window, sentinel, no byte lost or in two places, packet numbers, probes, padding; which passes lose an ACK request; refinement of `LimitedSender` |
| `av_modes` | one client, two chunks, three Retries, a timeout, a loss; all modes of the listener; clock at 0, so tokens are in time; fairness | agreement on IDs and secrets, one channel per connection; every handshake whose token is in time completes |
| `av_tokens` | two clients, two addresses, one change of address, three Retries, clock to 2 with Retry lifetime 1 | with tokens that expire, move or come from the cache, the client's checks pass and a channel is exempt only for the address its token was issued to |
| `ackm_timers` | both roles, three spaces, two packets in each, two estimates, clock to 3 | counters, timer, assertion, probes |
| `rx_path` | three numbers and one of Handshake, batches of two, one range kept | nothing processed is forgotten, ACK frames are true and in time |
| `testbed` | two combinations of two handshakes, two spoilt, one signal, one refused setting, two settings with unnoticed failures | times are of the right server and emulation; everything ends; settings and tc rules stay behind only for the causes the properties name |

Why the bounds are enough. In `TxPacketiser` a violation needs a datagram with
two levels, a refusal of the second, a loss and a probe; each fits within three
receptions, and the proofs remove the bounds. A flight of 12 leaves no credit, so
that a later short datagram brings less than its ACK needs: both ways of losing
an ACK request happen. `txp_repeated` uses the shortest
flight with three separate losses. In `AddrValidation` two chunks and two Retries
are the smallest instance in which different Retries race, and two addresses
with one change the smallest in which a token comes back from elsewhere. In `Ackm` two packets
of a space give a gap below the largest acknowledged one, and all three spaces
can compete for the timer. In `RxPath` three numbers give two ranges, one more
than are kept, with a copy and a late packet in one batch; the limits of the code
are 32 and 3. In `Testbed` two spoilt handshakes either skip one iteration in
each combination or end one, and the second combination shows what the first
left behind; `Fallible` has the two settings whose save is guarded, and their
restoring writes stand for those of the other settings, which take the same
step. Thresholds (`PktThreshold`, 3 in the code) are smaller so that loss
detection happens within few packets.

Except for `testbed`, which ends in a step of its own (`Over`), runs have
`CHECK_DEADLOCK FALSE`: a handshake ends, and the bounds stop the environment.

Six runs show where the code does not do what a comment or document says
(`findings` in `PROJECT.json` has the quotes and lines):

| run | what happens |
|---|---|
| `txp_repeated` | one packet repeats the third waiting range, because an inner loop reuses the outer index |
| `txp_wire` | headers and AEAD tags are not charged to the window, so more than three times the bytes received are sent, already without coalesced packets |
| `av_new_token` | tokens of NEW_TOKEN frames never validate |
| `rx_repeated` | copies of a datagram in one batch are both processed |
| `rx_ranges` | ACK frames are filled up to the number of spaces, not of ranges |
| `ackm_loss_time` | the loss time of a server's ACK-only Handshake packet is overruled by the application space, which has none; nothing ack-eliciting is in flight, and the timer is switched off |

Other limits of the code that the properties are stated around:

* `InitialPaddedIfUnlimited`: while the window limits the server, a datagram
  whose Handshake packet is refused after the padding was computed goes out below
  1200 bytes, against the comment at `quic_txp.c:912`.
* `AckRequestKept`: the request is cleared when its frame is staged. It is lost
  when the window then refuses the packet, or when an ACK-only Initial datagram
  is given up for lack of padding under a full congestion window. The property
  says that nothing else loses one, and how little credit there is then.
* `ProbesInLiveSpace`: a probe asked for before its space is discarded stays
  asked for, and later datagrams are built as probes.
* `SeenIsTracked`: an acknowledged ACK frame moves the watermark behind its
  largest number, so late packets below it are dropped; `quic_ackm.c:305-314`
  accepts that.
* `WindowBound`: the bytes credited count the datagram once for each coalesced
  packet, as `quic_rx_depack.c:1487` does.
* `SavedIsRestored`: `user.slice` is given all CPUs, whatever it had before; a
  setting whose guarded save or restoring write failed stays changed; and a
  signal between a change and its flag leaves slice or shield, or deletes the
  irqbalance configuration, although the repository's README (line 123) promises
  clean-up on Ctrl+C. A signal during the restore ends it, and the property says
  nothing of that.
* `EmulationRemoved`: when a tc command of `apply` or `clear` fails or is
  interrupted, rules stay on the interface, although the repository's README
  (line 208) says it is restored. The property says that this is the only cause.
* After a signal the wrapper restores the host without waiting for the runner,
  which may go on measuring. No property forbids that: the script does it. An
  interrupted runner writes no summary. One that a KeyboardInterrupt meets in
  `stop_server` may leave its server running.

### Fairness

`FairSpec` of `AddrValidation` assumes weak fairness of the server's reception,
and for each client of its probe timeout and its reception. The reactor ticks a
channel whenever a datagram arrives or a deadline passes, and a timeout stays
armed while a client has packets in flight or its handshake is open (`TimerArmed`
of `Ackm`). A datagram that stays in `net` arrives eventually; at most `MaxLose`
are lost, and only while the timeouts left can still reveal the loss, since a
bounded number of timeouts cannot stand for the unbounded number of the code.
`Start`, `Lose`, `Rebind` and `Tick` have no fairness. In `av_modes`, the run with
this fairness, addresses stay and the clock stands still: a client whose token
expired or moved ignores the second Retry and waits for its idle timeout, which
is not modelled.

`Testbed` assumes weak fairness of the wrapper, of the runner and of the server
with the network that answers its client: processes are scheduled, and every
wait of the runner has a time limit. No fault is fair, and the server may wait
for a dead connection for ever.

## 4. Proofs

Each theorem is `Spec => []P` for an invariant `P`, or `Spec => A` for an action
property, and holds for all constants that satisfy the assumption of the module
that declares them: lengths, limits and bounds are natural numbers, positive
where the code has no use for 0. Nothing else is assumed. Every invariant and
every action property of a passing run is proved this way. Each proof module has
one inductive invariant `IInv`, shown by a lemma for `Init` and one lemma per
action (`...Keeps`); the theorems then follow from `Invariance`.

**TxPacketiserProofs** (`LengthsAssumption`). The properties support each other:
`NoCryptoDuplicated` needs `PnsUnique` (two packets with one number would be one
record), and `WindowBound` needs the sentinel to be told from a credit. `IInv`
adds

* `Contained`: queued and sent bytes are bytes TLS wrote, and the sets are
  finite. Without it a lost packet could bring bytes into a stream that were
  never produced, and `NoCryptoLost` would fail in the next state;
* `BeforeFlight`: before TLS wrote its flight nothing was produced or
  acknowledged, needed when the ClientHello replaces the streams.

The lemmas are the window's arithmetic with wrap-around (`WrapBounds`,
`AddBounds`), what a commit may do to the window (`CommitPktBounds`,
`CommitAllBounds`: it charges at most what is there and never touches the
sentinel), that staged data comes from the waiting offsets (`CryptoFramesType`,
`StageType`, `StagedType`), and what loss detection removes (`LostFacts`,
`AckMoves`). For `InitialPaddedIfUnlimited` the padding loop is followed to the
datagram it commits: with the sentinel no packet is refused, so the length that
was planned is the length sent. For `AckRequestKept` every pass is followed to
what it commits (`GenerateKeepsAck`): a packet that was staged fits a datagram
(`LowestSize`, `StageFits`, `PacketsFit`), so one that the window refuses shows
how little credit was left (`RefusedPkt`, `RefusedAll`), and a pass given up for
lack of padding had a full congestion window. One more invariant,
`ValidatedFirst`, says that the address is validated when the Initial level is
gone, so that neither happens after that.

**SenderRefinement**. `Refinement` shows `Sender!Spec`. From `IInv` and
`ClosedEmpty` (a level out of use has nothing waiting and nothing in flight),
`Generate` is a step `Send` of the abstract sender, a reception is a step
`Receive` (`RxInitialReceives`, `RxHandshakeReceives`), and a timeout changes
nothing it knows of (`TimeoutStutters`). The mapping tags each byte
with its level, and `Moved` states for one level what a step may do with its
bytes; the abstract step is the conjunction over the levels.

**AddrValidationProofs** (`ConnsAssumption`). No property of the run is close to
inductive, since each speaks of state at both ends and what connects them is in
datagrams that arrive late or again. `IInv` says what each party can rely on:
`ClientStands` (the secrets of a client are those of the Retry it followed or of
its first ID; the token it followed names both IDs; number 0 is in flight while
a Retry may come), `MsgStands` (an Initial was sent before or
after its client followed a Retry, with the matching ID and token; a Retry
carries a token for its addressee; a reply is of a channel of the addressee) and
`ChannelStands` (a channel has the secrets of its client, and a port that
validates made it for a client that followed a Retry with a token of the address
the channel sends to). The client may since have another address, so nothing is
said of that. That a token of NEW_TOKEN never validates (`tail`) is part of it: it
is why `ValidatedOwnsAddress` holds for tokens from the cache too. Client actions share `ClientKeeps`, channel
actions `ServerKeeps` and `ChannelKeeps`.

**AckmProofs** (`AckmConstants`). `TimerArmed` fails in the next state unless
there is a space to compute a probe timeout from. `Staged` provides one: with
application data sent before confirmation there is a Handshake packet, and what
was sent ack-eliciting is of a space with keys that is not discarded.
`CountedAs` ties the counters to the packets of the history and survives their
removal one reason at a time (`RemovedCounts`, `DetectLostFacts`,
`DiscardFacts`). `Infinite` is shown to be beyond every deadline by bounding the
backoff (`BackoffFacts`, `InfiniteFacts`), so that "armed" means an instant that
comes. The timer's function is treated once: `SetTimerArms` and `SetTimerKeeps`.

**RxPathProofs** (`RxConstants`). `SeenIsTracked` excepts discarded spaces, but
is only inductive without that exception (`Tracked`). `HistoryProcessed` says
the history holds processed numbers only, from which frames are filled
(`AcksOnlyReceived`); `CountedOnce` bounds the packets counted towards an ACK by
the numbers processed. `AddPnFacts` and `BumpFacts` show that trimming ranges and
moving the watermark never forget a number; `OnRxFacts` that an ack-eliciting
packet leaves a frame asked for or a deadline within the delay.

**TestbedProofs** (`RunAssumption`). For the wrapper, `Recoverable` says that a
setting that is not as it was has its old value saved and its flag set, but for
the three gaps between a change and its flag (`Gap`), which the script is in or
in which a signal found it; `set -e` cannot leave there. `SavedSoFar` and
`PutBackSoFar` follow the position in the plan and in the restore: a setting the
restore has passed is as it was, or lost to an unnoticed failure, or caught in
its gap. For the runner, `OneServer` (no process but that of the current
combination, and a finished client finished with it), `Emulates` (while anything
is measured the whole emulation is in effect and known to `NetemManager`; rules
it does not know of are the ones a failed or interrupted command left) and
`Queued` (no connection is twice in the queue or queued while served).

Only model-checked. Liveness (`HandshakeCompletes`, `Terminates`) is outside the
prover's reach; the six violation runs are counterexamples.

## 5. Not modelled

* 1-RTT and 0-RTT, streams, flow control, key update, connection closing and
  the idle timeout: the handshake is what the program measures, and the models
  end with it.
* Version negotiation, stateless reset, migration, and the port's path for an
  invalid token with validation off: none of the four server modes uses it with
  a fresh client.
* TLS, cryptography, encodings, the OQS provider: used through what they
  guarantee.
* Reactor, engine lock and thread assist: scheduling around `poll` and a
  condition variable, used only as fairness.
* ECN, persistent congestion and the arithmetic of congestion window and
  round-trip estimate.
* Log formatting, diagrams, plots, outlier statistics and stored results: text
  and number processing without state.
* The packet workflow of the runner, and the manual cgroup of the host tuning.

Most of the repository's 17607 files are OpenSSL as released: cryptography, TLS,
certificates, generated tables, manuals and tests, which this project neither
changes nor depends on beyond what is said above. Modelling them would say
nothing about papquic, so the share of all lines that is modelled stays small;
of the state machines behind a measured handshake most is.

## 6. Plan

1. Done: `TxPacketiser` with runs and proofs, `LimitedSender`, `AddrValidation`,
   `Ackm`, `RxPath`, `HostTuning`, `Bench`, `Testbed`.
2. Done: theorems for every invariant and action property of the passing runs,
   and `Refinement`.
3. Next: an abstract specification of the RX history (the set of processed
   numbers) that `RxPath` implements, and of the runner (what a kept time stands
   for) that `Testbed` implements, with their refinements proved.
4. Later: client and server packetisers composed; closing and the idle timeout.
