# ebbnc: models, checks and proofs

This directory holds a TLA+ development of ebBNC, a TCP "port bouncer" in C. The bouncer listens on
one or more addresses; for every client that connects it opens a connection to the bouncer's remote
host, announces the client there with an `IDNT user@ip:hostname` line, and relays bytes both ways.
The modules are translated from the C code in `src/`; `PROJECT.json` maps each definition to the
lines it stands for and lists runs, mutants, findings, hazards and theorems.

    tlc -workers 2 -config Client.cfg MCClient.tla      # a run
    tlapm ClientProofs.tla                              # the proofs of a module

## The system

| Part | State it keeps | Operations | Interacts with |
|---|---|---|---|
| Client session (`client.c`) | the two sockets, the poll set, one buffer | connect, IDNT, welcome, relay loop, 421 replies, free | one detached thread per connection; reads the shared `Config`, calls the ident lookup, talks to two peers through the kernel |
| Accept loop (`server.c`) | the list of listening sockets, the `fd_set` of a round | select, accept, launch | starts sessions; sessions and loop share the process's descriptor table |
| Process start (`main.c`, `misc.c`) | the pid file, two processes, the listening sockets | check the pid file, listen on all, fork, write the pid file | other runs of the program, through the pid file, the addresses and the process table |
| Config text (`config.c`) | the `Config` and its list of `Bouncer`s | load, check, save | read by all of the above; written by the editor |
| Conf editor (`makeconf.c`) | a stage counter, the `Config` and `Bouncer` being built, the key | one question per stage, save, encrypt | its output is compiled into the bouncer, which decrypts and loads it |
| Ident lookup (`ident.c`) | one socket | connect, ask, read the answer with timeouts | called by the session |
| Cipher (`xtea.c`, `hex.c`) | none | XTEA, ECB and CBC with padding, hex coding | editor encrypts, bouncer decrypts |
| Helpers (`misc.c`) | none | numbers, addresses, prompts, timeouts on sockets | everywhere |

What is hard in it, and what makes each part correct:

* **Client session.** One thread serves both directions with *blocking* writes and a poll result
  that ages while a write waits. Writes time out, fall short and fail; peers finish or reset at any
  moment; the bouncer's own lines share the streams with the data. Correct means: the remote host
  sees the IDNT line and then the client's bytes, no gap, nothing twice, nothing of the bouncer's;
  the client sees the remote's bytes in order, and a 421 line only at the end; a client that goes
  away ends the session; one thread for two directions is no deadlock.
* **Accept loop.** One thread for all bouncers, listening sockets that block, readiness that may be
  stale when `accept` is called, a descriptor table that fills. Correct means: it never waits inside
  `accept`, nobody who connected to any bouncer is passed over for good, a full table drains and does
  not make the loop spin. (Not all of this holds: see Findings.)
* **Process start.** Check, listen, fork and record are separate steps of several competing runs,
  and any process may die between two of them. Correct means: one daemon at a time, the pid file
  names it or there was a warning, and a start is refused only if there is something to refuse it for.
* **Ident lookup.** Six calls that may fail before there is an answer, and a server that may be slow,
  silent, cut off, or speak of another connection. Correct means: no way out leaves the socket open,
  the user named is the one that an answer for this connection names, an answer in pieces is waited
  for, and no server keeps the session waiting for ever when there is a timeout.
* **Cipher.** Padding, hex digits, and four callers that each work out the size of a buffer. Correct
  means: what the editor encrypts the bouncer decrypts, the check for a wrong key refuses nothing else,
  and no size is too small.
* **Config and editor.** A list that is reversed each time it is built; numbers that are narrowed
  to an int; a stage counter moved in two places; two programs that must agree on the key and on
  what a valid text is.

`PROJECT.json` lists each of these hazards at its line, with the property that watches it.

## Modules

| Module | Models | Notes |
|---|---|---|
| `Stream` | nothing: the promise | abstract specification of one direction: a head line, then the sender's items in order, nothing after the connection is down |
| `Client` | `client.c` but `Client_launch` | concrete session; `ToRemote` is the refinement mapping onto `Stream` |
| `ClientProofs` | | theorems about `Client`: the direction to the remote host, and the refinement |
| `ReturnProofs` | | theorems about `Client`: the direction to the client |
| `Server` | `Server_accept`, `Server_loop`, `Client_launch` | sessions are reduced to the descriptor they hold |
| `Startup` | `main`, `Server_listenAll`, `daemonise`, `isAlreadyRunning`, `createPIDFile` | several runs, kills, reboots |
| `ServerProofs`, `StartupProofs` | | theorems about these two |
| `Ident`, `IdentProofs` | `identLookup` | one lookup and an ident server, and theorems about it |
| `Cipher` | XTEA and its CBC functions, `hexEncode`, `hexDecode`, and their callers in `makeconf.c` and `config.c` | pure operators, and the four steps from text to text |
| `CipherProofs` | | theorems about it |
| `Config` | `Config_loadBuffer` and what it calls, `Config_sanityCheck`, `Config_saveBuffer` | a step machine over lines |
| `MakeConf` | `makeconf.c`, `Config_loadEmbedded` | composed with `Config` by INSTANCE: the same loader reads what the editor saved |
| `ConfigProofs`, `MakeConfProofs` | | theorems about these two; the second cites the first for the loader it contains |
| `MC*` | | values of the constants for TLC |

Definitions named as mutants in their comments (`ReadClientHangupFirst`, ...) are never part of a
specification. They are plausible slips in the code; substituted for the action they stand before,
each makes the property it is paired with in `PROJECT.json` fail, so no property holds by accident
of the model.

### Client

`pc` says where `Client_threadMain` is: the setup calls (`resolve`, `socket`, `connect`, `ident`, then
`lookup` while it waits in `identLookup`, `welcome`), the loop (`poll`, `read_client`, `write_remote`,
`read_remote`, `write_client`), a 421 reply in progress (`reply`, which then goes to `after`), `free` and
`done`. A blocking write is several steps, `KernelTakes` once per token and then `WriteReturns`, so that
everything else can happen while it waits and so that it can time out or be reset half-way; `Outcome` is its result.
`ready` is `fds[1].revents`, kept from the poll to the point where the code looks at it. The two
connections are symmetric: `sock`, `peer`, `sent`, `taken`, `to` and `got` are indexed by "client"
and "remote".

Assumed of the kernel (the behaviour of Linux): a reset does not discard bytes that have already
been received; poll reports a socket readable when there is input, an end or a reset; a timed out
write returns the short count, or EAGAIN if nothing was taken; closing a socket with unread input
aborts the connection. The number of bytes is abstracted (one token per byte, two for the IDNT
line, one for any other line), the address family, socket options and the text of error messages
are left out, and "bind" stands for "invalid localip" as well. `SendIdnt` is what comes before the
lookup and `IdentLookup` its return with the rest of `Client_sendIdnt` up to the write (`getnameinfo`,
memory): a user, `*`, or the end. How long the lookup takes is module `Ident`; here it matters whether it
need return at all, and with `identtimeout=0` it need not (`WaitsForIdent`).
The idle timeout is a number of seconds: `Timeout` is what the code passes to poll, the product
with `Second` in an int of `IntMod` values, negative (no timeout) when it wraps round to that.

### Server

`Select` takes the snapshot `set`; the walk visits `List` in order (`Pass`, `Accept`, `AcceptFails`,
`AcceptAborted`, `EndOfList`). An `accept` on an empty queue has no action: it waits. `conn` follows
each client from its connection to the end of its session; an `orphan` is a socket nobody will
close. A client whose connection is over may connect again, to any bouncer. Systems differ in what
happens to a connection that is reset before it is accepted, so `platform` is a parameter: "kept" (Linux) or "aborted" (`accept` fails with ECONNABORTED). A third
kind, old stacks on which such a connection just leaves the queue, would break `AcceptNeverWaits`,
since the listening sockets block; it is not assumed here. A failing `select` and its pause of 10 ms
(`server.c:149`) are left out: with a correct `fd_set` it is only a signal that makes it fail.

### Startup

Launcher and daemon of each run are processes with pids; both hold the listening sockets, as after
`fork`. `proc` is the process table, `used` the pids given out since the last boot; "pid reused"
lifts the restriction that a pid is not given out twice. Writing the pid file is two steps
(`OpenFile` truncates, `WriteFile` fills): `fprintf` fills a buffer, and its failure is reported
("unrecorded"); `fclose` writes the buffer, and its failure is not, so `WriteFile` may end "started"
with an empty file. Any operation on the file may fail where "file fails" is among the faults. Assumed: a pid file is configured, ports are not 0, and a
listening address is exclusive. Any failure while listening (also of `socket`, `setsockopt` or
`calloc`) is the failing branch of `Listen`.

### Config and MakeConf

A line is a key and a value; splitting text into lines and fields, and trimming, is left out. What is
kept is what decides: which value is accepted, which narrowing happens (`AsInt`: a `long` stored in
an `int`), in which order lists grow, what is printed for NULL. `MakeConf` has one action per
question with all its outcomes, including `GiveUp` for failing memory, then `Save`, `Decrypt` and the
loader's own steps, which may run out of memory as well. Editor and bouncer may run at different times
and places: `EditorHosts` resolve in one and `Hosts` in the other. The key is reduced to what matters:
whether the password fills the 16 bytes that XTEA reads; and a text to whether it has a control
character (`Unprintable`), which the editor takes and the bouncer's check for a wrong key (`HasControl`)
does not. End of input and SIGINT at a prompt are not modelled.

### Ident

One action per call of `identLookup`, each with its failure, and one per token that `scanf` takes. A
token is a field of the answer (a port, a word, the system), one letter of the name, or white space,
which `scanf` skips in front of any field, which ends a name, and which it skips behind the last one:
that is why a server that leaves its connection open delays a complete answer until the read timeout.
Of a name `%255s` takes what there is, up to 255 letters (`MaxName`), and nothing looks whether the line
ended: a name cut by the end of the connection, by a timeout or by its length counts as it is. The other
fields are whole, since an answer cut inside one of them names nobody either way. The server acts at any
time: it sends the next token of its answer, even before it is asked, or ends the connection. `timeout`
says whether `identTimeout` is set; the timeout itself may strike whenever nothing has arrived, anew for
each read. The result is what `Client!IdentLookup` chooses from.

`HeardOut` ties the verdict to what has arrived (`Named`, in both directions), and `WaitedOut` to the
whole answer where neither the end of the connection nor a timeout can cut it.

### Cipher

`XTeaEncrypt` and `XTeaDecrypt` are XTEA with its key schedule, with words of two bytes, so that a
block has four bytes and padding lengths 1 to 4 occur. The number of rounds is a parameter, and so is
what `^` makes of two bytes (`ByteXor`): the assumption says of it what is needed, that the result is a
byte and that a second `^` takes back the first, and TLC checks this of the `^^` it uses. CBC, padding and
hex coding are operators on sequences of bytes, with the room their callers give them: `FitsBuffers`
says it suffices, `TextComesBack` that the bouncer gets the text that was entered, or refuses it, exactly
when it has a control character other than white space (`Printable`). The ECB functions are called nowhere
and left out. Failures of `calloc` and of the random source are in `MakeConf` (`GiveUp`, `Save`, `Decrypt`).

## Runs

Runs marked *violation* check one statement that a document, comment or message of the repository
makes, and TLC finds the code's behaviour against it; see Findings.

| Run | Shows |
|---|---|
| `Client.cfg` | every configuration, every interleaving of thread, kernel and both peers: `RemoteStreamExact`, `NothingHeldBack`, `ClientStreamOrdered`, `ClientStreamExact`, `RepliesEndTheSession`, `OrderlyEnd`, and `Client` implements `Stream` |
| `ClientLive.cfg` | with a write timeout, and an ident timeout if there is a lookup, a session ends once its client is gone; with an idle timeout as well, always; without a write timeout, and peers that read, one thread does not deadlock between the two directions |
| `ClientGap.cfg` | *violation*: the client's stream can have a gap |
| `Server.cfg` | clients come and come back, sessions may last for ever: queues stay consistent, `accept` never waits, and while there are descriptors no client of any bouncer is passed over for good; if sessions end and clients stop coming, every client of every bouncer is accepted, even through a full table, unless sockets of failed launches take it up |
| `Startup.cfg` | three runs under all faults: one daemon, and no other run's pid in its pid file |
| `StartupReboots.cfg` | *violation*: after a reboot a stale pid file that names another process keeps the bouncer down |
| `Config.cfg` | what is loaded is what the text declares; save and load come back to it |
| `MakeConf.cfg` | every sequence of answers: what runs is what was entered, rejections have four causes only, and no question is skipped but that about `idnt` |
| `MakeConfAnother.cfg` | *violation*: an answer that is not understood crashes the editor |
| `MakeConfRejected.cfg` | *violation*: the bouncer refuses what the editor has saved |
| `Ident.cfg` | a lookup against good, foreign, partial and wrong answers, in pieces and with the connection ended anywhere: the socket is closed, the verdict is what was heard, the rest is waited for, and the lookup ends |
| `Cipher.cfg` | texts of every length up to nine bytes, through padding, CBC and hex and back, within the callers' buffers; those with a control character, and no others, are refused |

All runs disable the deadlock check because the systems really stop: a session ends, a launcher
exits, a text has been read, the editor is done, all clients of `Server` wait for a table full of lost
sockets.

### Bounds

* `Client`: two bytes from each peer, a socket buffer of one token towards a peer and of two bytes
  from it, `BUFSIZ` 2. That is the least with which a read returns one or two bytes, a write falls
  short inside a chunk, a chunk is followed by a second one, and a buffer is full while input waits;
  the peers' streams are bounded (`MaxBytes`), the thread's loop is not. `Users` has one member, and
  a failed lookup gives a second (`*`). An int has 6 bits and a second 10 milliseconds (`IntMod`,
  `Second`), so an idle timeout of 3 is the largest whose milliseconds fit and 4 wraps round to a
  negative number; the values are 0 and 3 in `Client.cfg` and 0, 3 and 4 in `ClientLive.cfg`.
  Whether there is an ident timeout changes nothing in what may happen, so `Client.cfg` has one value of
  it, and `ClientLive.cfg` both.
* `Server`: two bouncers, four clients, two descriptors, `SOMAXCONN` 2: the table is full while both
  queues hold connections, and one socket or both can be lost. They connect as often as they like.
* `Startup`: three runs with four pids, which are used again, and two addresses, so that a run can
  fail between them. Runs and pids are symmetric; the run checks only safety. `StartupReboots.cfg` has
  reboots and reused pids for its only faults.
* `Ident`: fourteen answers, one or more for each way to go wrong: ports swapped or repeated, a field
  missing, an error, a name too long (`MaxName` is 3) or with white space in it, something behind the
  name, nothing at all. Each arrives token by token and may stop anywhere. They are finite, which bounds
  how often a server that dribbles can put off the read timeout.
* `Cipher`: texts of 0 to 9 bytes, with and without a control character, fill no, one and two blocks,
  each with every remainder. Of the 32 rounds the run has 8, more than `sum` needs to wrap round and to reach every word of a key; TLC's
  stack does not suffice for the recursion of 32, and the theorems hold for any number.
* `Config`: all texts of up to four of 15 lines. `MakeConf`: up to two bouncers (`MaxBouncers`
  bounds the answer "yes"), two to five answers per question, good and bad ones. An int has 6 bits
  and a port 3 (`IntMod`, `MaxPort`), so that one wraps round to a good number and one to a negative.

### Fairness

* `Client!FairSpec`: weak fairness of `Thread`, that is, the scheduler runs the thread when it can
  go on and the kernel completes what it can; but not of the wait for an ident server without an ident
  timeout, which nothing ends. So `ClientGoneEndsSession` and `IdleSessionEnds` have `LookupReturns` as a
  premise: `identtimeout` is not 0, or there is no lookup. Nothing is assumed of the peers, who may stop for
  ever. A failing poll (it ends the session at once) is left out of `FairSpec`, and is in `Spec`.
* `RelayIsNotStuck` has `PeersRead` as its premise: the peers go on reading what has arrived.
* `Ident!Spec`: weak fairness of the calls of the lookup; nothing is assumed of the server.
* `Server!LoopSpec`: weak fairness of the loop, and nothing else: sessions may last for ever, as they may
  with the default `idletimeout=0`. `ServedWhileThereIsRoom` is checked under it; its premise is that in
  the end there is always a descriptor left, and a system on which `accept` does not report reset
  connections (where it does, each such report ends the round, and enough of them starve the servers
  further down the list).
  `EveryConnectionServed` has premises of its own: `SessionsEnd`, which is what `ClientLive.cfg` shows when
  the timeouts are set, and `ClientsStop`, since each round starts at the head of the list: while clients
  keep coming back to a full table, those of a later bouncer are never accepted. Without either premise
  TLC finds the property violated.

## Proofs

`ClientProofs` proves, for all constants that satisfy `ClientAssumption` (any buffer sizes, users,
configurations and numbers of bytes):

* `TypeCorrect`: `Spec => []TypeOK`.
* `RemoteStreamCorrect`: `Spec => []RemoteStreamExact`.
* `NothingIsHeldBack`: `Spec => []NothingHeldBack`.
* `OrderlyEndHolds`: `Spec => OrderlyEnd`.
* `ClientImplementsStream`: `Spec => ImplementsStream`, the refinement.

`RemoteStreamExact` is not inductive. It says what is in the stream, but not where in it the
thread is: without more, a write to the remote host could be one of the wrong bytes. The
strengthening is `StreamInv`, which fixes, for every `pc`, how much of the IDNT line and of what was
read from the client the remote host has been given, and what the buffer of a write in progress
holds (`Len(to["remote"])` is a function of `pc`, `put` and `taken["client"]` while the
loop runs). `StreamInvariant` is its invariance; there is one step per action, and one lemma for
what `KernelTakes` passes on (`NextItem`), which is the only action that changes the stream. The
other theorems follow from it. For the refinement every action of the thread and the peers is a
stutter of `Stream`, but `SendIdnt` (`Settle`), `KernelTakes` towards the remote host (`Deliver`, by
`NextItem`), a byte from the client (`Arrive`) and `Free` (`GoDown`); `UpInv` adds that the client's
socket is open until then. The argument for `OrderlyEnd`: in `read_client` the buffer is empty and
the stream is complete up to what was read, and the action leaves only when nothing is unread.

`ReturnProofs` proves the direction to the client, where writes may fail and the loop goes on:

* `ClientStreamIsOrdered`: `Spec => []ClientStreamOrdered`.
* `RepliesAreLast`: `Spec => []RepliesEndTheSession`.

`DownInv` is inductive. `OrderInv` says that the bytes in the client's stream are below `Limit`, the
number of the last byte the kernel has been offered; a write that falls short only raises `Limit`, so the
next chunk is still above what was written. `QuietInv` says that as long as the thread may write
anything else, the stream has no reply but reports of timeouts: a reply after which the loop goes
on is either such a report or is written to a connection that was reset, where nothing arrives
(`BufInv`).

* `ClientStreamIsExact`: `Spec => []ClientStreamExact`.

`ExactInv` has three parts that
hold while no write to the client can fail: the length of the client's stream is a function of `pc`,
`put` and `taken["remote"]`; every byte is at the place its number gives it; and a reply "Connection
closed" is only written when the remote host has ended and all of its bytes were read. The last needs
`ReadyInv`: `revents`, old as it may be, is still true when the thread reads.

`ServerProofs` proves, for any list of servers without repetitions (`ServerAssumption`: the linked list
has each server once), any connections, `MaxOpen` and `Backlog`:

* `ServerTypeCorrect`: `Spec => []TypeOK`, which includes that each waiting connection is in exactly one
  queue, once (`PopStep` and `AppendStep` are the two steps that disturb it).
* `AcceptDoesNotWait`: `Spec => []AcceptNeverWaits`. The property speaks of the server the walk is at;
  inductive is `Ahead`, which speaks of all servers still to come: only the walk takes from a queue,
  and it does not come back.

`StartupProofs` proves, for any numbers of runs, pids and addresses and any faults:

* `StartupTypeCorrect`: `Spec => []TypeOK`.
* `OneDaemonServes`: `Spec => []OneDaemon`.
* `TheFileNamesTheDaemon`: `Spec => []FileNamesDaemon`.

`StartInv` relates the four places where a run leaves its traces: a live launcher is the process of its
pid, and a daemon that of the pid fork returned (`ProcInv`; a pid left over from a dead process may
be anybody's); all holders of a listening socket belong to one run (`OneRunHolds`); a launcher holds
what it has bound so far, and everything from the fork to its exit (`HoldsBound`). From these,
`Alone`: while a launcher may touch the pid file no daemon but its own serves, which is why it
cannot overwrite another's name, and the file it has truncated is still empty when it writes to it
(`EmptyInv`). Each way a process can disappear is one lemma (`GoneStep`), used for
exits, kills and reboots alike.

`IdentProofs` proves, for any answers, letters, ports and length of names:

* `IdentTypeCorrect` and `SocketIsClosed`: `Spec => []TypeOK`, `Spec => []SocketClosed`.
* `NamesWhoWasHeard`: `Spec => HeardOut`.
* `WaitsForTheRest`: `Spec => WaitedOut`.

`TakenInOrder` says that the fields are the tokens of the answer up to `read`, each in its place (`NumberOf`,
white space aside), and `NameInv` that the letters among them are next to each other in the answer and end
where scanf is, or in front of white space. Both directions of `HeardOut` follow where scanf stops. The
verdict is what the answer says (`VerdictIsNamed`): if the letters it has were not all of the name, the next
token is the very letter it wants. And what the answer says is the verdict (`NamedIsVerdict`): if fewer
than five fields are taken, the next token is the one that has the next number, which scanf wants. The two
lemmas are about any number of tokens at which scanf stops, what has arrived in `HeardOut` and the whole
answer in `WaitedOut`.

`ConfigProofs` proves, for texts of any length (`FilesAssumption`: a file is a sequence of lines whose
numbers are integers), any width of an int, and any sets of addresses:

* `LoadedIsDeclared`: `Spec => []LoadedAsDeclared`.
* `SavedReloads`: `Spec => []SavedConfigReloads`.

`LoaderInv` says that the configuration is one that could be saved (`Saveable`: flags are booleans,
timeouts ints and not negative, no text is empty, ports are integers) and is what the lines read so
far declare (`DeclaredTo`); `DeclaredStep` is its step: one more line sets the field it names and moves
every bouncer before it one on (`Ranks`). `SavedReloads` is about `LoadAll`, a recursive function, and the
provers cannot do the induction. Two things stand for it: `After(c, n)` is, without recursion,
what the first `n` lines of the text saved for `c` make of the default (`ReloadStep`: line `n + 1` leads
from one to the next), and `LoadsAll` shows that `LoadAll` follows any such sequence, by looking at the
least line where it does not (`Least`, from the well-foundedness of `<` on the naturals).

`MakeConfProofs` proves, for any answers (`AnswersAssumption`: an answer that starts with a number starts
with an integer, a text that is entered is not empty, a password is one of the three kinds), any
addresses and any number of bouncers:

* `MakeConfTypeOK`: `Spec => []TypeOK`.
* `RunsWhatWasEntered`: `Spec => []LoadedIsEntered`.
* `RejectedOnlyForThese`: `Spec => []RejectedOnlyFor`.

What a bouncer runs is decided many answers earlier, so `Inv` follows each answer from its question to
the text: what the bouncer under construction has at each stage (`BouncerInv`), that all bouncers
entered are complete and the list is their reverse (`EnteredInv`), that every option is one the loader
accepts, except the timeout that is being asked for again, which the code has stored all the same
(`OptionsInv`), and how far the loader is in the text saved (`PhaseInv`, with `After`). The skipped
question about the ident timeout is why `OptionsInv` mentions `idnt`. The loader's steps are those of
`ConfigProofs` (`ReloadStep`, `AfterAll`), cited through `INSTANCE`; `SameLoader` shows that the two
instances of `Config` are the same.

`CipherProofs` proves, for any texts without NUL, keys, random blocks, number of rounds
and `XTEA_DELTA` (`CipherAssumption`):

* `DecryptsBlock`: `XTeaDecrypt` gives back the block that `XTeaEncrypt` was given.
* `TextsComeBack`: `Spec => []TextComesBack`.
* `BuffersFit`: `Spec => []FitsBuffers`.

The recursive definitions are functions, so that induction is over a set of numbers (`Counting`) and
their existence is a lemma (`Recursion`). A round adds modulo 2^16 what the other round subtracts
(`RoundBack`), which needs `sum` to be the same number in both: `EncryptingStates` says that it has come to
`Delta * n` after n turns, which is where `XTeaDecrypt` starts. `d[n] = e[Rounds - n]` is then the
induction of `DecryptsBlock`. `UnchainsBack` undoes the chain block by block, `PaddedBlocks` finds the end of the
text, `HexBack` undoes the digits. `CipherInv` says what a text has become at each stage: itself, `Sent`
behind its random block, or the digits of that, and that only a text with a control character is refused.
Eight-byte blocks of four-byte words differ in the
numbers only.

Model-checked only: all liveness (out of the prover's reach, as is induction over data), and the properties of
the runs marked *violation*, which are false.

## Findings

Each is a run that TLC finds violated; `PROJECT.json` quotes the line that states the property.

1. **A gap in the client's stream** (`client.c:240`, run `client_gap`). After a write to the client
   that timed out or fell short, the loop goes on with the next bytes.
2. **A stale pid file keeps the bouncer from starting** (`misc.c:205`, run `startup_reboots`). After a
   reboot its pid is another process's, and any live process counts.
3. **The editor dereferences NULL after an answer it does not understand** (`makeconf.c:203`, run
   `makeconf_another`).
4. **The bouncer refuses configurations that the editor accepts** (run `makeconf_rejected`). The run shows a
   password that does not fill the key (`config.c:390`: what XTEA reads behind it is not set). The
   property fails as well on the editor's default for the local ip (`makeconf.c:190`: it is saved as
   `(null)`) and on a control character in a text, which is taken for a wrong key (`config.c:403`).
   `RejectedOnlyFor`, which holds, says that there is no fourth but a remote host that is gone.

Further things the models contain, without a run of their own:

* An idle timeout above 2147483 seconds: its milliseconds overflow an int, and a negative product is no
  timeout to poll (`client.c:183`). `IdleSessionEnds` holds up to that number.
* A bouncer starves behind another when the table is full (`server.c:161`): the round ends at the first
  `accept` that fails, the next one starts at the head of the list, and whoever keeps coming back there
  takes each descriptor that becomes free. That is why `EveryConnectionServed` has the premise `ClientsStop`.
* When a session cannot be started its socket stays open (`client.c:291` and `:307`, an `orphan` of
  `Server`); `EveryConnectionServed` has to except a table that is full of them.
* With a full table `AcceptFails` and `Select` alternate without a pause (`server.c:159`).
* A launcher that dies between truncating and writing the pid file leaves an empty one, which no later
  start gets past (`misc.c:197`): `RefusedOnlyIfRunning` fails on it too.
* A pid that `fclose` cannot write is not reported (`misc.c:219`): the empty file `FileNamesDaemon` allows.
* Numbers that do not fit in an int wrap round, in timeouts and ports (`misc.c:260`): `LoadedAsDeclared`
  takes the wrap for the number's meaning.
* The ident timeout defaults to 10 (`config.c:130`); `ebbnc.conf:10` says 30.
* The editor never asks about `idnt` (`makeconf.c:214`): `OnlyIdntIsSkipped`.
* With `identtimeout=0` a silent ident server holds a session, and its thread, for ever (`ident.c:84`):
  the premise `LookupReturns`.
* An ident answer that is cut inside the name names whom the rest of it spells (`ident.c:84-87`): so
  `HeardOut` speaks of what has arrived, not of a whole line.
* The editor ignores a failing `fclose` of the header (`makeconf.c:87`): `Save` may end "lost".
* A remote host that resolved in the editor may not when the bouncer starts (`config.c:185`), which then
  rejects its configuration: the cause `HostIsGone` of `RejectedOnlyFor`.

## Not modelled

* Two peers that each stop reading until they have written everything: without a write timeout the one
  thread then waits for ever, and `RelayIsNotStuck` excludes it (`PeersRead`). An ident server that sends a
  byte before each timeout for ever. Replies that are lost because a socket is closed with unread input
  (`client.c:47`) are in the model, but no property says that the client receives a reply.
* Reading the config file from disk, and splitting text into lines and fields: I/O and text.
* Memory: the result of `getaddrinfo` is never freed, once per session (`misc.c:91`), and neither are
  other allocations followed. A failing allocation is modelled where it changes what happens next.
* The ECB functions of `xtea.c`, which nothing calls, and `misc.c`'s conversions between addresses and
  text, prompts and line drawing: pure functions without state.
* The number of bytes of a line, socket options, address families; port 0; SIGINT and end of input
  at a prompt; the pause after a failing `select`; signal set-up; build files.
* The sessions inside `Server` are only their descriptors. That a session ends is an assumption there
  (the premise `SessionsEnd`) and a result of `ClientLive.cfg` under the timeouts; the two modules are
  not composed, since the product of several sessions with kernel buffers is beyond TLC.

## Plan

Done, in this order: `Stream` and `Client` with the first proofs, `Server`, `Startup`, `Config`,
`MakeConf`, `Ident`, `Cipher`, the proofs of the direction to the client, of `Server`, of `Startup`, of
`Ident`, of `Config`, of `MakeConf` and of `Cipher`. What could follow:

1. A composition of `Server` with an abstract session that `Client` is shown to implement, so that
   `SessionsEnd` is a consequence.
