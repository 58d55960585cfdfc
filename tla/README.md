# Verification of memrec

memrec records what a machine does: a flight recorder for one command
(`bin/memrec.pl`), logging daemons (`sbin/dlogger.pl`, `sbin/duologger.pl`), a
single-shot logger for cron (`sbin/cronlogger.pl`), a Grid Engine load sensor
(`sbin/qloadsensor.pl`), init scripts, and about fifty measurement modules
(`lib/memrec`), all in Perl; and under `src/` the C programs that the
measurement modules start (ipmitool, wattsup, turbostat) and the load generators
that recordings are tried out with (memhog, calcpi, iohog). This directory
models the concurrent core of the Perl programs and the state machines of the C
programs in TLA+, checks them with TLC and proves the main results with TLAPS.
Paths below are relative to the root of the repository (`src/` in
`PROJECT.json`); `ipmitool` stands for `src/ipmitool-1.8.9`.

## 1. The system

### Components

| component | state it keeps | operations | hard because |
|---|---|---|---|
| dlogger.pl | `@objs`, `$sigusr2_flag`, `$pid` of the timer, the pipe, the configuration as last run | start-up, collect, write, wait for a tick, reload, stop | handlers run between any two operations; two processes; reloads fail half way |
| its timer | its copy of `$heartbeat` | sleep, write a tick, be woken by SIGUSR1 | outlives a collector that dies; blocks on a full pipe |
| memrec.pl | `$child_flag`, `$pid`, `$timer_pid`, `@objs` | fork the target, fork the timer, record, notice the end of the target, SIGINT | SIGCHLDs merge; the target may end at any moment, before the handler exists too |
| duologger.pl | as dlogger, plus `$itr`, `$inner2outer`, two lists of objects | as dlogger, in two nested loops | `last` from a subroutine at either level; reloads change the ratio; netinfo10 keeps a copy of it |
| cronlogger.pl | `%data`, `$txt`, `$n` | poll, pack into lines, delete | counting at the limit; long values |
| init scripts | none: they look for processes by name | start, stop, restart, reload, status, condrestart | collector and timer have one name; nothing waits for anything |
| ipmitool, interfaces | session, sequence numbers, list of outstanding requests | open, send and receive, keepalive, close; the serial console | datagrams lost, late and repeated; retransmission; handshakes that stop half way |
| ipmitool, commands | what was read so far, reservations, retry counters | sel, sdr, sensor, fru, hpm, fwum, settings, listings | the controller's data changes meanwhile, requests are refused, cut or lost, two processes set one parameter |
| wattsup | the serial line, the meter's log | options, records, reset | answers are not matched with requests |
| turbostat, dump_tstat | two lists of counters | read, print differences, begin again | CPUs come and go between two readings, counters wrap |
| memhog, calcpi, iohog | memory, threads, flags, files | work, spike, report | threads told to stop by a flag only |
| qloadsensor.pl | last time stamp | answer one request | end of input, two requests in a second |
| wrapctr, basesubs, rate modules | last counter value, last time stamp | difference, rate | wrap-around, first sample, zero time difference |
| followers (sgelog, dmesg), tracers (strace, ltrace), timed helpers (power, ping) | file position, partial line | getdata | rotation, split lines, alarms |

### How they interact

A driver runs its configuration file, which is Perl code: it sets variables of
the driver and fills `@objs` with measurement objects. The driver forks a timer
and shares a pipe with it: the timer sleeps for `$heartbeat` seconds and writes
a newline; the driver waits for a newline, calls `getdata` on all objects and
writes what they put into `%data` as log lines. SIGUSR2 to the collector sets a
flag and kicks the timer with SIGUSR1; the flag is looked at once per cycle and
makes the collector delete its objects and run the configuration file again.
SIGINT deletes the objects, kills the timer and exits. The init scripts send
these signals by name, with `killall`, to collector and timer alike.

Measurement modules start commands: `power.pm` runs `ipmitool -I open sdr list`
and `wattsup -c 1 ttyUSB0 watts`, `ipmiinfo.pm` runs `ipmitool -I open fru list`, `turbostat.pm`
reads the table of turbostat or of `dump_tstat`. A command of ipmitool asks the
management controller (BMC) of the machine, request by request, through one
interface: the kernel's driver (open), or the network (lan, lanplus).

### What makes it correct

* daemons: no timer outlives an orderly stop; no object is leaked or used after
  its deletion; a reload request is not forgotten; the loop goes on as long as
  there is a timer and ends when there is none;
* recorder: it ends when, and not before, the target ends;
* two-level daemon: a record every `inner2outer` ticks, across reloads;
* record: every value of every module is written, once, in well-formed lines;
* init scripts: one daemon at a time, and commands that do what they say;
* interfaces: a call returns, with the answer to its own request; a session is
  active only with a BMC that proved it knows the key, and is closed;
* commands: what is printed is what the controller holds; what is written,
  uploaded or set is what was asked for and nothing else; success means done;
* tools: a reading is that of the request and the interval it is printed for;
  the meter is left as it was; the load ends.

The places where this is hard to test are the `hazards` of `PROJECT.json`, each
at its line and with the properties that watch it.

## 2. The modules

| module | models | extends / uses |
|---|---|---|
| `Daemon` | the life of a daemon as seen from outside: phases of signal disposition, timer, end | - |
| `Dlogger` | `sbin/dlogger.pl` in detail | refines `Daemon` |
| `Duologger` | `sbin/duologger.pl`, the loop structure and the reload, and netinfo10's ratio | refines `Daemon` |
| `InitScript` | `scripts/dlogger`, `scripts/duologger` | composes the script with any number of daemons of `Daemon` |
| `Memrec` | `bin/memrec.pl` | - |
| `LogRecord` | `sbin/cronlogger.pl` and the cycle the other drivers share | - |
| `Lan` | ipmitool `src/plugins/lan/lan.c` | a BMC and a datagram network |
| `Lanplus` | ipmitool `src/plugins/lanplus/lanplus.c`, `lanplus_crypt.c` | the same |
| `Sol` | ipmitool `lib/ipmi_sol.c` (console) and the SOL packets of `lanplus.c` | a BMC with a console |
| `OpenIpmi` | ipmitool `src/plugins/open/open.c`, `lib/ipmi_main.c`, `src/ipmishell.c` | the kernel's driver |
| `Interfaces` | `src/plugins/ipmi_intf.c`: one process over one of the four | composes `Lan`, `Lanplus`, `Sol`, `OpenIpmi` |
| `Sel` | `lib/ipmi_sel.c`, `src/ipmievd.c` | a BMC that logs, others that delete |
| `Sdr` | `lib/ipmi_sdr.c`: the repository, its list and the listing commands | a BMC whose repository changes |
| `Sensor` | `lib/ipmi_sensor.c` and the conversions of `ipmi_sdr.c` | sensors of every signedness |
| `Fru` | `lib/ipmi_fru.c` | devices counting in bytes or words |
| `Hpm`, `Fwum` | `lib/ipmi_hpmfwupg.c`, `lib/ipmi_fwum.c` | a target, a board |
| `Config` | setting commands of `lib/ipmi_lanp.c`, `ipmi_sol.c`, `ipmi_chassis.c`, `ipmi_user.c`, `ipmi_channel.c`, `ipmi_mc.c` | two processes at one controller |
| `Tables` | listings of `lib/ipmi_user.c`, `ipmi_channel.c`, `ipmi_session.c`, `ipmi_pef.c`, `ipmi_lanp.c` | a table that changes |
| `Commands` | `ipmi_cmd_run`: one process runs one of the above | composes `Sel` to `Tables` |
| `Wattsup`, `Turbostat`, `Hogs` | `src/wattsup`, `src/tstat`, `src/memhog`, `src/calcpi`, `src/iohog` | a meter, a machine |
| `Tools` | which of these programs was started | composes the three |
| `XProofs` | theorems about `X` (`Dlogger`, `Memrec`, `Duologger`, `LogRecord`, `Interfaces`, `Commands`, `Tools`) and what it composes; `ToolsProofs` also has those about `InitScript` | `X`, `TLAPS` |
| `ListingProofs` | theorems about `Sdr` and `Tables`, the commands that list, as parts of `Commands` | `Commands`, `TLAPS` |
| `MCX` | TLC instances of `X` | `X` |

`Daemon` ties the Perl programs together: `Dlogger` and `Duologger` are shown to implement
it (`ImplementsDaemon`), and `InitScript` is checked over it, so that what is
checked of the script holds with the programs in place of the abstract daemon.

`Interfaces` and `Commands` are the two halves of ipmitool, checked apart: a
command sees of the interface below it what `Interfaces` shows a call may
return, the right answer, an answer with an error code, or none. The
alternatives "loses the request" and "loses the answer" in the commands' models
are these outcomes, told apart because the controller has acted in the second.

Operators whose comment begins with "Slip" are plausible mistakes in the code
(a missing kill, `return` for `last`, `<=` for `<`). No specification uses them.
They are what the properties are tested with: putting one in the place of the
definition that follows it makes the property named in `PROJECT.json` fail.

### Dlogger

The collector's program counter `cpc` runs through the program text: `boot`
(89) - `ready` (97) - `quiet` (188, signals ignored) - `forked` (233) - `inst`
(266, handlers on) - `collect` (276) - `write` (289) - `wait` (351) - `check`
(353), and for a reload `delete` (392) - `do` (398) - `rearm` (355); `cleanup` (361)
leads to `exited`. `died` is any other end: SIGTERM, SIGKILL, a `die` in a
module or in Netsyslog's `send`, a rejected argument. `astimer` is a collector
whose fork failed: `not $pid` takes `undef` for the child's 0. The timer's `tpc`
is `arm` (241) - `sleep` (245) - `write` (249).

Perl's handlers run between two operations of the interpreted program, so
`handler2` and `handler3` are enabled at every control point from 266 on, the
inside of a `foreach` and the gap between `new` and `push` included. A signal
that comes while one of its kind is pending is merged: `cpend` is a set. The
pipe is a pair of counters, the ticks in the kernel and those in the buffer of
`READER`; `readers` and `writers` say which process holds which end open, since
end of file and EPIPE depend on it. `req` and `reqAny` are history variables:
the version of the file when the last request was taken.

### Memrec

`rpc` follows the program text as above; target and timer are `running` (or
`sleep`, `write`), `zombie` until the recorder waits for them, then `gone`.
SIGCHLD is discarded until line 194; after that every death of a child raises
it, and so does the end of every command that a module runs (`helpers`).
`child_handler` reaps all zombies in one call. `handler3` kills the timer only:
its `our $pid` is not the `my $pid` of line 108, and killing an undefined pid
dies. `early` records that the target ended before line 194.

### Duologger

The pipe is one counter here and objects are two lists, "in" and "out"; the
detail is in `Dlogger`. What is modelled in full is the `for` inside the
`while`, `last` at the two levels, what a reload does to `$inner2outer` in the
middle of everything, and the copy of it in `netinfo10.pm`. The timer catches
SIGUSR1 only between lines 243 and 244. `polls` and `age` count polls since the
last record and ticks since the flag was raised.

### InitScript

`daemons` is the sequence of the daemons launched so far, each a record of
`Daemon`; `script` is what the running command does next. The status test and
the action after it are two steps, and daemons move in between. A launch
returns when the daemon has forked into the background, with its signals still
at their defaults. Two history variables say what a property has to except:
`hurt`, the daemons that lost a process by accident, and `missed`, that a
restart's SIGINT reached a collector that ignores it (lines 190 to 266).

### LogRecord

The keys an object writes and which values are longer than 40 characters are
chosen at the start; the order of the keys is left open, which covers the order
of the hash and the sorted one. `line` is `$txt` with `$n` as its length, `out`
the lines given to `write_log`. `LongAlone = FALSE` is memrec.pl's variant,
which does not look at lengths. The texts themselves (`xid=`, `key=value`) are
left out.

### Lan, Lanplus

A call (`ipmi_lan_send_cmd`, `ipmi_lanplus_send_payload`) is `send` and `recv` in
turn until an answer is taken or the retries are used up; the program's next
call follows from the last one's result (opening is a fixed series of calls,
then any number of the user's, then close). `lanList` and `lpList` are
`ipmi_req_entries`, with what the code's removal really does: of the first
entry, it drops the others too. The network is a pair of queues in which a
packet may be lost, repeated, or come after the timeout. The acknowledgement of a
bridge and the answer of the target behind it are two packets; which of them ends the
call depends, as in the code, on the length of the first, 38 bytes only in an
authenticated v1.5 session. A failing `send` is repeated without a limit: `failing` is
the state in which it fails for ever. An error of `recv` leads to a second wait, whose
result the code takes for a length of what is in the buffer. In Lanplus the state of
the session, the assertions on it and the algorithms of the answer to Open
Session are as in the code; keys are abstracted to `lpBmc.knows`, and a code
matches exactly if the BMC knows the key. `aborted` is a failed `assert`,
`crashed` the dereference of a missing answer to Open Session.

### Sol

Characters are numbered in both directions. `solPay` is the packet under way,
`solNext` and `solLast` the counters of `lanplus.c`; the red pill loop is one action
per source of input: keyboard (with the escape sequences), packet from the BMC,
keepalive timeout. The BMC accepts all of a packet, part of it, or refuses it, and
repeats its own packet, with more characters in it, until it is acknowledged. (A
`recv` that fails leaves the last packet in the buffer to be looked at again: for the
console this is a repeated packet.)

### OpenIpmi

`oiFd` is the driver's queue for the descriptor. `oiOld` counts descriptors that
were opened again without a close (the shell's keepalives, cold reset).

### Sel, Sdr

Requests are steps. `selRes` is the reservation, cancelled by a clear or a delete of
others; `selWatch` holds the three counters of ipmievd. In Sdr bytes of a record are
tagged with the record's version, so that a record put together from two
versions shows; `sdrList` and `sdrItr` live on from command to command, as the
static variables do; a record comes in pieces whose length adapts to refusals.
A command looks at one entry of the list per step (`sdrPos`), and only behind its end
asks the BMC for more; a list from a file is read record by record and may be cut.
The entries a dump puts into the same list, which have a raw record and no decoded one,
are `sdrRaw`, each with the place in the list where it is met.

### Sensor, Fru, Hpm, Fwum

Values and bytes are small integers: a byte of the file or the device is its
position, so that misplaced, missing and doubled bytes show. `hpmErr` and
`fruRqSize` are static variables and keep their value. The peer may refuse
a length, be busy, lose a request or an answer, hold less than it says. A reading is
linearized (square and cube stand for the functions that can be computed, "nonlinear" for
those that cannot), a threshold is not. The image of an HPM.1 upgrade is a list of
action records; the target may refuse or fail any of its requests, the activation
included, and roll back by itself. "fru edit" that cannot find its records walks from offset 0,
where the bytes can mean any header, and on behind its buffer. The loops of fwum that
repeat a piece without a limit are as they are: `repeating` is a board that never lets
them out.

### Config

Each process has a record with its step; a parameter is a set of bits, bit `p`
being what process `p` is to set. The flag "set in progress" is taken and given
back differently by `lan set`, `sol set` and `chassis bootdev`, and so are the
answers read: the table of steps follows the code for each. Bit 0 stands for the bits a
command is not about, `CfLimit` for the privilege and session limits that share their
request. What strncmp returns is any positive number, so its lowest bit is either.

### Tables

`tb` is the command with the entry it is at; each command's function takes an
answer to the next state. The versions in `tbRow` change between the two
requests for one row. The records of the cipher suites are taken apart one per
step (`TbRead`) once all the data is there.

### Wattsup, Turbostat, Hogs

`wuTty` is what can be read from the line, `wuTodo` what main still does; a read takes
whatever comes first. The meter may be logging when the tool comes, and a write may put
only part of a request on the line. turbostat reads the `TsMsrs` counters of a CPU one by one. A reading carries beside the counter (modulo
`TsModulus`) the time and the incarnation of its CPU, which only the properties look at.
The hogs are straight lines of steps (`hogTodo`) beside their threads and children. A
thread that could not be made is joined all the same, which fails or hangs. iohog has its four
options, stdio's buffer for the file and one for the report, which a terminal gets line by line.

## 3. What TLC checks

| run | states | properties | shows |
|---|---|---|---|
| dlogger | 351,666 | `ConfigFollowed`, `ReloadHonoured`, `TimerSafe`, `ImplementsDaemon`, `ReloadHappens`, `DaemonEnds`, `KeepsCollecting` | no orphan timer, objects accounted for and of the loaded configuration, requests honoured, refinement of `Daemon`; reloads and stops happen, the loss of the timer ends the daemon, the loop goes on |
| memrec | 1,708 | `NoMissedExit`, `EndsRight`, `RecorderEnds` | no death of the target is missed once the handler is there, the loop ends for a reason; the recorder ends after the target, after SIGINT, after the timer |
| duologger | 137,010 | `LoopExact`, `ImplementsDaemon`, `DaemonEnds` | cadence, reload latency, agreement with netinfo10, refinement of `Daemon`; stop and loss of the timer end it |
| initscript | 20,351 | `ScriptSafe`, `StopWorks` | when two collectors can run side by side, no timer stranded by a command, stop works, with restarts piling up daemons and processes dying |
| logrecord | 80,172 | `LogExact` | nothing lost, nothing twice, lines in shape |
| interfaces | 1,375,394 | `RightAnswer`, `SessionClosed`, `LanSeqAdvances`, `LpAuthentic`, `SolExact`, `CallsReturn` | each call returns, with its own answer; sessions authentic, numbered and closed; the console exact in both directions |
| commands | 793,260 | `SelExact`, `SelDeletesReserved`, `SdrTrue`, `SdrDumpTrue`, `HpmSafe`, `FruExact`, `FwImageSafe`, `SnExact`, `CfSuccessTrue`, `CfOthersKept`, `CfFlagBack`, `TbListTrue`, `CommandsEnd` | what is listed is true and complete, what is written, uploaded or set is what was asked for, success is the truth, flags come back, commands end |
| tools | 1,719,777 | `WuOwnAnswer`, `WuLeavesMeter`, `TsTrue`, `HogSafe`, `ToolsEnd` | the meter's answers in step with the requests and its log switched off; differences of one CPU over one interval; memory freed when nobody uses it |

Several properties are conjunctions of named parts, each stated and commented
where it is defined: `ConfigFollowed` (`ObjectsAccounted`, `PollsLoadedConfig`),
`TimerSafe` (`NoOrphanTimer`, end of file only after the timer's death),
`EndsRight` (`RecordsToTheEnd`, `EndStep`), `LoopExact` (`OuterCadence`,
`ReloadLatency`, `ModuleAgrees`), `LogExact` (`NothingLost`, `NothingTwice`,
`LineShape`), `ScriptSafe` (`OneDaemon`, `NoStuckTimer`), `RightAnswer`,
`SessionClosed` and `SolExact` (one part per interface or direction), and so on.

Four further runs end in a violation, each of one statement that the
repository makes and the code does not keep; `findings` quotes them:

* `dlogger_lost_reload`: "handlers are only 'on' during the sleep call": they are
  always on, and a request in the window before line 356 is lost;
* `memrec_early_exit`: a target that ends before line 194 is never noticed, and the
  recorder runs for ever, unless a module happens to run a command;
* `lanplus_assertions`: a packet of the RMCP+ handshake that is sent a second time
  meets the assertion on the state that the first transmission has changed, and the
  program aborts where it was to retry;
* `hpm_refused_activation`: "Firmware upgrade procedure successful", though the
  activation was refused, because the question about the rollback was answered.

Deadlock checking is off in all runs: every system here is meant to stop.

### What the properties except

Where the code does not keep what one would expect, and no text of the
repository says that it does, the property excepts the case by name:

* duologger's -S leaves the timer running, and -i is forgotten at the first
  reload (`OptS` and `GivenI` are FALSE in the run);
* SIGINT to memrec leaves the target running: `our $pid` of handler3 hides the `my $pid`
  of line 108;
* a bridged request over lanplus, or over lan without authentication, returns the
  acknowledgement of the bridge, which is never 38 bytes long there (`RightAnswer`);
* over lan a call does not return while `send` keeps failing (`CallsReturn`); after a lost packet or an unanswered call, an answer of an earlier
  transmission can be taken for this one's (`LanRightAnswer`); over the driver,
  after a failed `select` (`OiRightAnswer`); a refusal of Set Session Privilege leaves the
  session of lanplus open at the BMC (`LpClosesSession`);
* the watcher of the event log logs the first entry twice (`SelWatchOnce`);
* the record ids of `sel delete` are protected from clears after the
  reservation, not before it (`SelDeletesReserved`);
* a sensor record whose reservation was renewed half way may be of two versions,
  and after five errors an old answer is taken for a header, so that the walk may
  not end (`SdrTrue`, `CommandsEnd`); after a dump a command that looks into a
  record, as "sdr entity" does, dies on the entries the dump has left (`SdrDumpTrue` is about the others);
* an HPM.1 target that stays busy is asked for ever, because the counter is reset
  on every round (`CommandsEnd`); the success an upgrade reports may be that of the
  question about the rollback (`HpmSafe`);
* fwum repeats a piece as long as the board gives answers that ask for it
  (`CommandsEnd`);
* "fru edit" may die behind its buffer (`CommandsEnd`), and a record that lies across the end of what
  was read is torn (`FruExact`);
* a threshold the sensor cannot have is wrapped to a byte, and one of a sensor without a
  conversion is 0; linearization is not undone, so that a threshold of 9 for a sensor that
  squares is shown as 81 (`SnExact`);
* `lan set vlan`, `lan alert set` and `lan stats clear` return 0 though nothing was set
  (`CfSuccessTrue`), and so does `channel setaccess` when strncmp's value for "on" is even, as "n" - "f" is, and the bit is cleared instead of set; `lan
  set access` overwrites the channel's limits, and the commands about a user's access reset that
  of the user's sessions; values are read before the flag is taken (`CfOthersKept`); an
  answer lost in `sol set` leaves the flag set for everybody (`CfFlagBack`);
* `lan alert print` shows a wrong type, and `pef policy` prints nothing when one entry
  could not be read (`TbListTrue`);
* storing the user's parameters in the meter shifts later answers, and so do a cut request, a read that
  failed and a meter that was logging when the tool came; -z may print a record (`WuOwnAnswer`). A meter
  that was logging is left so by `--no-data` and by errors (`WuLeavesMeter`);
* iohog's report of a record may be seen before the record is in the file without an
  option, with -S, and with -F on a terminal (`HogReported`); a join of a thread that was never made
  may hang (`ToolsEnd`);
* the counters of a CPU that has gone read as 0 in one table (`TsTrue`).

### Bounds

* dlogger: two modules (an object in only the old or only the new configuration, and
  one left between `new` and `push`); one edit of the file (`MaxEdits`), so that a
  request can be older or newer than what is loaded; `PipeCap` 2 and `BufSize` 2: a fill
  that empties the pipe, one that does not, and a full pipe; `OptS` FALSE, the
  theorems hold for both values;
* ratios 0, 1 and 3: no inner iteration (0 and 1) and more than one;
* `MaxStarts` 3: a restart on top of a restart;
* five keys, two objects, `$linesz` 2: full lines, a partial last line, a long
  value on an empty and on a started line, a key written by both objects;
* interfaces: 2 retries (3 in lanplus, for a retry of a retry in the handshake), 4
  or 5 sequence numbers and 6 or 7 calls, so that numbers wrap within one session
  and a late answer can meet a number used again; session sequence numbers wrap
  after 4; cipher suites 0 (no authentication), 3 (SHA1 and AES), 4 and 7 (algorithms
  the code asserts it never meets) and 15 (unknown); 2 faults (`LanMaxFaults`, `LpMaxFaults`), so that a retransmission can be lost as well; 2 characters in
  each direction and 1 fault for the console, enough for a packet repeated with more
  in it and for a part accepted;
* commands: 4 events; limits on the length of a read or block below and above the
  program's own (2 and 9, 6 and 255), so that pieces are refused, shortened
  and odd at the end; a repository with a full and a compact sensor and a record the list
  does not keep; two sdr commands, the second
  over the list of the first, either of them a dump; a dump that takes errors for headers has at
  most 2 entries (`SdrMaxRaw`); HPM.1 images of several actions, one of them unknown, 2 faults and
  one status request before the timeout (`HpmPolls`); an inventory of 18 bytes that crosses the chunk
  size, on devices with limits 1, 3 and 255 counting in bytes or words, one with
  only 12 of its 18 bytes; headers met where there are none claim 3 or 6 bytes (`FruLens`), and 2
  bytes behind the buffer can be read (`FruHeap`); a Kontron board that fails 3 requests
  (`FwMaxFaults`), answers that only make the program repeat not counted; sensors unsigned, one's
  and two's complement and discrete, with m = 0, m < 0 and linearizations, over
  16 raw values with the extremes, and thresholds within and out of their range; any setting command beside one of arp, alert, sol,
  boot, access and setaccess; tables of 3 entries, one of them empty; 1 to 3 faults each,
  as many as the retries that have to run out;
* tools: 2 retries, 2 records of the meter at most (`WuMaxRecords`; one more than a command asks
  for, or one left on the line); 3 CPUs in 2 packages with 2 counters each (`TsMsrs`), counters modulo 4, 3 plugs (away,
  back, away); 2 threads, 2 rounds, 3 records, 2 children;
* symmetry over keys only (logrecord), which no action tells apart; not used where
  liveness is checked.

### Fairness

Weak fairness of each process's own steps (the operating system schedules
them; a `sleep` ends; a `read` on a pipe with data returns) and of each handler
(Perl runs a pending handler at the next safe point). One `getdata` is assumed to
return. Nothing is assumed of the administrator, of signals arriving, or of
processes dying; a fork may fail or not. In InitScript a command that was begun
is finished. In ipmitool and the tools the program's steps are weakly fair (a
`select` with a timeout returns), those of each of the two processes of `Config`, of each thread
and child of the hogs, and the steps with which the other end (BMC, driver, meter) takes and
answers a request that reached it; faults, users of the console, other programs
and hot plugging are assumed neither to happen nor not to. Strong fairness is
nowhere needed.

## 4. What is proved

TLAPS proves the following for all values of the constants: any set of
modules, any pipe and buffer capacity, any number of edits, daemons, processes,
threads, retries, calls, faults, records and bytes. Assumptions are the named ASSUMEs
on the constants (numbers are naturals, capacities not 0, options Boolean, tables and
command lines of the right shape, record ids of a repository different), which TLC
evaluates in every run. Some theorems have a hypothesis of their own, listed at the end
of this section.

* **Dlogger** (`DloggerProofs`): types, `NoOrphanTimer`, `ObjectsAccounted`,
  `PollsLoadedConfig`, `ReloadHonoured`, `EofOnlyWhenTimerGone`, and that it
  implements `Daemon`. None is inductive as it stands, because each speaks of a
  few control points only. `PipeInv` ties pipe ends to processes (a live timer
  holds the write end, so end of file means its death; the clean-up is reached
  only with -S or after that death). `ObjInv` says what `live` is at every point of a
  reload: all of `todo` while deleting, `@objs` and at most one object more while
  the file runs. `ConfigInv` says that `@objs` and the rest of the file to run come
  from `loaded`. `ReloadInv` orders the versions: request <= file, loaded <= file,
  and loaded >= request wherever the flag is down. The refinement uses `PipeInv` for
  the steps that end the daemon.
* **Memrec** (`MemrecProofs`): types, `NoMissedExit`, `RecordsToTheEnd`,
  `EndsWithReason`. `RecorderInv` adds that a zombie target that was not early has a
  SIGCHLD pending in every state, and that the clean-up is reached for a reason.
* **Duologger** (`DuologgerProofs`): types, `OuterCadence`, `ReloadLatency`,
  `ModuleAgrees`, and without -S that it implements `Daemon`. `CountInv` relates `polls`
  to `$itr` at each point of the inner loop, `AgeInv` bounds the age of a request by `$itr`,
  `RatioInv` holds because `$inner2outer` changes only while both lists are empty.
  `LifeInv` is what the refinement needs beside them: no timer before the fork, no signal
  pending before the handlers are on, the clean-up only with -S or after the timer's death.
* **InitScript** (`ToolsProofs`): `ScriptSafe`, over any number of daemons. To
  `OneDaemon` and `NoStuckTimer` come `LaunchAlone` (a launch finds no collector that nobody
  has asked to stop: the status was looked at, or a restart has signalled them all)
  and `TimerLate` (a collector that starts has no timer yet).
* **LogRecord** (`LogRecordProofs`): types, `LineShape`, `NothingLost`, `NothingTwice`, and
  with them `LogExact`. `ShapeInv` adds that the line in progress has room for one
  more value and holds no long one; `LossInv` that before the packing `%data` has
  every key of the objects polled; `TwiceInv` that the keys still to be packed, those
  of the line in progress and those written are apart.
* **Lanplus** (`InterfacesProofs`): `LpAuthentic` and `LpHandshakeAnswer`. Neither is
  inductive: what was agreed in Open Session decides much later whether a session comes
  up. `LpPhase` says which calls belong to which state of the session and that the list of
  requests holds only v1.5 entries before the handshake and none during
  it, so that no payload of the handshake can be answered by something else;
  `LpAgreed` says that past Open Session the algorithm is that of the suite asked for.
* **Interfaces** (`InterfacesProofs`): `SessionClosed`, `LanSeqAdvances`, `RightAnswer`.
  For the numbers of a session `LanNumbered` counts how far the next one is ahead of
  the last that was sent: one, and one more per send that failed. For the answers the
  invariant places every packet, in the list, at the BMC or under way, by
  `LanSince`, the number of requests built since (acknowledgements of a bridge are told apart
  by whether the session is authenticated): those of the call in
  progress are exactly the ones no further back than the list is long, so that a
  number can be met again only after a fault that the property names. `OiQuiet` says
  that the driver holds at most the request or the answer of the call in
  progress; `LpEnd` and `SolEnd` which steps of closing have been made at each point.
* **Sol** (`InterfacesProofs`): `SolExact`. Sequence numbers wrap and copies of old packets and
  acknowledgements may be under way, so `SolFlow` says of everything under way which it is:
  output the program has had already, or output of the packet the BMC has open, and
  acknowledgements no further than what was printed. `SolArrived` says that what was
  printed is the output in order up to there. For the input `SolPath` and `SolSettled` say the
  same of the payload being sent, and `SolCounted` that the characters accepted, those
  still in the payload and those in the buffer make up what was typed.
* **Config** (`CommandsProofs`): `CfSuccessTrue`, `CfOthersKept`, `CfFlagBack`. The
  properties speak of processes that have ended; `CfPast` says for each step of each
  kind of command what the process has done by then, `CfCopied` that what it is
  about to write back holds the bits it read, `CfFlags` who holds which flag, for any
  number of processes.
* **Sel** (`CommandsProofs`): `SelDeletesReserved` from `SelReserved` (a reservation does not
  outlast a clear); `SelExact` from `SelGood`, which says of the
  walk that what was printed are the ids in order up to the one it stands at, and
  of the watcher what its three counters stand for.
* **Fwum** (`CommandsProofs`): `FwImageSafe` for boards of both kinds. With addresses, what is on the
  board is right up to the address reached; with sequence numbers the board is
  at most one piece ahead, the one whose answer was lost (`FwNotStored`, `FwIsStored`), and
  an image that got a piece twice stays too long to be accepted.
* **Hpm** (`CommandsProofs`): `HpmSafe`. The bytes the target has are those up to the
  position of the upload, or up to the end of the block under way if the answer was
  lost, told apart by the block numbers, after the uploads of the earlier actions; `HpmLong` says that blocks never shrink to nothing.
* **Fru** (`CommandsProofs`): `FruExact`. `FruStage` says what is read or written at each stage and
  that its start is even on a device that counts in words, `FruDevice` which bytes
  of the device may differ from the original, `FruSoFar` how far the buffer is filled
  with its bytes; the program trusts its buffer, and this says where it may. A walk from offset 0
  writes back bytes of the device, but for the record it edits, wherever it believes it to be.
* **Sensor** (`CommandsProofs`): `SnExact`. Lemmas show that a reading is converted to what its raw value
  stands for in all three representations, linearized as the code does it, and that the conversion of a threshold, with its
  quotient towards zero, its half and its byte, is less than a step off (half a step without
  a sign). `SnShowing` says that the line put together before the thresholds are asked for is of a
  value the sensor had, `SnSetting` that what is set and what is still to be set was asked for.
* **Sdr** (`ListingProofs`): `SdrTrue`, `SdrDumpTrue`. `SdrInHand` says that the bytes in hand are of the version that is
  there while the reservation holds, and of one version until it is renewed, which gives whole
  records whatever happens. While nothing disturbs the process, the list has the kept
  records up to the one the iterator stands behind, in order (`SdrListHas`, `SdrStands`), dumps have left only whole
  records (`SdrDumpsRight`), and
  what was printed and is still to be printed are the entries the command is about among
  those it has seen (`SdrShowsSeen`), across the change from the list to the BMC and from one
  command to the next. A command ends when all was seen or when the one record it
  looks for was found. During a dump the list and its iterator are set aside (`SdrAside`), and
  what was dumped are the records in order, over and over, up to the one the dump's own
  iterator stands behind (`SdrCopies`); that a dump ends the reservation costs later commands
  a renewal before the next header, never inside a record.
* **Tables** (`ListingProofs`): `TbListTrue`. `TbSoFar` says up to which entry the list is right:
  entries in order, none twice, and those that nobody changed and no failed request hurt are
  there and true. `TbStageOf` says for each step of each listing up to where, and what the code keeps
  of earlier answers for the rest (`TbCollected` for the data of the cipher suites, `TbPicked` for the
  policies in use).
* **Hogs, Turbostat, Wattsup** (`ToolsProofs`): `HogSafe`, `TsTrue`, `WuOwnAnswer`, `WuLeavesMeter`. The
  programs of the hogs are lists of steps, so `HogWorkers`, `HogReaped` and `HogFiled` say what holds before
  each step still to do. For turbostat `TsWorth` gives what a reading is worth (its counter is the true one
  modulo the width, its time that of its list), `TsTimes` the times of both lists and `TsNoted` that
  a CPU which went away is noticed before its counters are subtracted. For wattsup
  `WuInStep` counts: what can still be read from the line answers the requests made, in
  order, and `WuStops` says that the stop of the log is still to be sent wherever it was not.

`TimerSafe`, `ConfigFollowed`, `EndsRight`, `LoopExact` and `LogExact` are proved from their
parts. The composed theorems rest on lemmas that a step of `IfNext`, `CmdNext` or `ToolNext` is
a step of one component and leaves the others unchanged (`IfStep`, `CmdMoves`,
`ListingMoves`, `ToolMoves`). In `ToolsProofs` an induction over positions (the order of a list, what is still to do) is replaced by the
existence of a least counterexample (`NatLeast`).

The hypotheses, each of which the runs fulfil too:

| hypothesis | of | says | in the code |
|---|---|---|---|
| `~OptS` | `Implements` of `DuologgerProofs` | no -S | with -S the timer is left running (section 3) |
| `LanFew` | `SeqAdvances` | `LanMaxFaults + 2 < LanInSeqs`: failed sends do not lead once around | 2^32 numbers |
| `LanRoom` | `RightAnswers` | `2 * LanRetry <= LanSeqs`: the numbers of two calls are different | 4 tries, 64 numbers; a user who asks for more than 32 tries loses it |
| `SelRoom` | `LogExactlyShown` | `SelMaxEvents < SelEnd`: fewer events than record ids | 0xffff is no id |
| `FwFew` | `ImageSafe` | `FwRetry + 1 < FwSeqs` | 6 tries, 256 numbers |
| `HpmRoom` | `UpgradeSafe` | blocks and limits are no shorter than the errors that shorten them | 26 bytes and 6 errors |

Every safety property of the passing runs is proved. Only model-checked: everything under fairness
(`ReloadHappens`, `DaemonEnds`, `KeepsCollecting`, `RecorderEnds`, `StopWorks`, `CallsReturn`,
`CommandsEnd`, `ToolsEnd`), which is out of the prover's reach.

## 5. What is not modelled

* pids: `kill` reaches the process that was meant; a recycled pid is not modelled;
* time: a heartbeat is a step, so its length (the timer keeps the one it was forked
  with, whatever a reload sets), drift and catching up after a slow collection
  show only as ticks waiting in the pipe; a timeout may come at any moment;
* output: a failing `send` or `print` is either unnoticed or the death of the
  process; buffering of memrec's log file is left out;
* duologger reloads and deletes its objects in one step; their granularity
  is that of Dlogger;
* ipmitool: digests and ciphers (a code matches or not), the interfaces imb, lipmi,
  bmc and free (drivers of other systems, one synchronous call each), what SPD bytes and
  multi records mean, commands of one request or one vendor, option parsing, and
  the layout of what is printed; exponents of ten in sensor conversions;
* the commands run over the outcomes of a call, not over the packets: `Interfaces`
  and `Commands` are not multiplied;
* of the Perl part: `wrapctr.pm` and `basesubs.pm`, the rate modules, followers of
  growing files, tracers, helpers with a time limit, Netsyslog and
  qloadsensor, which are sequential and come next in the plan. Reading them showed: the
  difference across a wrap-around in `wrapctr.pm:60` has its operands swapped and that of
  `basesubs.pm:45` is one short; `turbostat.pm:178` divides by zero when two rounds fall
  into one second; `qloadsensor.pl:79` does not look at the end of its input, and line 89
  makes up time stamps that run ahead of the clock; the alarm of `power.pm:104` may
  come late or not at all;
* memoryless modules, log readers, previous versions and beta modules are out of scope
  (reasons in `components`).

## 6. Plan

1. Done: `Dlogger`, `Memrec`, `Daemon`, `Duologger`, `InitScript`, `LogRecord`; ipmitool
   (`Interfaces`, `Commands` and what they compose); `Tools`; the proofs above.
2. `WrapCtr`: `wrapctr.pm` and `basesubs.pm` at a parametric width, against the true
   difference of two readings of a counter that may wrap.
3. Rates: `netinfo.pm`, `netinfo2.pm`, `diskstats.pm`, `procstat.pm`, `vmstat.pm`,
   `turbostat.pm` over a clock and counters; `netinfo10.pm` with its windows, composed
   with the ratio of `Duologger`.
4. `LogFollower` (`sgelog.pm`, `dmesg.pm`), `TraceReader` (`strace.pm`, `ltrace.pm`),
   `TimedHelper` (`power.pm`, `ping.pm`, over the ends of the commands in `Tools` and `Commands`),
   `LoadSensor` (`qloadsensor.pl`), `Netsyslog`.
5. Proofs: theorems about the modules of 2 to 4 as they come.
