# openHC in TLA+

openHC replaces the firmware of a family of home controllers: kernel drivers,
the firmware of an I/O microcontroller, a dozen Rust daemons around an MQTT
broker, and a desktop flasher that installs all of it. This directory holds
TLA+ models of the parts that must survive concurrency, lost messages, resets
and power cuts; the TLC configurations that check them; and TLAPS proofs of
every invariant those configurations check, for all values of the constants.
Every definition is translated from the source; `PROJECT.json` maps each one to
its lines, lists the runs, the hazards that motivated the properties, and for
each property a mutant of the model that breaks it.

    tlc -workers 2 -config MCIomcuLink.cfg MCIomcuLink     # any run
    tlapm IomcuLink_proof.tla                              # any proof

## 1. What openHC consists of

### Boards and firmware

| component | state it keeps | operations | meets | hard behaviour | correct when |
|---|---|---|---|---|---|
| IO-MCU kernel driver, `board/common/kernel/drivers/gpio/gpio-ohc-iomcu.c` | `io_lock` and the sequence number; the decoder's wanted number, frame and completion; the contact cache; `online`, `in_boot`, `updating`, `registered`; the upload | request and send a frame; gpio, tty, lirc, rc and `/dev/ohc` operations; contact poll; bring-up; reflash | the part by UART and reset line; iod by the devices | callers that give up while an answer is on the wire; unlocked caches; a gate tested before a lock is waited for; power cuts in a reflash | an answer is the caller's; a success happened; a cut write can be repeated |
| IO-MCU firmware, `board/common/firmware/io-mcu/core` | pin table, the code on the air, the capture, the jack's UART | one handler per opcode; the burst interrupt; the main loop's polls | the driver | the interrupt between any two steps of the loop | one code at a time, no self-capture, nothing driven outside the table |
| HALs, `io-mcu/hal`, `io-mcu/parts` | registers | set pins, timers, UARTs | the core | none visible to the core | - |
| audio, bus and FPGA drivers, `board/ea`, `board/ioxv1` | DMA rings, codec registers | ALSA, SPI, gpio, pwm operations | the kernel's frameworks | DMA position against the reader | the frameworks' contracts |

### Daemons, `packages/`

| component | state it keeps | operations | meets | hard behaviour | correct when |
|---|---|---|---|---|---|
| ohcmqtt | the payload last sent to each topic | `set`, `republish`, `online` | rumqttc and mosquitto, from six daemons | what is queued dies with a connection; the broker's RAM dies with it | the broker ends up with the daemon's state |
| audiod | levels and their file; endpoints and their programs; the announcement turn; metadata | set and sync levels; save a map; announce; HTTP and MQTT commands | ALSA controls, librespot, shairport-sync, the broker | a level three parties write; programs that die late; ramps interrupted by a restart | a level set reads back; the saved map runs; music returns after every announcement |
| iod | serial sessions and their pumps; jack modes; the mirror of relays, contacts and LEDs; the event bus; MQTT settings | open, write and reopen a port; switch a jack; set a relay or an LED; reset the part; save the settings | the driver's devices, the broker, browsers | pumps that are told to stop and have not run; readings published after what they read has changed; a bus that drops | one reader per tty; the mirror and the broker settle on the truth |
| zigbee | nothing between runs but the radio itself | find the app, launch it, flash by XMODEM | the radio's bootloader | late and lost bytes; a kill in an upload | the radio ends on an app no older than ours |
| switchd | the configuration and its file | read and write the configuration; apply it; enable a port | `ip`, `bridge`, the boot script | what an earlier apply left | the network is what the configuration says |
| sysmond | samples; the fan's mode; the USB watcher | sample; set the fan; guard; recover a port | hwmon, the thermal zone, a load switch | a guard that waits behind the broker; a port two parties switch; sensors that come late | a hot part is never left with a slow fan; a user's "off" stays |
| update | status and channel | check, install | the release server, the boot partition | power cuts between two renames; a channel changed during a check | "up to date" is true |
| restore | nothing between calls | give back the IO part, the radio and the boot chain | the microcontrollers, eMMC and MTD | each step may fail or be cut, and each boot of openHC undoes some of them | stock boots with stock firmware |
| storage | drives, mounts, share names; uploads | scan, mount, eject, share; upload, rename, delete | udev, Samba | a drive ejected or pulled while a scan is under way; uploads of one name at once | a drive plugged again is mounted; a listed file is whole |
| webd | the on-screen view's settings and scheme; a password, a clock | set the view; check the sun; proxy requests | the display service and its view, the other daemons | runs of a service that overlap, beside its supervisors | the view is on or off as set |
| wifi | a captive portal | write a configuration | wpa_supplicant | little of its own | - |

### Flasher, `flasher/crates`

| component | state it keeps | operations | meets | hard behaviour | correct when |
|---|---|---|---|---|---|
| core | none: layouts, menus and script text | build menus, scripts, table items | engine | sizes against what a script reads | the boot chain it describes boots |
| engine | the stage of an install | the HC-800's install, restore and uninstall; the EA's stage 1, stage 2, one-shot and self install; netboot | SSH, the board's eMMC, MTD and console | a cut or a failure between any two writes, an old script reading new images | every cut boots something; stock is wiped only when asked |
| transport | a transfer | TFTP, BOOTP, SSH, SDDP, serial | the board's boot ROM and bootloader | late and lost datagrams, a 16-bit block number | a transfer reported done was received |
| gui | the step, the job state behind one lock | scan, connect, load, install | engine | jobs that end in any order; drops that ignore `busy` | one install, to the box shown |
| cli | none | call the engine's operations in turn | engine | - | - |

Not listed there: the equaliser plugin, the browser view, the splash, the
patches and packaging of librespot and figlet, the init scripts and the build.

### How they meet

The driver talks to the firmware by frames over one UART; iod is the daemon
behind the driver's devices. Every daemon publishes retained state and takes
commands through the broker (mosquitto, whose bridge iod configures). webd
proxies the daemons' HTTP interfaces. The flasher replaces all of it from
outside, update and restore from inside: the three write the same boot chains,
which is why one module models a chain with all of its writers.

## 2. The modules

| module | models | checked in |
|---|---|---|
| `IomcuRpc` | what a caller of `ohc_request` may rely on: an at-most-once call (abstract) | `link`, as `RefinesRpc` |
| `IomcuLink` | `__ohc_request`, `ohc_send`, `ohc_frame_complete`; the answering side of the firmware | `link`; proofs in `IomcuLink_proof` |
| `IomcuRelay` | `ohc_gpio_set` and `ohc_node_write` over that call | `iomcu`, `relay_pair`; proofs in `Iomcu_proof` |
| `IomcuContacts` | `ohc_poll`, `ohc_gpio_get`, `ohc_flash`'s part in the cache | `iomcu` |
| `IomcuLoader` | `ohc_bringup` to `ohc_fw_work`: knock, run, identify, register, write | `iomcu`; proofs in `IomcuLoader_proof` |
| `IomcuApp` | the firmware's `app.c`, with the driver as its host | `iomcu`; proofs in `Iomcu_proof` |
| `AudioLevels` | one output's level in audiod | `audio`; proofs in `Audio_proof` |
| `AudioAnnounce` | announcements: turn, source, duck, play, ramp | `audio`; proofs in `Audio_proof` |
| `AudioEndpoints` | the endpoint map, its programs and what they report | `audio`; proofs in `Audio_proof` |
| `AudioLibrary` | the music library's connection to mpd | `audio` |
| `OhcMqtt` | a daemon's two MQTT tasks, its request channel and the broker | `iod`, `mqtt_full`; proofs in `Iod_proof` |
| `IodMqtt` | iod's event bus, client, settings and supervisor, with the broker | `iod` |
| `IodSerial` | a serial port: session, pump, terminals, combo jack | `iod`; proofs in `Iod_proof` |
| `IodIo` | relay, contact, LED: mirror, poller, commands, recovery | `iod` |
| `Updated` | updated: channels, checks, the swap of two images | `box`; proofs in `Box_proof` |
| `Switchd` | switchd: configurations applied over one another | `box`; proofs in `Box_proof` |
| `SysmondFan`, `SysmondUsb`, `SysmondHistory` | sysmond: fan, USB recovery, ring of samples | `box`; proofs of the last two in `Box_proof` |
| `Storage`, `StorageFiles` | storaged: drives and ejection; uploads | `box`, `storage_eject`; proof of the second in `Box_proof` |
| `ZigbeeNcp` | zigbee: the radio's firmware, found and flashed | `box` |
| `Restore` | restore: the order of the way back to Control4 | `box`; proofs in `Box_proof` |
| `WebdDisplay` | the on-screen view's settings, service and supervisor | `box` |
| `Hc800Boot` | the HC-800's boot chain and its writers | `flasher`, `hc800_cut`; proofs in `Hc800Boot_proof` |
| `EaBoot` | the EA's boot chain and its writers | `flasher`, `ea_plain`; proofs in `Flasher_proof` |
| `FlasherGui` | the flasher's window and its jobs | `flasher`, `gui_other`; proofs in `Flasher_proof` |
| `TftpServe` | the flasher's TFTP server | `flasher`; proofs in `Flasher_proof` |
| `EaNetboot` | booting an EA into RAM over BOOTP, TFTP and its console | `flasher`; proofs in `Flasher_proof` |

`MCIomcuLink` only adds constants and symmetry. The other five `MC` modules of
the passing runs put components together that share nothing in the code but the
box (or the daemon) they run on. They hold every component's variables side by
side and one more, `part`, chosen at the start: that component takes its steps,
with its own fairness, and the others stand at one of their initial states. The
states of such a run are the sum of its components', not their product, and
nothing is lost by it as nothing passes between them; what does pass between
components is inside one module (a boot chain and all its writers, a daemon and
the broker, the driver and the firmware). A liveness property of one component
that its initial state does not satisfy is stated with `part = ... =>` in front.
The constants of the components that are proved about are constants of the `MC`
module, so that a theorem holds for all their values and the `.cfg` gives those
of the run; the others are in its instances. Each composition has a theorem that
a behaviour of it is one of every proved part (`PartsOfTheWhole`) or that the
parts' invariants hold of the whole (`BoxIsSafe`, `FlasherIsSafe`). `MCEaBoot`,
`MCFlasherGui` and `MCStorage` give constants to the violation runs.

### The IO-MCU: IomcuLink, IomcuRelay, IomcuContacts, IomcuLoader, IomcuApp

The five modules cut one program where its parts meet. `IomcuLink` shows in
detail what an exchange is; `IomcuRelay` takes an exchange to be what
`IomcuRpc` promises (acted upon and answered; or failed and acted upon, not
acted upon, or not yet); `IomcuContacts` and `IomcuLoader` take it as one step
that can fail.

*IomcuLink.* Each kernel thread has a place in `__ohc_request` (`pc`): it
queues on `io_lock`, arms the decoder under `rx_lock`, resets the completion,
writes the frame, waits, copies the answer out, and leaves. The decoder runs in
the tty worker: `Capture` is what it does under `rx_lock`, `Complete` what
follows its unlock; a caller can leave in between. Frames are lost in either
direction, and the firmware sends frames of its own with its own counter in the
same byte. A request is named by the count of frames issued, which the code
does not keep; the wire carries `Stamp(id) = id % Wrap`. `Acquire`'s last
conjunct is the one assumption the one-byte number needs: nothing on the wire
is `Wrap` requests old. It is justified by the part's receive ring (512 bytes,
below 64 frames) and by each silent request costing 600 ms. `crossed` is
history: some caller left while the decoder stood between its unlock and
`complete()`. `OwnAnswer` is stated for the behaviours where neither that nor
an unsolicited frame happened, because the code cannot tell either apart from
its answer.

*IomcuRelay.* The firmware can GET and TOGGLE a relay. A writer is at its GET
or its TOGGLE; `late` counts TOGGLEs whose caller has given up and that may
still arrive (the link keeps the order, so no later exchange is answered before
them). `seen`, `crowded` and `settled` are history for the properties.

*IomcuContacts.* One contact stands for the mask. The poller, the readers and a
flash store `mask` and `valid` without a lock, each store a step, in program
order (the boards' CPUs are x86). `poll_ms` may be set to 0 at run time.

*IomcuLoader.* One worker; `pc` is the exchange it is about to make. The slot
is its first page and the rest: the write programs a stub into the first page,
then the rest, then replaces the first page. A bootloader is `fresh` (needs the
knock), `synced`, or `deaf` (anything else came first); `RUN` jumps through the
first page whatever it holds. `Lossy` marks a lost exchange and spends a fault;
`PowerCut`, `HostCrash` and `PartCrash` happen between any two steps, and
`Torn` is what a step being executed leaves. TI's bootloader is external: it is
modelled from how the driver uses it. Boards without a reset line are an
initial state, not a constant, so one run covers both.

*IomcuApp.* The main loop's places and the burst interrupt, which fires between
any two of them; `capture_update`'s read and write are two steps. A code is its
number of bursts, `Endless` if it repeats. The host sends only what the driver
sends: an infrared code is refused while the jack's mode is serial, and the
mode may change at any time.

### audiod: AudioLevels, AudioAnnounce, AudioEndpoints, AudioLibrary

audiod runs one thread whose tasks switch where they await, so a handler is one
step up to its first await. Programs it starts, threads that sleep or talk to a
receiver, and librespot's hooks run between any two steps.

*AudioLevels.* `set_level`, `sync_levels` and `restart` are one step each, and a
publish is two (the sweep reads the levels, then awaits). `Taper` is
`percent_to_raw`: several percents may share a step, and `RawToPercent` is the
code's search for the nearest.

*AudioAnnounce.* An announcement is a task per output: it waits for the
output's fair lock (`waiting`; who is next does not matter, as they are alike),
resolves its source, ramps the duck control down step by step, plays until the
end or the time limit, and ramps up. `restart()` puts every duck control back
to full under all of them, and the daemon may stop anywhere. An aplay that
cannot be started ends the task without the ramp up; `unraised` remembers the
outputs left so, until the next announcement or the next preparation of the
levels.

*AudioEndpoints.* An endpoint is known by its tag, a kind and its index in the
saved map, and everything it leaves behind (a program being killed, a report on
its way, a metadata file) is found again by that tag. `plan` is what a map asks
for, `start` keeps the instances whose spec is equal and starts the others.
Programs die or find their port taken, and come back after three seconds; an
AirPlay reader remembers what it has been told since its pipe was opened.

*AudioLibrary.* Three tasks around one mpd: `run` holds the connection and
refreshes in two answers (`status`, `song`) at every change reported; the
publisher notes the mounts, asks for an index when they changed, and publishes;
the MQTT loop sends one command's requests one by one, and drops the rest when
one fails. mpd is external: its player, its queue, one scan at a time, and its
report of changes (`idle`), which a dead connection takes with it. That the
endpoint exists at all is `AudioEndpoints`' business.

### The broker: OhcMqtt, IodMqtt

*OhcMqtt.* The publisher sweeps the state into `Retained` and republishes when
told of a reconnect; the connection's task polls, greets and subscribes on a
ConnAck and sleeps after an error. Both put requests on `channel`, which only
the poll drains. rumqttc and mosquitto are external: a request waits while the
channel is full, a lost connection takes what was queued with it, sessions are
clean, and a broker that stops forgets everything. The value of a topic is the
number of changes it has seen, which is what "older" means in `NeverStale`.

*IodMqtt.* iod does not use that library. A change goes from the mirror onto a
broadcast bus of bounded depth (512; `BusDepth`), from there to the client's
channel by the republisher, which publishes the whole mirror when it is told
that it missed something, and to the broker by the polling task, which also
greets it after every ConnAck. `config_put` applies settings in memory, saves
them and tells the supervisor by a watch channel; the supervisor writes the
bridge's stanza, restarts mosquitto when it changed, and starts a client of its
own with an empty bus and channel. iod itself may be restarted at any step.

### iod: IodSerial, IodIo

*IodSerial.* One port: a host UART with modem lines, or the UART of a combo
jack (`combo`), which the kernel opens only while the jack's mode is serial. A
session is opened by the first command or terminal and shared; its pump is told
to stop by a flag and runs when the runtime schedules it. `jack_put` closes the
session before it asks the kernel, and saves the mode; the save may fail. The
driver may be unbound under an open file, another program may open and close
the port, and iod may be restarted. Every open of a tty raises both modem lines,
iod's own (a session, a reopening, the second file `set_line` drives them
through) and another program's, which `foreign` remembers until iod drives the
lines again.

*IodIo.* One relay, one contact and one LED on three kinds of board. A command
is started in one step and its result published in another, because the line is
driven on a blocking thread; the poller reads and publishes likewise; gpioset
is a peer. `mcu_reset` unbinds, pulses and binds, then waits for the part and
reads a relay; whether iod found the lines at all is decided once, at its
start (`gpio_io`).

### The box's other daemons

*Updated.* A check asks GitHub from a thread; `set_channel` may change what it
was asked about before it answers. An install downloads, renames the kernel
and then the initramfs into place, and reboots; it may fail, or power may go,
between the two, and the channel may be switched back over what that left.

*Switchd.* `Applied(cfg, kernel)` is the whole of `apply`: bridges, membership,
admin state, addresses and VLANs, computed from what the kernel had before, on
the ports the caller knows. The daemon knows those that were there when it
started (`known`), whatever the driver creates later, until it starts again; the
boot's `switchd apply` is a process of its own. `HistoryFree` compares the
daemon's ports with the same configuration applied to a bare kernel.

*SysmondFan.* The kernel's governor moves the fan unless its policy says
user_space; `aim` is the target it last chose, frozen meanwhile. Each write to
a file may fail. The guard runs in the collector, whose rounds end in publishes
(`owed`) that wait for room (`free`) in the channel the connection's task drains,
and that task's ConnAck handler waits for the same room (`greet`). What is
published is left to `OhcMqtt`; here publishes are counted.

*SysmondUsb.* The watcher's thread reads the fault line and the port's disable
attribute, cuts the port for 2.5 s, and powers it again; the user's off and on
fall anywhere between, and the daemon may be restarted.

*SysmondHistory.* `ring` holds bare values by position; `series` is the list of
sensors, extended when a driver binds. Each modelled sample carries what its
positions meant when it was taken, which the code does not keep.

*Storage.* The scanning thread (scan, sync, read the shares, apply them) and the
async thread (eject in steps, put_share) share three sets under locks held for
one step each; a mount point is a stack of mounts. A scan's list may be old: the
mount of a drive pulled since fails and leaves it among the `failed`, and so does
that of a filesystem where it is mounted already.

*StorageFiles.* Uploads to one name, any number at once: each looks whether the
name is taken, creates the temporary file, writes its chunks, syncs, and renames,
and may be cut off at any chunk. They share the temporary's name: a second
`create` truncates the first's inode, and a rename may put another's half in
place. A file's content says whose chunk is at each position; `crossed` is the
history of the uploads that were under way at once.

*ZigbeeNcp.* The host's steps (`pc`) against a radio with its own state: an app
with ASH's frame number, a bootloader's menu, an upload in progress. A reply is
lost, or late and met by a later read (`stale`); the program is killed, with or
without the radio's power. Opening the port raises DTR, which on the CA-1
(`radio.dtr`) resets the radio into its bootloader. A flash by hand goes on
whether or not the app it found answers a second time.

*Restore.* Three firmwares (IO part, radio, root) and the order in which
`restore` gives them back, each step of which may fail; every boot of openHC in
between flashes its own firmware again. iod's reset of the IO part unbinds its
driver meanwhile: a restore that looks then finds no IO part and goes on.
`excused` names the parts passed over when the restore was armed.

*WebdDisplay.* webd is one thread, so a POST and the minute's check are one step
each; what a POST leaves behind is a process of its own (`script`): it has read
the configuration, and stops, tells or starts the view some steps later, while
other POSTs start more. Each run may start a supervisor, the pid file names one
of them, and a stop ends that one; the others find the display taken, or free. A
supervisor starts the view on the configuration of the moment; between that and
`control_open` the view has its theme and URL but does not read the FIFO, and
what is written there is lost. The sun is one bit; where it stands for a place
and a day is not computed.

### The boot chains and the flasher

*Hc800Boot.* `menu.lst`, the default file, the backup, and the two images. A
menu is Control4's entries and, after them, ours: the editors only ever append,
replace or drop their own. The module has every writer of them: the flasher's
install, boot, restore and uninstall over SSH, the same restore on the box,
updated's swap. A file written over SSH by a rename is one step; one truncated
in place is two, and a cut between leaves it empty. `lapses` names the three
ways the code has to a restore nobody asked for (section 5). GRUB's rules are
external: `default saved` reads the file, a missing file is entry 0, an entry's
savedefault rewrites it, a kernel that does not load falls back.

*EaBoot.* The eMMC at its three offsets, p1, the MFH table's autoscript items,
CEFDK's enable byte, and how many bytes each script reads; the two-stage,
one-shot and self installs, `restore` on the box and boot-init. Each dd or MTD
write is a step and leaves its target torn when power goes in it, or when the
connection or the write fails with the power on (`Fails`): the operation is then
over and the box stays up, to be rebooted or operated on. `left` names what an
operation that ended early has left unfinished, until one of its kind is
through. CEFDK and boot-init are external where they are ROM, and translated
where they are the repository's (`boot-init/init`).

*FlasherGui.* `busy`, the connection, the release and the install's phase behind
one lock; jobs in the background that write into it when they end; what each
step's buttons require.

*TftpServe.* The server's loop (send, wait, resend up to five times) against a
bootloader that asks again until data comes, over a link that loses data and
delivers acknowledgements late. `from` is history: which block of the file the
client's each block really was.

*EaNetboot.* The console is a queue of pieces, and a read takes some of them:
piece by piece, with everything else still free to happen, and what a reader
decides on the tail only at its last. `MfgWatch` reads lines, `drive_to_shell`
feeds tails, `TftpWatch` looks for its command's echo and then the prompt, and
gives up at its deadline. The user power-cycles the box at any moment, which
takes seconds of silence, so that a tool that reads has read what came before.
The tool does not notice: watching, it starts over with what the boot ROM
prints, and waiting for an echo it waits in vain, but after a get's echo and
between two commands it goes on at a prompt that is another's, which `blind`
remembers. The box, its user and a second DHCP server are external.

## 3. The runs

Six runs pass, each for one layer of the system:

| run | components | properties | shows |
|---|---|---|---|
| `link` | `IomcuLink` | `ArmedForHolder`, `OwnAnswer`, `CallReturns`, `RefinesRpc` | an answer is the caller's own unless something named disturbed the match; every call returns; `IomcuRpc` is implemented |
| `iomcu` | `IomcuLoader`, `IomcuRelay`, `IomcuContacts`, `IomcuApp` | `OnlyWholeAppsRun`, `KnockGoesFirst`, `ProbeRecovers`; `WritesAreTrue`; `CacheFollowsPart`; `AppSound`, `CaptureResumes` | no partial image runs and a probe recovers; a write that succeeded was true and, alone, stands; the cache of a dead part empties and that of a live one catches up; the firmware is sound under its interrupt |
| `audio` | `AudioLevels`, `AudioAnnounce`, `AudioEndpoints`, `AudioLibrary` | `SetReadsBack`, `LevelHolds`; `MusicComesBack`, `TurnsCome`; `WhatPlaysIsShown`, `OthersPlayOn` | a level reads back, converges and survives; music returns, unless a player could not be started, and every announcement has its turn; in the end the saved map runs and is shown (`MapRuns`), the broker shows what the library's player does (`PlayerMirrored`), and a change of the map leaves the others alone |
| `iod` | `OhcMqtt`, `IodMqtt`, `IodSerial`, `IodIo` | `NothingForgotten`, `NeverStale`, `StateReturns`; `CatchesUp`; `OneReader`, `LinesKept`; `MirrorSettles` | the broker ends up with the daemons' state; a tty has one reader and its lines stay as asked until another program opens it; the mirror settles on the truth |
| `box` | `Updated`, `Switchd`, `SysmondFan`, `SysmondUsb`, `SysmondHistory`, `Storage`, `StorageFiles`, `ZigbeeNcp`, `Restore`, `WebdDisplay` | `UpToDateIsWhole`, `HistoryFree`, `NeverCooks`, `UsersOffStays`, `SamplesKeepMeaning`, `ReplugMounts`, `RealIsWhole`, `RadioRecovers`, `StockIsStock`, `EnableIsObeyed` | one promise of each daemon under its faults, with the exceptions its comment names |
| `flasher` | `Hc800Boot`, `EaBoot`, `FlasherGui`, `TftpServe`, `EaNetboot` | `RestoresOnlyAsked`, `ArmedReturnsStock`; `EaBoxSafe`; `OneInstall`; `GoesThrough` (with `SentIsReceived`); `NothingPartialRuns` | what is rewritten boots, stock is wiped only when asked, a transfer goes through and is only then called sent, nothing partial is started |

Six runs end in a violation; they are section 5. Every module also has a type
invariant, `TypeOK`. Those of `IomcuLink` and `IomcuLoader` are proved as they
stand, and the part of the others that a proof needs is the first conjunct of
its inductive invariant; none is listed for a run, as they say nothing a run
needs.

### Bounds, and why they are enough

- `link`: three requests over numbers modulo 2 wrap the number once and bring
  request 3 the number of request 1. Two threads make every pair of roles
  (leaving, entering). The proofs remove all of these bounds.
- `iomcu`: the loader's five faults let all three tries of one write fail and
  power go twice more, or each of three writes be cut once; two restarts let a
  write asked for by hand be followed by a rebind. Two relay writers by the two
  paths and three faults allow a late TOGGLE, a reset and another failure. Two
  readers race each other's store over two changes. Four frames are the longest
  chain of commands to the firmware that interact (table, capture, send, stop
  or another table).
- `audio`: three events for a level allow a session, a level set in it and a
  stop; or a level, a slider and a restart. Three announcements on two outputs
  leave two waiting for one; two disturbances put a restart and a stop into one
  behaviour. Three maps drop, rename and move an endpoint and change each kind;
  two changes with one fault and one report cover a tag that is taken away,
  given back, and reported late. Two upsets of the library (a drive, a command,
  a death of mpd) are a command or a drive in the middle of a lost connection.
- `iod`: two topics give a sweep a middle, and one outage comes while an
  earlier republish waits. Seven is the smallest channel that no outage of this
  instance fills; `mqtt_full` has one that can be filled, as the daemons' 16 to
  64 can by many changes while the broker is away. iod's bus holds one message,
  so the second change is missed; one upset and one save may fall into each
  other; its channel of 12 is never full here. Two sessions, one terminal, one
  hangup and one restart let an old pump meet a new one. One peer change, one
  command and one reset race one another and the poller, on each kind of board.
- `box`: three versions on two channels and one cut; two switch ports with six
  configurations that cover modes, bridge names, members, addressing and VLANs,
  in any order without bound; a fan of four speeds whose floor is above 1 and
  two failing writes, beside a channel of two places, which a round and the
  greeting fill; two over-currents and a restart; a ring of two over four
  samples, with two sensors of one label; two drives of one label, three plugs,
  two ejections, the second drive without a filesystem that mounts; two uploads
  of two chunks at once; images of two blocks with three tries, two losses, a
  kill and a run by hand; three commands and two cuts of a restore; two settings
  of the view, one exit and one sunset, with the boot's run of the service and
  two POSTs' in any overlap.
- `flasher`: four operations and one cut of an HC-800 (install, restore,
  uninstall and one more), on a box with a backup of its menu and one without;
  four operations and two cuts of an EA with three releases of two sizes, any of
  which may fail as often as it likes (on a box found installed, a revert, a
  one-shot install, a revert and an install put a kernel where the slot's script
  reads a boot-init); two jobs at once and six started; a file of six blocks
  whose numbers wrap at four, two losses and two late answers against five
  tries; three power cycles and a failed transfer.

Two runs keep faults below a limit of the code: the channels of `StateReturns`
and `CatchesUp` do not fill (`mqtt_full` shows what happens when one does), and
one block's losses stay below its tries (a transfer, or an upload, that loses
more has failed and says so). No other bound keeps a case away from a property.
Where the code does not keep what its text says, the property names the
exception, and section 5 the text: `crossed` and unsolicited frames
(`OwnAnswer`), `unraised` (`MusicComesBack`), `foreign` (`LinesKept`), `Others`
(`UpToDateIsWhole`), `crossed` uploads (`RealIsWhole`) and POSTs
(`EnableIsObeyed`), `excused` (`StockIsStock`), `failed` since seen gone
(`ReplugMounts`), `lapses` (`RestoresOnlyAsked`), `left` (`BootsWhole`), `blind`
(`NothingPartialRuns`), and an interface left alone (`HistoryFree`). Each is a
history or a state of the model that the run reaches, so a property is checked
up to the step at which the code departs from it, and beyond it for everything
the exception does not cover.

### Fairness

| module | assumed | because |
|---|---|---|
| `IomcuLink` | weak on each thread's own steps, on the end of a wait, on the decoder and the firmware; strong on `Acquire` | runnable threads and workers run; the wait has a time-out; the kernel's mutex hands itself to waiters. No frame need arrive |
| `IomcuContacts` | weak on the poller, a begun read and the end of a flash; strong on `PollAsk` | the workqueue runs; a part that answers does not lose every poll |
| `IomcuLoader` | weak on the worker and on a queued client | the workqueue runs and every exchange ends by time-out |
| `IomcuApp` | weak on the main loop and on the interrupt | the loop spins; an armed timer fires |
| `AudioLevels` | weak on the publisher and on sleeping threads | a three-second timer; sleeps end. No user or sender need act |
| `AudioAnnounce` | weak on each output's task | a fetch and aplay have time-outs, a ramp only sleeps |
| `AudioEndpoints` | weak on the start, the publisher, each supervisor, each killed program's end and each report on its way | init starts the daemon; timers fire; a killed program goes; a hook ends |
| `OhcMqtt` | weak on sweeps, the handler and the poll; strong on taking up a reconnect notice | timers and tasks run; `select!` picks at random among ready branches |
| `IodMqtt` | weak on the republisher, the poll, the supervisor and the broker's start | tasks that can run do; init starts a broker that stopped |
| `IodIo` | weak on bring-up, a command under way, the poller and the recovery; strong on a reading of the relays | blocking threads end; the poller's counter brings the relays' turn, which the model leaves to choice |
| `SysmondFan` | weak on the governor, the greeting and the poll; strong on the collector's tick and its publish. `NeverCooks` is under the hypothesis that the connection is up, with its ConnAck dealt with, again and again | timers; `select!` picks at random among ready branches; room goes to those who wait in their order. A broker that stays away is the code's, not the scheduler's |
| `Storage` | weak on the scanning and on the async thread | a timer and a runtime |
| `ZigbeeNcp` | weak on the program and on the radio's own timers | every boot starts it, every read has a time-out. Losses are bounded |
| `AudioLibrary` | weak on the three tasks, on mpd's start and on a scan's end | the runtime polls them; the publisher has a timer; the supervisor restarts mpd. No command or drive need come |
| `WebdDisplay` | weak on the minute's check, each run of the service, each supervisor and the view's opening | a timer, and processes that run to their end |
| `Hc800Boot` | weak on GRUB and the systems it boots | a box with power boots |
| `TftpServe` | weak on the server and the client | a bootloader asks again; reads have time-outs |

The other modules have safety properties only; where one of them states
fairness, no property of a run uses it.

## 4. What is proved

By TLAPS, for every value of the constants that satisfies the named
assumptions of the modules: every invariant a passing run checks, three
properties of steps (`NeverStale`, `OthersPlayOn`, and `LevelSurvives`, a part
of `LevelHolds`), and one refinement. Almost none of the invariants is
inductive as it stands; what each proof adds is this.

- `IomcuLink_proof`: `TypeCorrect`, `OneConversation` (`ArmedForHolder`),
  `OwnAnswerAlways` (`OwnAnswer`) and `ImplementsRpc` (`RefinesRpc`).
  Assumptions: `Wrap` and `Depth` positive, the bounds natural, `NoThread` not
  a thread. `LinkInv` adds `HolderInv` (only the holder of the lock is inside a
  conversation, and what the decoder wants is the holder's number), `WireInv`
  (what is on the wire was issued, is younger than `Wrap` requests, and an
  answer's request was served) and `MatchInv` (while undisturbed, a completion
  or a copied frame is the holder's answer: the only place an older answer with
  the same number could hide is the wire, which `WireInv` excludes). `OrderInv`
  (the line to the part is in issue order and newer than everything served) is
  what the refinement's `Act` needs.
- `IomcuLoader_proof`: `LoaderTypes`, `WholeAppsAlways` (`OnlyWholeAppsRun`)
  and `KnockGoesFirstAlways`. Assumptions: at least one try, the bounds
  natural. `RUN` jumps wherever the first page says, so what the first page
  says of the rest must be invariant: `SlotOK` adds `Whole` (a first page with
  an application's own vectors stands before the whole of that application)
  and `Written` (where the worker is in the write says what is already in the
  slot). Each command preserves them, and so do its failed forms and what a cut
  leaves (`Torn`). `CalmInv` says that before any fault a bootloader was
  entered and knocked in the order the worker's place implies.
- `Iomcu_proof`: `AppSoundAlways` for the firmware under its interrupt
  (`Numbered`: frames in the order of their numbers; `Airing`: who may be on
  the air; `Listening`: what `capture_update` has read still holds when it
  writes), and `WritesAreTrueAlways` for any set of writers (`Witnessed`: a
  writer has seen the value it wants if the relay has it; `Crowds`: two writers
  both know that they are not alone; `Quiet`: once a lone success has settled
  the relay nobody is left who could move it). Assumptions: the bounds natural.
- `Audio_proof`: `SetReadsBackAlways` and `LevelSurvivesAlways` for any taper
  that starts at 0, ends at the maximum and never falls (`LevelsAssumption`:
  the step in the control, the daemon's percent, the saved one and what was
  asked for agree); `MusicComesBackAlways` for any outputs and number of ramp
  steps; `OthersPlayOnAlways` for any maps.
- `Iod_proof`: `MqttTypeCorrect`, `NothingForgottenAlways` and
  `NeverStaleAlways` for any topics and channel depth (`InOrder`: along the way
  from broker through channel to what was last sent, a topic's values do not go
  down, and a republish under way is no older); `OneReaderAlways` and
  `LinesKeptAlways` for a serial port (`OnePump`: a pump that holds the port and
  was not told to stop is the hub's; `LinesKnown`: a port that is no jack's has
  one session, which nobody stops, and its lines are as that one wants them).
- `Box_proof`: `UpToDateIsWholeAlways` (`Offered`: while an install is under
  way, and after one cut between the two images, neither image is its channel's
  newest; switched back, the kernel is that channel's or another's),
  `HistoryFreeAlways` (for any configurations; no port has a master that is
  gone, `InABridge`), `UsersOffStaysAlways`, `SamplesKeepMeaningAlways`,
  `StockIsStockAlways` (`RadioGoesBack`, `IoGoesBack`: what a run at each step,
  an armed entry and a booted root say of the two firmwares, and which of them
  is excused), and `RealIsWholeAlways` for any number of uploads at once (an
  inode no two of them had a handle on is written in order by its own).
  `BoxIsSafe` states the six of the composition.
- `Hc800Boot_proof`: `RestoresOnlyAskedAlways`, on a box backed up before or
  not, with cuts anywhere. `HcInv` names the menus that are ever on the partition
  (`Known`), says that while there is no lapse none of them says `default saved`
  without the file it reads (`FileForSaved`), what an operation is in the middle
  of (`InMiddle`), and that every restore that runs or is to boot is still due
  (`AskedFor`).
- `Flasher_proof`: `EaBoxSafeAlways` for any releases, sizes, boxes and number
  of operations (`EaInv`: which writes an operation still has before it, which
  it has made, what one that failed or was cut has left (`left`), what each
  script reads when none is under way, and that a restore is due once for each
  time it was asked for), `OneInstallAlways` (`Phased`: while an install runs
  the window is in a phase without a button), `NothingPartialRunsAlways` for any
  number of power cycles and failures, and `SentIsReceivedAlways` for any file,
  losses and late answers. `NetInv` of the third follows one boot, from one
  power cycle to the next: while the tool watches, that a shell is only seen
  where the cookie was accepted, or is undone by the line a power cycle begins
  with (`Watching`); where a cycle came before the echo, that the tool waits for
  what will not come (`Deaf`); then what is typed and how much of it the box has
  read (`Typing`); and for the transfer it waits for, that in the unread console
  no prompt follows the command's echo before the image is whole, except after
  "tftp failed" (`Waiting`, `Unfinished`). `TftpInv` of the last says that the
  client and all that is on its way are at the block being sent or the one
  before it, the older first, and that nothing acknowledges a block the client
  does not have; it rests on the number of a block being different from the next
  one's (`Numbers`, for which one bit would do). Assumptions: `EaConstants` (no
  image is empty, and a box found with a script has the one sized to its image),
  `HcConstants`, `TftpConstants` (a file has a block, and numbers wrap at two or
  more). `FlasherIsSafe` states the five of the composition.

The bounds of the models (`MaxCuts` and the like) are constants, so the
theorems hold for every number of faults; they do not lift the two remaining
abstractions, the one port, output, switch or file that stands for each of
several, and what section 7 leaves out.

One attempt changed a property. `BootsWhole` first had no exception for a kernel
at the slot's boot-init: it held in a run of four operations on a box without
openHC and its proof did not go through, and with a box found installed the run
found why (the item on `revert` in section 5). Another changed the model:
`write_mtd` used to leave an added script as it was, though the slot's 0x800
bytes are written over its place.

Only model-checked: all liveness (`CallReturns`, `ProbeRecovers`,
`CacheFollowsPart`, `CaptureResumes`, `LevelHolds`' convergence, `TurnsCome`,
`WhatPlaysIsShown` with `MapRuns` and `PlayerMirrored`, `EnableIsObeyed`,
`StateReturns`, `CatchesUp`, `MirrorSettles`, `NeverCooks`, `ReplugMounts`,
`RadioRecovers`, `ArmedReturnsStock`, and that a transfer `GoesThrough`), which
is out of the prover's reach under fairness. Those components that have no other
property (`IomcuContacts`, `AudioLibrary`, `IodMqtt`, `IodIo`, `SysmondFan`,
`Storage`, `ZigbeeNcp`, `WebdDisplay`) have no proof.

## 5. Where code and text disagree

Six runs end in a violation of something the repository says:

| run | the text | what happens |
|---|---|---|
| `relay_pair` | setting a line is idempotent (`gpio-ohc-iomcu.c`, 751-757) | two writers of one value both read, both toggle |
| `mqtt_full` | all state again on every reconnect (`ohcmqtt`, 16-17) | the handler awaits room in the channel its own task drains |
| `hc800_cut` | the default file is written before `menu.lst` depends on it (`hc800.rs`, 502-504) | `install_grub` writes them in the other order: cut between, GRUB boots the factory restore by itself |
| `ea_plain` | boot-init never touches p1 before stage 2 (`boot-init/init`, 68-71) | the one-shot install puts boot-init where it looks for a staged rootfs, and it is unpacked over the stock root |
| `gui_other` | `host` is the one source of truth for where an install goes (`gui/src/main.rs`, 353-354) | a release dropped on the window leaves the first step with another row chosen, and the install goes to the connection made before |
| `storage_eject` | an ejected drive is safe to pull (`storage/src/main.rs`, 146; 12-13) | its name is free before it is unmounted: a drive of the same label is mounted over it in between, the one unmount takes that one off, and the ejected one stays mounted |

Met while modelling, each visible in a module but without a run of its own (an
exception of a property names it where one is given):

- a client past its gate sends a frame to a bootloader after three failed writes
  (`gpio-ohc-iomcu.c` 458; the site's notes say that nothing is sent then);
- with `poll_ms=0` the first live read fills a contact cache nothing refreshes
  (`gpio-ohc-iomcu.c` 794; its comment at 722-726 says a live read covers it);
- a code on the air still drives the jack when its serial port opens (`app.c`
  323), and a completion reported after the next code was taken carries that
  one's number (`app.c` 286);
- `restart()` ends the ducking under an announcement (`levels.rs` 140), and an
  aplay that cannot be started leaves the music lowered: `play` returns by `?`
  without the ramp up (`announce.rs` 69-74, against its line 8; `unraised`);
- another program's open of a tty raises the lines a client dropped, and nothing
  puts them back until iod drives them again (`serial.rs` 42; lines 84-106 put
  them back after iod's own opens only; `foreign`);
- a box whose channel is switched back after a half-done install of the other
  one reports up to date with that one's kernel on disk, because the initramfs
  alone says what runs (`install.rs` 67-78; `Others`);
- switchd reads its ports once, so a port the driver creates later is not joined
  to the bridge until the daemon starts again, and one started without any ends
  (`switchd/src/main.rs` 156-179; lines 113-117 call a re-apply "useful
  after a port that was absent at boot shows up");
- the fan's guard waits behind the collector's publishes: while the broker is
  away, or for good after the wait `mqtt_full` shows, a hot board in manual mode
  keeps its fan (`sysmond/src/main.rs` 250-288; `fan.rs` 199: "Run on every
  sample. Manual must not be a way to cook the board");
- a drive pulled between a scan and its mount fails to mount, and plugged in
  again before the next scan it stays out, though it was replugged
  (`storage/src/main.rs` 98, 112-115; line 67: "not retried until replugged");
- a restore that looks while iod resets the IO part takes it for absent, and arms
  stock with openHC's firmware on it (`iomcu.rs` 29-31, `ops.rs` 596-605;
  `excused`);
- a drive is noted before mpd is asked to index it, and the asking may find no
  connection (at the daemon's start, or while mpd is away): nothing asks again
  (`library.rs` 239-257; its lines 19-20 say that the publisher notices and asks
  mpd to re-index);
- a theme written into the FIFO while a view is coming up again is lost, and
  webd, whose scheme file is right, does not repeat it (`S95ohc-display` 76-79;
  `daynight.rs` 3-4 says light and dark are applied as they are); and two runs
  of the service at once can leave the view on after it was turned off, or a
  supervisor the pid file does not name, which nothing stops (`S95ohc-display`
  56-61, 83, `api.rs` 307; `crossed`);
- two uploads of one name share the temporary file, so an interrupted one may
  leave a truncated file under the real name after all (`files.rs` 125, against
  116-117; `crossed`);
- `install_ramboot` appends an item on each run, and a full table is refused
  only after the images have been overwritten (`network.rs`, `mfh.rs`);
- after a box with a slot was reverted, the one-shot install writes its kernel
  at 8 MiB, over the boot-init the slot's script reads, and appends an item; the
  next `revert` removes that item, and `install` only enables the slot's again
  (`restore/src/main.rs` 299; lines 33-35 say a revert is reversible with
  `install` as long as p1 still holds openHC);
- an EA operation that fails or loses its connection with the power on leaves
  images no script reads, or none whole, on a box that stays up (`network.rs`
  180-197; `left`);
- on an HC-800, besides `hc800_cut`: the box's own `stock` truncates the default
  file in place under a menu that may say `default saved` already
  (`restore/src/hc800.rs` 111, against 102-103), and a backup of `menu.lst` made
  while a restore is armed is what uninstall puts back, without the default file
  it needs, or before it is settled, so that the box restores itself at each boot
  (`hc800.rs` 361-366, 661-667, 690-694; `lapses`);
- a power cycle between two commands, or after a get's echo, is not seen: what
  the tool types next goes to the stored script, and the next prompt counts as
  the transfer's end whatever has been received (`netboot.rs` 283-289, against
  248-249; `blind`).

### Hazards that no property covers

`PROJECT.json` lists the hazards the properties are for. These are the others
that were found, for whoever extends the project:

- audiod: what a player last said it plays stays published when it dies, and
  an endpoint's last document stays retained when its tag goes away; nothing
  clears either (`meta.rs` 228, `main.rs` 384-391, `runner.rs` 201-237).
- the IO-MCU driver asks the receiver to report when its device registers, once:
  after a later write or reset of the part it stays off (`gpio-ohc-iomcu.c`
  1595).
- iod: the pump stops when a port cannot be reopened, and its session stays in
  the hub, where later clients find it (`serial.rs` 196).
- iod: a save that fails is applied in memory only (`api.rs` 309-321); a jack
  reported busy may be held by iod's own pump, not yet gone (`api.rs` 352-355);
  rates from 1200 to 14400 run at 115200 (`serial.rs` 254-264); a reset may
  report that the part does not answer although it does (`ops.rs` 503-506); iod
  stopped between the stanza and the restart leaves mosquitto with the old one
  (`bridge.rs` 78-99); the greeting and the discovery documents wait for room
  in the channel of 64 that the same task drains (`client.rs` 72-85).
- switchd: an isolated configuration without a DHCP port hands over an empty
  interface (`apply.rs` 244); a save that fails is ignored (`main.rs` 144); a
  renamed bridge stays.
- update: settings are written in place, so a power cut may lose the channel
  (`main.rs` 102).
- sysmond: a restart in the 2.5 s of a recovery leaves the port off, which
  reads as the user's choice afterwards (`usb.rs` 141-144).
- zigbee: the status file is left from an earlier start when no app answers
  (`ncp.rs` 122, 143).
- restore: on an HC-800 a radio that fails is reported with "nothing else was
  changed" after the IO part has been given back (`main.rs` 703-710, `radio.rs`
  32-36); `Restore` keeps it as `told`.
- flasher: a transfer whose last acknowledgement is lost is reported failed
  (`tftp.rs`); `dd ...; sync` reports what sync returns, so that a dd that fails
  by itself passes unnoticed where nothing reads the target back (`network.rs`
  514).

## 6. Plan

Every component that keeps state of its own has a module, and every invariant
of a run is proved. What is left for proof:

1. What is safe in the properties that are so far liveness only: that the
   mirror is never behind a reading that has been published (`IodIo`).
2. `OnlyRootsOnP1` of `EaBoot`, from `EaInv` and what each write of p1 leaves.
3. Type correctness of the modules without a proof.
4. Refinements: `OhcMqtt` as a register per topic that only moves forward,
   `AudioEndpoints` as the set of programs a map asks for.

No module that a proof extends has a RECURSIVE operator.

## 7. What is not modelled, and why

- The driver's tty data path, lirc transmit and capture, and header parsing:
  data without a protocol beyond the exchange, or the kernel's framework. The
  driver's configuration frame is one exchange in `IomcuLoader`; its content is
  the table of `IomcuApp`.
- Waveforms and timing of infrared codes, baud rates on the wire, debounce.
- Relaxed memory order: the driver's unlocked fields are stored in program
  order, as on these boards.
- The identify worker and the write worker are one worker in `IomcuLoader`:
  `fw_lock` orders them, except for one unlocked test of `registered`
  (gpio-ohc-iomcu.c 1901).
- Documents and their text: Home Assistant discovery, asound.conf, Samba's and
  mosquitto's configuration beyond the one choice a property is about, JSON.
- Arithmetic that unit tests already pin: image and table layouts, checksums,
  tapers, password hashes, version strings.
- HALs, register-level drivers, the equaliser, browser view and splash: numeric
  or register programming.
- webd's proxies, wifi and the command line: little state of their own; the
  command line calls the engine's operations, which are in `Hc800Boot`, `EaBoot`
  and `EaNetboot`.
- SSH, discovery (SDDP) and downloads: an operation's connection may drop at any
  step of a boot chain, which is what they can do to it.
- The EA's SPI flash is rewritten a block at a step: `write_mtd_block` erases the
  block before its stream arrives, and what CEFDK makes of a block half erased is
  not in the repository.
- Of the flasher's window: a release that cannot be loaded, a self-install's end
  straight from writing, and its update of itself. Of the TFTP server: a client
  that repeats its request, and being told to stop.
- The init scripts and the build, except boot-init.
- Security and authentication: outside this development.
