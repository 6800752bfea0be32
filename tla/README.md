# A verification development for ssrWin and its routing service

ssrWin is a Windows client for ShadowsocksR and overtls servers. The repository builds two
programs:

* **ssrWin**, a GUI that keeps a list of servers and starts, for the selected one, a local
  SOCKS5 proxy, an HTTP proxy in front of it, and the system's proxy setting;
* **ssr_routing_svc**, a Windows service with administrator's rights that a client asks over a
  named pipe to send all traffic through a TAP device, and to undo that. It changes the routing
  table with `netsh` and `route`, cuts off DNS outside the TAP device with two filters, and
  watches for address changes.

This directory holds TLA+ models of both programs, TLC configurations that check them on
small instances, and theorems about them that TLAPS proves for every value of the
constants. `PROJECT.json` is the machine-readable index: components, runs, mutants, the source
lines of every definition, findings, hazards and theorems.

Paths below are relative to `src/src/` of the repository unless they say otherwise.

## 1. Inventory

### The routing service

| part | state | operations |
|---|---|---|
| **pipe server** `routeService/pipe_service.c` | the exit flag, one thread and pipe instance per client, the service's status | `pipe_infinite_loop` (accept), `client_thread` (read, execute, write), `pipe_exit_loop`, `service_control_handler`, `service_main`, `run_message_loop` |
| **routing requests** `cmd_handler.c` | `g_router_info`: TAP device's name, index and gateway, proxy's address, physical gateway, monitor, `shut_down` | `svc_message_handler`, `handle_request`, `configure_routing`, `reset_routing` and their helpers |
| **DNS block** `smartdnsblock.c` | `engine`, `filterId`, `filterId2` | `begin_smart_dns_block`, `end_smart_dns_block` |
| **address-change monitor** `net_change_monitor.c` | `net_change_ctx`: a thread and its exit event | `net_status_start_monitor`, `net_status_stop_monitor`, the thread's loop |
| **command runner** `win_cmd_wrapper.c`, `create_pipe_ex.c`, `read_file_timeout.c` | none between calls | `run_command`: start a process, read its standard error, turn it into a code |
| **adapter enumeration** `net_adapter_enum.c` | none | loops over adapters and over forward-table rows |
| **pipe client** `comm_with_named_pipe.c`, `routeService/test.js` | none | send a request and wait for its answer; the service uses it on itself, to end its accept loop |

How they interact: the accept loop starts a thread for each client; the thread reads a message
and calls `svc_message_handler`, which works on the *global* `g_router_info`, the *global* DNS
session and the machine's routing table. Nothing serialises the threads. The monitor is a thread
of its own that calls back into `cmd_handler.c` and reads `g_router_info`. A request is some
twenty system calls and child processes long, each of which can fail, and the client can
disappear at any of them.

What makes it correct: a DNS block is complete and can always be lifted; an answer tells the
client what is in force; what was installed can be removed, whatever failed; a client that
disappears leaves nothing behind; the monitor never runs while a request changes what it reads
and never outlives its context; every request ends; an instance of the pipe is in one pair of
hands, and a stop finds the accept loop.

### The GUI

| part | state | operations |
|---|---|---|
| **SSR client threads** `run_ssr_client.c`, `overtls.c`, `socks_hub.c` | `ssr_client_ctx`, two threads, the loaded libraries `hOverTls` and `hSocksHub` | `ssr_client_begin_run`, `ssr_client_terminate`, the two thread procedures and the libraries' callbacks |
| **system proxy switch** `proxy_settings.c` | the system's setting | `enable_system_proxy`, `disable_system_proxy` |
| **server reachability** `server_connectivity.c` | none | the test of an occupied port, a ping of a server |
| **main window** `ssrWin/main.c` | `main_wnd_data`: the list view, `cur_selected`, `client_ctx`, settings; the dialogs' static variables; the log's mutex | run, stop, add, edit, delete, import, show, select, options, exit; `dump_info` posts log lines from other threads |
| **tray icon** `w32taskbar.c` | the icon | shows the main menu and sends its commands to the main window |
| **settings file** `settings_json.c` | the file | parse, build and save the list of servers |
| **splitter control** `ssrWin/easysplit.c` | `ESDATA` of the bar between list and log | mouse, keys, focus, borders and magnetic docking |
| **widgets and images** | none of interest | group box, QR codes, bitmaps, screen capture |

How they interact: menu commands run on the UI thread and call `ssr_client_begin_run`, which
waits for the threads it has started; the libraries call back from those threads. A modal dialog
runs a message loop of its own inside the handler that opened it: the main window is disabled
meanwhile, the tray icon's menu is not; and the button that ends a dialog enables the window at once, though
the handler below it may have to wait for another dialog. The splitter's bar posts `WM_SIZE` to the main window
and is moved by it. When the window is destroyed the list goes to the settings file, the
selection and the options to the registry.

What makes it correct: whatever failed, a start or a stop leaves no thread, library, context or
proxy setting behind; a library outlives the threads that run its code; the UI thread is never
stuck in one of its waits; one row is checked, and it is the server that is started; every
`struct server_config` has one owner that releases it, and nothing on the screen shows a released one;
what is read from the settings file is what was written; the bar and the windows around it agree.

### Hard behaviours

`PROJECT.json` lists the hazards with their lines and the properties that cover them. In
short: two client threads on one `g_router_info`; a failure in the middle of any of eight
loops; results overwritten by later results; a client lost while it waits or while it is
served; a command that is told to have succeeded when it has not; a TAP device that goes down with its
routes; an address change that races the stop of the monitor; waits without limits, for threads that
may not have been created; a default route that disappears, and rows that only look like one; a wake-up
connection that loses its race; a child process that writes more than its pipe holds; a second dialog over a
first, and a window enabled between them; a kill or a failure while the file is written; posted messages that
find the window changed.

## 2. Modules

| module | models | depends on |
|---|---|---|
| `RoutingTable` | the routing table and the commands that change it, with their failures | |
| `SmartDnsBlock` | the DNS session and its two filters | |
| `NetChangeMonitor` | monitor contexts, their threads and events | |
| `RoutingPromise` | what the service promises its one client, in a few steps per request | |
| `RouteService` | `svc_message_handler`, `handle_request`, `configure_routing`, `reset_routing`, run by client threads; the network | extends the first three, instantiates `RoutingPromise` |
| `PipeService` | the service as a process: start, accept loop, client threads, stop; its callers | |
| `CommandPromise` | what `run_command` promises, in one step per command | |
| `CommandRunner` | `run_command` with its pipe and its child | instantiates `CommandPromise` |
| `Settings` | what is read from and written to settings.json | |
| `SsrClient` | start and stop of the GUI's client, with its threads and libraries | |
| `MainWindow` | the list, the dialogs, the menu, the life of the program | extends `Settings` and `SsrClient` |
| `EasySplit` | the splitter's bar and the parent's `WM_SIZE` | |
| `MCRouteService`, `MCCommandRunner`, `MCMainWindow`, `MCEasySplit` | the constants' values for TLC | extend the module they name |
| `RouteServiceProofs`, `OneClientProofs`, `PipeServiceProofs`, `CommandRunnerProofs`, `ClientThreadsProofs`, `WindowListProofs`, `MainWindowProofs`, `EasySplitProofs` | theorems, section 4 | extend the module they are about |

### RoutingTable

A route is a record of a destination, an interface and a next hop. `run_command(able, after,
code)` is the contract of `win_cmd_wrapper.c` with the child processes: if the table allows the
change (`able`) it is made and 0 returned; if it does not, -1 is returned. What else can happen costs one of `MaxFaults`
failures: -1 although the child was able, *with the change made or not* (`run_command` turns an exit code 0 into -1 when the
child wrote to its standard error); and 0 although the child was not able, when it complained in text only and the text could
not be read (`read_file_timeout.c:26`, `:44`). Both at once, an able child that fails and is answered with 0, cost
two. `CommandRunner` has the calls these outcomes come from. `NetshAdd`, `NetshSet`, `RouteChange`, `NetshDelete` and
`RouteDelete` are the external commands as the service uses them; what leaves by an adapter that is `down` cannot be made.

`faults` counts the failures. Two things are recorded for properties only: `unmade` are the routes whose last command
was answered with 0 and which were not made, and `astray` says that routes of the tunnel may stand which no reset finds: one of them was
left out in this way, a deletion had something to delete and did not or was reported as failed, or the TAP device went
down amid the loop that redirects to it.

### SmartDnsBlock

`engine` is the handle of `smartdnsblock.c`; `open` are the sessions that are open, whether the handle names them or not,
with the filters each has: `blocks` for the one that blocks port 53, `allows` for the whitelist. Opening a session,
adding the sublayer, the block filter and the whitelist filter are four steps between which other threads run; each works on the session of the handle, and a
second opening writes over the handle and leaves the first session in force. `end_smart_dns_block` is two steps, as the globals are cleared after the engine was closed
(`smartdnsblock.c:196-208`): in between, another thread takes the handle for a block. The one key of the sublayer is shared, so a call
may be refused while there is another session (`MayBeRefused`). Deleting filters before the close has no step of its own: the close
removes them as well. `FwpmEngineClose0` does not fail on an open session.

### NetChangeMonitor

`thread[m]` is the state of context `m`: not allocated, allocated without a thread, asleep for
two seconds, registering for address changes, waiting for one of two events, or exited. The wait
returns the event of the lower index, an address change, before the exit event.

### RouteService

One step is one system call, one command, or the code between two of them, so threads interleave
there. `pc[c]` names the C function or the call that thread `c` is at; `req`, `result`,
`step` (the loop's index and which of the two commands is tried), `best` and `ctx` are its local
variables; `router` is `g_router_info`; `conn` is the client's end of the pipe.

* `Connect`, `ClientLost`, `ReadFile`, `Reply`: the loop of `client_thread`. A failed read becomes
  the reset of `svc_message_handler` (`Hangup`); a failed write ends the thread.
* `StopMonitor`, `WaitForThread`, `HandleConfigure`, `HandleReset`, `HandleOther`, `StartMonitor`,
  `ForgetRouter`: `handle_request`.
* `CheckRequest`, `CheckEngine`, `EngineOpen`, `SubLayerAdd`, `AddBlockFilter`, `AddWhitelistFilter`, `BlockFails`, `EndBegin`,
  `FindGateway`, the four `add_...`/`stop_...` loops, `EndConfigure`: `configure_routing`. `ClearHandle` is the second step of `end_smart_dns_block`, wherever it was called. Each loop tries a command and, if it fails, a second one
  (add then set for redirects and IPv6; change then add for the proxy and the bypass routes).
* `remove_ipv4_redirect` ... `EndReset`: `reset_routing`. The first two loops stop at their first
  failure, and every later step overwrites the result.
* `MonitorThread`, `NetworkChanges`: the environment of the requests. A default route appears or
  disappears; an adapter, physical or TAP, goes down with all its routes, or comes up. A TAP device that is down may still be
  found by `enum_adapter_info` (unplugged) or not (disabled).

`lost[c]` records, for properties, which adapters went down since thread `c` read its request.

### RoutingPromise

The service without its commands, calls and threads: `Ask`, then any number of steps of `Configure` or `Reset`,
then `Answer`; and at any time the device may be lost with the ranges it carries (`LoseDevice`). Nothing else changes between an
answer and the next request. A configure takes ranges of addresses for the tunnel and gives none back, and takes none before DNS is blocked and a
gateway is found; a reset only gives back. The answer 0 of a configure means that DNS is blocked and, if it has found a gateway, that all ranges are
taken except those that were `missed`: their command was answered with 0 and did nothing, or their device went down. Its error means that DNS is open; an
answered reset leaves nothing, unless there are routes that it does not find (`stuck`); and what is not understood is answered with an error. `RouteService` maps to it
through the table: a range is `Taken` when its route leads to a TAP device, or for IPv6 to the loopback; `missed` comes from `unmade` and `lost`; `found` is
`best`, `dns` says that a session blocks, `stuck` is `astray`; a request is executed from when its thread has read it.

### PipeService

`RouteService` begins where a client's message arrives; `PipeService` is what is around it, with
a request that takes its time and returns. `main` is where `service_main` is, `listener` where
`pipe_infinite_loop` is, `pipe` the instance it has in its hands, `worker[i]` where the
`client_thread` of instance `i` is, `call[c]` where a caller is in `comm_with_named_pipe`.

* `StartService`, `Register`, `CreateServerThread`, `EnterMessageLoop`, `LeaveMessageLoop`,
  `EndExitLoop`, `JoinListener`: `service_main`, `run_message_loop` and `pipe_exit_loop`.
  `LeaveMessageLoop` raises `pipe_exit_flag` and begins the call of the service to its own pipe.
* `StopControl`: `service_control_handler` reports STOPPED at once and posts `WM_QUIT`, which is
  lost before the thread has a message queue. `ProcessExits` is Windows ending the process once
  STOPPED is reported, under whatever the threads do.
* `CheckFlag`, `CreateNamedPipe`, `ConnectNamedPipe`, `CreateClientThread`: the accept loop, with
  a failing `CreateNamedPipe` that ends it and a failing `CreateThread` that closes the instance.
* `WorkerReads` ... `WorkerEnds`: `client_thread`. A message longer than `BUFSIZE` fails the read
  and is taken for a client that is gone.
* `BeginCall` ... `EndCall`, `ClientDies`: `comm_with_named_pipe`, for clients and for the service.

The kernel's named pipes are external: an instance listens, is connected, or has lost its client.

### CommandPromise and CommandRunner

`CommandPromise` has one step per command: without a failure the answer is true; with one, an
error may follow a change that was made and a success a refusal; only with two failures does a
success follow a change that was not made. `CommandRunner` is `run_command` call by call: the
pipe, the inherited handle, the child, the wait for the child, the read of its standard error for
10 ms, the exit code, the handles that are closed. Its child does its work or not, and complains
with an exit code, a text or both. While a command is in progress it maps to the state before it
(`before`), and the last call is the promise's step.

### Settings and MainWindow

A server is five fields: `root` for `over_tls_root_cert_file`, which is read and not written; `protocol`, where
`verify_sha1` is read as NULL (`settings_json.c:173`) and NULL is written back; `idle` for `idle_timeout`, whose seconds are
multiplied by 1000 in 32 bits; `timeout` for `connect_timeout_ms` and `udp_timeout`, which are multiplied in 64 bits and written, divided, as
32; and `host` for the strings, numbers and switches that are written as they are held. `Kept` is what is left of a server
that was saved and read again.

`MainWindow` has one UI thread whose handlers nest. `rows` and `cur_selected` are the list;
`server[c]` is what `struct server_config` `c` holds, or `Released`; `dialogs` is the stack of
modal dialogs, each with its kind, configuration, row, result and whether it disabled the window (`DialogBoxParam` does if it was
enabled, and `EndDialog` enables it again, whatever is below or above); `dlgConfig` and `dlgWndData`
are the static variables of `ConfigDetailsDlgProc` and `OptionsDlgProc`; `file` and `registry`
outlive the program.

* `ItemChecked`, `ItemUnchecked`: `on_list_view_notification_item_changing`, which vetoes or
  allows a change of a check box and unchecks the old row; `SetCheckState`,
  `set_current_selected_item`, `MenuShown` are built on it as in the code.
* `Click` and `ForRow` (details, deletion, QR code, export) need the enabled window; `SelectServer`, `NewRecord`,
  `Import`, `OpenOptions`, `Run`, `Stop` are menu commands and come also from the tray icon.
* `Press` is a button of any open dialog; `Return` lets the handler of the top one go on, when
  its dialog has its result: `NewRecordReturns`, `DeleteItemReturns` (for the row that has the index by then), `OtherReturns`, `ExportDies`.
* `Create` reads the file and the registry, makes the list, selects and perhaps runs; `Destroy` saves the list, which can
  fail and leave the old file or an empty one (`SaveAll`); `DestroyEnds` writes the registry, each value perhaps not, and terminates the client;
  `Kill` ends the process anywhere, between the two and while the file is written too.
* `UiProceeds`, `ClientProceeds`, `HttpProceeds`, `LoopGivesUp` are the steps of `SsrClient`.

A dereference of NULL or of a released record, as `Run` without a row, OK in a dialog of options that has lost
`wnd_data`, or an export whose record was deleted while its dialog waited for another, ends the process.

### SsrClient

The UI thread's `ui` is where it is in `ssr_client_begin_run` or `ssr_client_terminate`; `client` and
`http` are the two threads; `ctx` holds the fields of `ssr_client_ctx` that decide anything,
with the events that the callbacks signal. `OverTlsBegins` may fail before the loop and then reports
port 0, as `SsrClientThread` does; the ssr library reports its state in either case, and port 0 when `getsockname` fails. A release build is
modelled: `assert` does nothing, and `DebugBreak` (when `socks_hub.dll` is missing) ends the
process. The libraries' loops are external: a loop reports its port, or that it has none, or returns without a report; it returns
when it is asked to stop, and may return by itself. `unheard` remembers that in this run something went wrong at which
nobody looks: a `CreateThread` that failed, a library that said nothing, a stop function that `overtls.dll` or `socks_hub.dll` does not
export. The UI thread may then wait for ever. `SsrClient` has no specification of its own: `MainWindow` says when a client is started, stopped or killed.

### EasySplit

`esd` is the bar's `ESDATA`, `bar` and `layout` are the windows' places, `posted` counts the
`WM_SIZE` messages on their way. `Checked` is `es_CheckBorders`, `KeyTarget` the target of a key,
`OnSize` the parent's handler: it asks for the position, moves the bar, which takes its position
back from the move, and lays out list and log. `ButtonDown`, `MouseMove`, `ButtonUp`,
`LoseCapture`, `StopTracking`, `Focus`, `Key`, `SetPos`, `HandleUndo`, `SetTracking` are the
bar's messages. Coordinates are along the axis on which the bar moves.

## 3. Runs

| run | module | expects | shows |
|---|---|---|---|
| `safety` | `MCRouteService` | pass | ten invariants of the service with one client, and that it implements `RoutingPromise` |
| `live` | `MCRouteService` | pass | requests end; lost clients are noticed |
| `pipe_service` | `PipeService` | pass | the accept loop, the stop and the callers, with failing calls and dying clients |
| `command_runner` | `MCCommandRunner` | pass | `run_command` implements its promise, leaks little, and returns |
| `main_window` | `MCMainWindow` | pass | the GUI: list, client, file, exits, kills and restarts |
| `window_dialogs` | `MCMainWindow` | pass | three dialogs nested and ended in any order |
| `splitter` | `MCEasySplit` | pass | the bar and the windows around it |
| `two_clients` | `MCRouteService` | violation of `StopOwnsMonitor` | two threads join and free the same monitor |
| `no_gateway` | `MCRouteService` | violation of `ConfiguredMeansRouted` | success is answered though nothing was routed |
| `reset_fault` | `MCRouteService` | violation of `ResetMeansRestored` | a failed deletion is answered with success and forgotten |
| `lost_client` | `MCRouteService` | violation of `NoClientNoTunnel` | a client lost while it is served leaves the tunnel up |
| `options_dialog` | `MCMainWindow` | violation of `OptionsKnowTheirWindow` | a second dialog of options takes the window's data from the first |

Run one with `tlc -workers 2 -config MCRouteService_safety.cfg MCRouteService`; `PROJECT.json` has
the name of each run's `.cfg`.

### The properties of the passing runs

`safety` (2,245,095 states):

* `DnsBlockLiftable`: while a DNS session is open, and no thread is inside the `configure_routing`
  that opens it, a proxy is stored. This matters because `handle_request` decides *by the proxy*
  whether a reset has anything to do. No session but that of the handle is open.
* `DnsBlockWhole`: outside `begin_smart_dns_block` and `end_smart_dns_block` the handle is the open session, and it has both
  filters, or there is none. `begin_smart_dns_block` takes a handle for a complete block and returns, so a half-built one would stay.
* `KeepsRoutingPromise`: the refinement of `RoutingPromise`, which also says that nothing is redirected before DNS is
  blocked, that a `configureRouting` answered with an error has lifted the block, and that no step between two requests,
  of a monitor or of the network, changes the tunnel, except that its device can go down.
* `SuccessMeansTunnel`, `SuccessMeansBypass`: for a `configureRouting` that found a gateway and answers success, the commands for
  the very routes it stands for were answered with 0: all of IPv4 by the TAP device and its next hop in `g_router_info`, IPv6, and the
  proxy and the reserved ranges by the gateway it picked, which is no TAP device, whatever an earlier request had left. Each such route stands (`Answered`), with two exceptions that the
  code cannot see: its command complained and `run_command` could not read it (`unmade`), or its adapter went down since the request was read (`lost`). DNS is blocked without exception.
* `RoutesRecoverable`: routes of the tunnel are only there while `g_router_info` still has the device and the proxy a reset
  needs to delete them, and they stand without a gap from the first entry of their table: the loops of `reset_routing` stop
  at their first failure, and deleting a route that is not there is one. A TAP device that goes down takes all its routes along and leaves no gap, unless it
  happens amid the loop that makes them. The exceptions are that, and commands that said they had failed or succeeded when they had not (`astray`).
* `HangupRestores`: a thread that ends because its waiting client is gone has lifted the DNS block, and has undone the tunnel with the same exceptions.
* `MonitorQuiescent`, `NoStrayMonitor`, `StopOwnsMonitor`: no monitor runs during a request, none is lost,
  and none is joined after it was freed. (A context whose thread could not be created is leaked by the next stop, as in the code.)

These invariants are stated for one client at a time, which is how ssrWin's installation uses the service. With two of them
they are false (one thread closes, overwrites or forgets what the other relies on): `two_clients` shows one such history, section 5 another.

`live` (546,247 states): `RequestsEnd`, `LostClientsEnd`.

`pipe_service` (213,108 states):

* `InstancesHaveOneOwner`: an instance of the pipe is the accept loop's or one thread's, whichever call fails.
* `StopWakesListener`: `service_main` joins an accept loop that no longer waits for a client, although
  the wake-up call may lose its instance to a client. The one exception is a wake-up call that comes
  before there is any instance (`noPipe`): only the end of the process, as STOPPED has been reported, helps then.
* `ServiceListens`: a service that reports RUNNING and whose loop has not failed comes back to listen.
* `CallsReturn`: no caller stays in `WaitNamedPipe` or in `ReadFile`.

`command_runner` (35,760 states): `KeepsPromise` (the refinement of `CommandPromise`), `LeavesLittleBehind`
(a command closes what it has opened, except that one that fails before its child exists leaks the two ends of the
pipe), `CommandReturns` (unless the child has more to say than the pipe holds:
`run_command` waits for it before it reads).

`main_window` (1,541,752 states):

* `OneServerChecked`: until a row is deleted, `cur_selected` names the one row that is checked, and the
  client is started with that row's server, whatever was clicked, vetoed, inserted or read.
* `IdleMeansClean`, `ThreadsHaveTheirCode`, `StateCanBeShutDown`: the client's properties, with starts, stops, exits and
  kills as the window does them, and libraries that are missing, fail, say nothing or return by themselves.
* `SettingsSurvive`: after an exit whose file could be written the program starts with the servers it ended with, as far as the file keeps
  them. A file that could not be written is left as it was or empty, nobody is told, and nothing is promised.
* `UiComesBack`: none of the UI thread's waits is for ever, unless in this run something failed at which nobody looks (`unheard`).

`window_dialogs` (4,129,749 states): `NothingDangles`: every allocated configuration has one row or one new record that releases it, and
whatever a row or a dialog on the screen points to is allocated; `main_wnd_data` outlives the client's threads. Dialogs are nested and ended in any order, and the list
is used and rows are deleted whenever the window is enabled. The exception is the handler of an export whose dialog has ended under another: it can read
a configuration that has been deleted meanwhile (section 5).

`splitter` (108,884 states): `LayoutFollows` (with no message on its way the windows tile and the bar is where its
data says), `DockedOrFree` (on a border or outside both magnetic zones, whenever there is room for them),
`CaptureIsDrag`, `ArrowsMove` (no dock holds the bar against an arrow key), `SizesSettle` (the header warns of
`WM_SIZE` handlers that make the bar post `WM_SIZE`: the messages end).

Each module with a run has one type invariant besides. Every property of a passing run has a mutant, a definition
of the model changed the way a plausible mistake in the code would change it, kept next to the
original and marked `Mutant:`. The model with the mutant violates the property, so the property depends on that code.

### Bounds

* `RouteService`: two IPv4 redirects as in the code, two IPv6 ranges for three, one reserved range for
  sixteen. A loop over two then has a first and a last iteration; further ranges
  repeat what is between them. The reserved range kept is 0.0.0.0/8, the one whose rows can be
  mistaken for a default route. `two_clients_dns`, a configuration beside the runs, has one entry in each table.
  `MaxFaults` is two in `safety`, so that both commands tried for one route can fail, or one fail and another claim what it has not done; at most one elsewhere.
  `MaxNetChanges` is two in `safety` (a default route goes and comes back, or the TAP device goes down and comes up), one in `live`.
  `Sessions` is one where there is one client, who has one at a time, and two for two clients.
  `Monitors` is one context more than can be needed at once, so that a freed one is reused. Contexts are
  interchangeable (nothing but `calloc` picks one), so permuting them is sound; so is permuting clients. `live`
  uses no symmetry. One proxy address, and one TAP device, which is what the installer makes (`install_tap_device.bat`).
  `MCRouteService_two_devices.cfg`, which is not among the runs, has two: a client that configures one device, then the other,
  then resets is answered success, and the redirects of the first device stay (`ResetMeansRestored` is violated without any
  fault). `configure_routing` overwrites the name by which they could be deleted, the second configure takes the
  first device's row for 0.0.0.0/1 for a default route, so the bypass routes can lead into the first tunnel, and the whitelist
  filter keeps the first device (`DnsBlockWhole` says that there is a whitelist, not that it names the device in use).
  `RoutesRecoverable`, `SuccessMeansBypass`, `HangupRestores` and `KeepsRoutingPromise` are about one device; the others are proved for any number.
* `PipeService`: two clients and two instances, so that a client can take the instance meant for the wake-up
  call while the other holds the second one; one call each, two starts, one failing call.
* `CommandRunner`: the pipe holds two units and a complaint has up to three, so it can fit, fill the pipe or
  exceed it; two failures, which the promise's worst case needs; two routes.
* `MainWindow`: three configurations (two rows from the file and one more, or three made by hand). `main_window` has two
  hosts, two starts and five commands, and one dialog at a time; `window_dialogs` has three dialogs over each other and six commands, with one host, one file and one start:
  a row is shown, a dialog is opened over it, the first one ended, and the row deleted. `options_dialog` has two dialogs and four commands.
  A second is three milliseconds, `idle_timeout` and an int have four bits, the other timeouts eight: a timeout
  of the file then has a fraction of a second, another one overflows, and a negative one becomes one that does not fit in an int.
* `EasySplit`: client areas of 0 (minimized), 5 (too small for the borders), 12 and 16, borders of 3, magnetic zones of 2, a bar
  of 2; six inputs, enough for a drag with a second button, a lost capture and a resize in the middle.
* Deadlock is checked in every run of `RouteService`. `PipeService`, `MainWindow` and `EasySplit` stop where the bounds on calls,
  commands, starts and inputs are used up; `CommandRunner` stops with a child that waits for room in the pipe, as the code does.

### Fairness

`FairSpec` of `RouteService` lets a thread that has something to do do it (weak fairness of `Handler(c)`): the scheduler
runs every runnable thread, child processes end, and `Sleep(2000)` is over some time. Monitors are threads
too. A read on a broken pipe returns. *Nothing* is assumed of clients and of the network: they need
not connect, ask, leave or change. An address change could postpone a monitor's exit again and again,
which `live` bounds with `MaxNetChanges`: that the network settles for long enough is part of the result.

In `PipeService` the same holds for `service_main`, the accept loop, each client thread and each call, and Windows
ends a process whose service has reported STOPPED (`StartServiceCtrlDispatcher` returns, and `main`). That somebody starts or
stops the service, calls it or dies is not assumed. In `CommandRunner` the service and its child run; in `MainWindow`
the three threads do, once they have something to do; no command of the user is fair, and no loop has to return before it is asked to; in `EasySplit` the window's thread takes its messages.
All of it is weak fairness.

## 4. Proofs

Check a module with `tlapm MainWindowProofs.tla`, and so on. The assumptions are those on the constants, each named in
the module that declares them: `ConstantsOK`, `RoutesApart`, `PipeConstantsOK`, `RunnerConstantsOK`, `SettingsConstantsOK`,
`SsrConstantsOK`, `MainWindowConstantsOK`, `SplitConstantsOK`. They say that the empty values (no proxy, no pipe, NULL, port 0,
...) differ from the others, that tables and requests have the type the code gives them, that the window has finitely many
objects and starts with a file that fits into them, and that the bounds are numbers. `RoutesApart` says what the tables of
`cmd_handler.c` look like: no range twice, and those of the tunnel different from the reserved ones, the default route and a proxy's
address (a proxy is one address, the ranges are halves and sixteenths of the address space), and that an adapter with a
default gateway is neither a TAP device nor the loopback. The numbers of clients, instances, routes,
servers, dialogs, commands and faults, and the sizes of windows, pipes and timeouts, are arbitrary.

| module | theorem | states |
|---|---|---|
| `RouteServiceProofs` | `TypeCorrect` | `Spec => []TypeOK` |
| `OneClientProofs` | `DnsBlockIsWhole`, `DnsBlockIsLiftable`, `FailureLiftsTheDnsBlock` | the DNS block, under `OneClient` |
| | `MonitorIsQuiescent`, `NoMonitorIsStray`, `StopOwnsTheMonitor` | the monitor, under `OneClient` |
| | `SuccessMeansTheTunnel` | the answer 0, under `OneClient`, for any number of TAP devices |
| | `SuccessMeansTheBypass`, `RoutesAreRecoverable`, `HangupRestoresTheSystem` | the routes, under `OneClient` and `OneDevice` |
| | `ServiceKeepsPromise` | `Spec => Promise!Spec`: the refinement, under the same two |
| `PipeServiceProofs` | `PipeTypesCorrect`, `InstancesAlwaysHaveOneOwner`, `StopAlwaysWakesListener` | the three invariants of `PipeService` |
| `CommandRunnerProofs` | `RunnerTypesCorrect`, `LittleIsLeftBehind` | the two invariants of `CommandRunner` |
| | `RunnerKeepsPromise` | `Spec => Promise!Spec`: the refinement |
| `ClientThreadsProofs` | `ClientTypesCorrect`, `IdleIsAlwaysClean`, `ThreadsAlwaysHaveTheirCode`, `StateCanAlwaysBeShutDown` | the client within the main window |
| `MainWindowProofs` | `GuiTypesCorrect`, `OneServerIsChecked`, `NothingEverDangles` | the window's invariants |
| | `SettingsAlwaysSurvive` | the action property `SettingsSurvive` |
| `EasySplitProofs` | `SplitTypesCorrect`, `BarIsDockedOrFree`, `LayoutIsFollowed`, `CaptureIsAlwaysDrag`, `ArrowsAlwaysMove` | four invariants and an action property of the bar |

**`TypeCorrect`** includes `IndexOK`: no loop over a table of routes reads past its end. A loop's counter is bounded by the table of
the place its thread is at, so `IndexInv` is proved first, from the code of the eight loops alone, and the types of the routes they
ask for follow from it. `DownInv`, also for any number of clients, says that no route leaves by an adapter that is down.

**The theorems of `OneClientProofs`** have the premise `OneClient`: there is exactly one client. `BlockInv` relates the session to where the thread is:
the handle is the one open session, except between its close and its clearing; the session gets its filters one after the other, and outside
`begin_smart_dns_block` it has both; and it stands without a stored proxy only while it is being opened. With it, an open session has a stored
proxy at every place where a request can be dispatched, and is closed wherever an error is answered.
`MonitorInv` says that a running monitor is `router.monitor` or the one the thread joins, and that from the join to the next start there
is none. Both are inductive together with `TypeOK`. They are false for two clients, as `two_clients` shows and `NoHalfBlock` (section 5): the premise cannot be dropped.

**The routes** need five more invariants, each inductive with those before it. `GatewayInv`: what the loops install is for this
request's device, proxy and gateway, with DNS blocked; the gateway is looked for once. `TunnelInv`: for what lies before the loop's counter, and all of the tables
before its own, the command was answered with 0, and the route stands or is in `unmade`, unless the device is in `lost`; it holds until the answer is given, as the later loops and the network's
default routes touch other destinations (`RoutesApart`). From these two follows `SuccessMeansTheTunnel`. `BypassInv` is the same for the proxy and the
reserved ranges and the adapter of the gateway. It is not about the TAP devices: that the gateway is not one of them is `OutsideInv`, and needs `OneDevice`,
for `get_system_ipv4_gateway` passes over the rows of the request's own device only (and `DownInv`, for a device that is down keeps the index it had). `RecoverInv` is what a reset relies on,
as its loops stop at the first failure and cannot tell a route that is not there from one that would not go: unless `astray`, the
routes of a table stand without a gap from the first one not yet deleted, through the device and with the proxy that
`g_router_info` holds, and none is left behind a loop that has ended. That a configure adds the routes in the order of the table, each once its
predecessor stands, is part of it: only therefore is there no gap.
`InstallEffect`, `DeleteEffect` and `NetworkEffect` are what the proofs use of the commands and the network: what they leave, add and take away at most.

**`ServiceKeepsPromise`** maps each step by where the thread is: the dispatch, the monitors and the client's comings and
goings are stutters, an adapter that goes down is `LoseDevice`, `ReadFile` is `Ask`, a step at a place of `configure_routing` is `Configure`, one of `reset_routing` is `Reset`, `Reply` is
`Answer`. That the tunnel grows only after a gateway is found needs `FoundInv`: no row of the table leaves by the
interface that stands for no gateway. The guards of `Answer` are `BlockInv`, `GatewayInv`, `TunnelInv` and `RecoverInv` at `Reply`.

**`StopAlwaysWakesListener`**: a loop that is deaf to the flag (it waits for a client that will not come) is what has to be excluded
after the wake-up call. `WakeInv` follows the call: when it has opened a pipe the loop is past its wait, on an instance
that is connected or closing, or will look at the flag, which was raised before; when the call has failed, an
instance was taken by a client, who wakes the loop as well, or there was none.

**`RunnerKeepsPromise`**: `RunnerInv` relates, at each place of `run_command`, the table, the failures and what the child has written
to the state before the command (`before`); each step but the last maps to a stutter, and the last one to `Command(cmd)`, by cases
on what the child did and whether its complaint was read.

**The client's theorems** rest on `WindowInv`: where the UI thread is tells which of the two threads there are and which of the
libraries and the context they have (`Phase`: a thread may also be one that could not be created, for which the UI thread waits in vain, or one that has returned by itself), what
they have reported (`Reports`), and when the system's proxy may be on (`Switch`).
Every step of `MainWindow` is shown to be one of the client's or to leave it alone.

**The window's theorems** rest on `GuiInv`, inductive with `WindowInv`. Its core is `Owned`: rows point to different
allocated objects; a new record's object belongs to no row and no other dialog; whatever is allocated has a row or a new
record; a dialog on the screen about a row has disabled the window and its configuration still has a row; and of two dialogs that have disabled
the window, the lower one has ended (`OneDisables`). The last is what replaces a window that is disabled throughout: the end of a dialog may enable the window
while others are open, but then no dialog about a row is among them; and a handler that deletes a row goes on only as the top one, above which nothing is
left and below which no such dialog can have been open when it was asked for. `WindowListProofs` has what each
handler does to the list, its check boxes (`Radio`: checked is what `cur_selected` names) and to `Owned`. `Saved` says that after an
exit that could write the file it is what the list was; with `WrittenAndRead`, a lemma on what reading and writing do to the timeouts, for any width and
any unit, it gives `SettingsAlwaysSurvive`.

**The bar**: `SplitInv` says that the position is docked or free for the window's height, and that the windows tile at the height of the
last `WM_SIZE`, unless another one is on its way.

Only model-checked: what is live, as liveness under fairness is beyond the prover (`RequestsEnd`, `LostClientsEnd`,
`ServiceListens`, `CallsReturn`, `CommandReturns`, `UiComesBack`, `SizesSettle`). Every invariant and every action property that a passing
run checks is a theorem. The five runs that expect a violation are about single histories.

## 5. Where the code departs from what it says

Five runs expect a violation; `PROJECT.json` quotes under "findings" the comment or assertion each contradicts.
In one line each: client threads share `g_router_info` without a lock (`net_change_monitor.c:88`); without a
default gateway `configureRouting` answers 0 (`cmd_handler.c:376`); `reset_routing` overwrites its errors
(`:428`); a failed write of the response does not reset the routing (`routeService/pipe_service.c:176`); and the options dialog,
opened a second time from the tray, loses the window's data (`ssrWin/main.c:1409`).

Two more statements of the source are refuted by configurations that stay beside the runs:

* `MCRouteService_two_clients_dns.cfg`, `NoHalfBlock`: "The first blocks all UDP traffic bound for port 53. The second whitelists all traffic on the TAP
  device. ... there's no need to use a transaction here" (`smartdnsblock.c:123-133`). Two client threads both find no session (`:62`); the second opens one over the handle
  of the first (`:93`), which then adds its whitelist to the second session. Its own session blocks port 53 without a whitelist, and nothing holds its handle any more.
* `MCMainWindow_overtls_port.cfg`, `HttpProxyHasAServer`: `HttpProxyThread` asserts that there is a SOCKS5 port (`run_ssr_client.c:225`). overtls that fails
  before it listens reports port 0, and with overtls nobody looks for an error (`:101`): the HTTP proxy is started in front of port 0.

These are in the models as the code has them, without a configuration of their own:

* `route delete` is given the word "route" twice (`cmd_handler.c:575`): no bypass route is ever removed.
* A destination of 0 is taken for a default route whatever its mask (`:682`), so 0.0.0.0/8 can pass for one.
* `run_command` answers 0 for a command that failed when its complaint was in text only and could not be read (`win_cmd_wrapper.c:102`):
  `route change` is refused on every first configure, and one such refusal that is not read makes the service answer success without the proxy's route.
* A TAP device that goes down while routes are redirected to it leaves later ones behind a gap, where no reset finds them.
* After a `CreateThread` that fails (`run_ssr_client.c:95`, `:114`) the UI thread waits for ever; so it does when a library does not export its stop function
  (`overtls.c:113`, `socks_hub.c:78`) or returns without a report.
* `cur_selected` stays when a row is deleted (`ssrWin/main.c:1104`): two rows can then be checked, and "run" may find no configuration. The index
  of the row to delete is read before the question is asked and used after it (`:1115`): if a row was deleted meanwhile it is another row.
* The export to JSON reads its record after the file dialog (`ssrWin/main.c:1080`), when a deletion in the enabled window may have released it.
* Nobody looks at whether settings.json could be written (`settings_json.c:382`), nor at the registry key, created with access 0 (`ssrWin/main.c:618`).
* A server with the protocol `verify_sha1` has none after it was read (`settings_json.c:173`), and `root_cert_file` is not written.
* A failing `CreateNamedPipe` ends the accept loop while the service reports RUNNING (`routeService/pipe_service.c:107`).
* `Captured` of the splitter outlives a capture that another window takes (`ssrWin/easysplit.c:253`): the next click goes on dragging.

## 6. What is not modelled

* Inside the service: route metrics (which of several rows wins is a choice); a failing
  `CreateEvent`, `calloc` or `GetIpForwardTable`; a failing `FwpmEngineClose0`; routes of the user that were there before for the same destinations;
  the JSON text of requests and answers (its outcomes are modelled); a child process that never ends in `RouteService` (`CommandRunner` has it), and a message
  too long for the buffer (`PipeService` has it). A client that lives and does not read is not modelled: the write of its response is assumed to return.
  Clients that die *and* requests that change routes are in different modules: `RouteService` and `PipeService` meet at `svc_message_handler`.
* The read of a child's standard error that is given up after 10 ms (`read_file_timeout.c:37`) leaves an `OVERLAPPED` on a stack that is gone until the pipe is closed. The memory that the kernel may
  then write is not part of the model.
* Undefined behaviour after a double free, and in handlers whose `wnd_data` was freed by an exit from the tray: the model of the service goes on with the state
  as it was, the one of the window ends.
* In the GUI: the log (`dump_info`, its mutex and posted lines), the clipboard, the QR dialog's static bitmap and string, columns, the window's place, the single-instance check beyond
  its effect; that the system call for the proxy setting or a `CreateEvent` may fail; dialogs that are open when the window is destroyed (they are dropped); whether json-c survives the NULL it is
  given for a protocol that is not kept (the model writes null, or the process is killed); what the ssr library does with its state (which `ssr_get_client_error_code` reads at `run_ssr_client.c:104`) once its loop has
  returned, which is in another repository.
* In the splitter: cursors, colours, drawing, enabling; the messages its header documents and this program never sends are in the model.
* `server_connectivity.c`: socket I/O; its port test is a choice of `BeginRunRefused`.
* Vendored code (`json.c`), drawing and image files, conversions of text, installation scripts, and `ssrWin/process_manager.c`, which nothing calls.

## 7. Plan

Done: all modules of section 2, and a theorem for every invariant and action property of the passing runs. What is left, in this order:

1. **Two devices**: what of `RoutesRecoverable` holds with several (the routes of the device that is stored), as a property and a theorem.
2. **`RouteService` within `PipeService`**: requests that change routes, served while the service is stopped.
3. **A promise of the pipe server**: what a caller of `comm_with_named_pipe` is promised by a service that starts, stops and fails.
4. **The log**: `dump_info` with its mutex and the lines posted to a window that may be gone.
