----------------------------- MODULE MainWindow ----------------------------
(***************************************************************************)
(* The main window of ssrWin (main.c), with the client that it starts and  *)
(* stops (SsrClient) and the file it keeps its servers in (Settings).      *)
(*                                                                         *)
(* There is one UI thread, and its handlers nest: a modal dialog runs a    *)
(* message loop inside the handler that opened it.  It disables the main   *)
(* window, but not the menu of the tray icon, whose commands go to the     *)
(* main window all the same; so a second dialog can be opened over a       *)
(* first, which stays enabled and whose handler goes on only when the      *)
(* second has returned.  The button that ends the first dialog enables the *)
(* main window at once: its list gets input while the handler of the first *)
(* still waits for the second.                                             *)
(***************************************************************************)
EXTENDS Settings, SsrClient, SequencesExt

CONSTANTS
  Configs,       \* struct server_config objects (bound on how many live at once)
  NoConfig,      \* NULL
  Released,      \* what an object holds that is not allocated
  InitialFiles,  \* settings files that the user may have
  MaxDialogs,    \* bound: nested dialogs
  MaxCommands,   \* bound: what the user does
  MaxStarts      \* bound: sessions of the program

VARIABLES
  wndData,       \* struct main_wnd_data is allocated
  closing,       \* on_wm_destroy has saved the list and not yet the registry
  rows,          \* the list view: each row's configuration and check box
  cur_selected,  \* of main_wnd_data; rows are counted from 0, and -1 is none
  options,       \* the settings of main_wnd_data that decide what happens
  server,        \* what each object holds
  dialogs,       \* the modal dialogs on the stack, the last one on top
  dlgConfig,     \* static config of ConfigDetailsDlgProc
  dlgWndData,    \* static wnd_data of OptionsDlgProc is not NULL
  file,          \* settings.json
  registry,      \* the program's key in the registry
  serves,        \* the host of the configuration that the client was started with
  history,       \* rows were deleted in this session; one was killed; the last was saved, with these servers
  commands, starts

listVars == <<rows, cur_selected>>
dialogVars == <<dialogs, dlgConfig, dlgWndData>>
diskVars == <<file, registry>>
guiVars == <<wndData, closing, listVars, options, server, dialogVars, diskVars, serves, history, commands, starts>>
vars == <<guiVars, ssrVars>>

ASSUME MainWindowConstantsOK ==
  /\ NoConfig \notin Configs /\ Released \notin Server
  /\ {MaxDialogs, MaxCommands, MaxStarts} \subseteq Nat
  /\ IsFiniteSet(Configs)
  /\ \A f \in InitialFiles : f \in Seq(Object) /\ Len(f) <= Cardinality(Configs)

OptionsType == [auto_connect : BOOLEAN, change_inet_opts : BOOLEAN]
DefaultOptions == [auto_connect |-> FALSE, change_inet_opts |-> TRUE]

---------------------------------------------------------------------------
(* The list view and its check boxes. *)

\* A list and its selection, as the handlers pass them on.
List == [rows |-> rows, cur |-> cur_selected]
SetList(l) == rows' = l.rows /\ cur_selected' = l.cur

InRange(l, i) == 0 <= i /\ i < Len(l.rows)
Checked(l) == {i \in 0..(Len(l.rows) - 1) : l.rows[i + 1].checked}

\* The change itself, once LVN_ITEMCHANGING has allowed it.
Change(l, i, on) == [l EXCEPT !.rows[i + 1].checked = on]

\* Mutant: the old row is unchecked while it is still the current one, and refuses.
ItemChecked_OldFirst(l, i) ==
  IF i = l.cur THEN IF Checked(l) = {} THEN Change(l, i, TRUE) ELSE l
  ELSE Change([l EXCEPT !.cur = i], i, TRUE)

\* Mutant: rows are counted from 1.
ItemChecked_FromOne(l, i) ==
  IF i = l.cur THEN l ELSE Change([l EXCEPT !.cur = i + 1], i, TRUE)

\* on_list_view_notification_item_changing, for a row being checked.  The current row may be
\* checked if none is; any other becomes the current one, and the old one is unchecked (all
\* of them for the index -1).
ItemChecked(l, i) ==
  IF i = l.cur THEN IF Checked(l) = {} THEN Change(l, i, TRUE) ELSE l
  ELSE Change([cur |-> i,
               rows |-> [r \in DOMAIN l.rows |->
                           IF l.cur \in {r - 1, -1} THEN [l.rows[r] EXCEPT !.checked = FALSE] ELSE l.rows[r]]],
              i, TRUE)

\* The same for a row being unchecked: the current one may not be.
ItemUnchecked(l, i) == IF i = l.cur THEN l ELSE Change(l, i, FALSE)

\* ListView_SetCheckState, or a click: without a change there is no notification.
SetCheckState(l, i, on) ==
  IF ~InRange(l, i) \/ l.rows[i + 1].checked = on THEN l
  ELSE IF on THEN ItemChecked(l, i) ELSE ItemUnchecked(l, i)

\* set_current_selected_item, with refresh_gui: it is the check box that changes cur_selected.
set_current_selected_item(l, i) == IF l.cur = i THEN l ELSE SetCheckState(l, i, TRUE)

adjust_current_selected_item(l) ==
  IF Len(l.rows) = 0 THEN -1 ELSE IF InRange(l, l.cur) THEN l.cur ELSE 0

\* modify_popup_menu_items, before the menu of the tray icon or of the window is shown.
MenuShown(l) == set_current_selected_item(l, adjust_current_selected_item(l))

\* InsertListViewItem, at the end of the list.
Insert(l, config) == [l EXCEPT !.rows = Append(@, [config |-> config, checked |-> FALSE])]

Servers(l) == [i \in DOMAIN l.rows |-> server[l.rows[i].config]]

---------------------------------------------------------------------------
(* What the UI thread is doing. *)

\* It takes messages: no start or stop of the client is in progress, no dialog about to return.
Pumping ==
  /\ wndData /\ ~closing /\ ui \in {"idle", "running"}
  /\ dialogs # <<>> => Last(dialogs).result = "open"

\* DialogBoxParam disables the main window if it is enabled, and EndDialog enables it again.
Disabled == \E d \in Range(dialogs) : d.disables /\ d.result = "open"

\* The main window and its list get input.
Enabled == Pumping /\ ~Disabled

Command == commands < MaxCommands /\ commands' = commands + 1

\* A command of the main menu.  The window's needs an enabled window; TrayProc shows the same
\* menu, with the main window as its owner, whenever messages are dispatched.
MenuCommand == Pumping /\ Command

KeepClient == UNCHANGED <<ssrVars, serves>>

Free == {c \in Configs : server[c] = Released}
NewObject == CHOOSE c \in Free : TRUE

OpenDialog(kind, config, row) ==
  /\ Len(dialogs) < MaxDialogs
  /\ dialogs' = Append(dialogs, [kind |-> kind, config |-> config, row |-> row,
                                 disables |-> ~Disabled, result |-> "open"])
  /\ dlgConfig' = IF kind \in {"new", "details"} THEN config ELSE dlgConfig
  /\ dlgWndData' = (kind = "options" \/ dlgWndData)

\* Nothing is saved and nobody cleans up; what is on disk may be cut short while it is written.
ProcessDies ==
  /\ wndData' = FALSE /\ closing' = FALSE /\ rows' = <<>> /\ cur_selected' = -1
  /\ server' = [c \in Configs |-> Released]
  /\ dialogs' = <<>> /\ dlgConfig' = NoConfig /\ dlgWndData' = FALSE
  /\ history' = [history EXCEPT !.killed = TRUE]
  /\ UNCHANGED <<options, registry, serves, starts>>

---------------------------------------------------------------------------
(* Handlers of the main window. *)

\* A click on a check box.
Click ==
  /\ Enabled /\ Command
  /\ \E i \in 0..(Len(rows) - 1) : SetList(SetCheckState(List, i, ~rows[i + 1].checked))
  /\ KeepClient /\ UNCHANGED <<wndData, closing, options, server, dialogVars, diskVars, history, starts>>

\* The menu is shown, and left or used to select a server.
SelectServer ==
  /\ MenuCommand
  /\ \/ SetList(MenuShown(List))
     \/ \E i \in 0..(Len(rows) - 1) : SetList(set_current_selected_item(MenuShown(List), i))
  /\ KeepClient /\ UNCHANGED <<wndData, closing, options, server, dialogVars, diskVars, history, starts>>

\* ID_CMD_NEW_RECORD
NewRecord ==
  /\ MenuCommand
  /\ Free # {} /\ server' = [server EXCEPT ![NewObject] = NewServer]
  /\ OpenDialog("new", NewObject, -1)
  /\ SetList(MenuShown(List))
  /\ KeepClient /\ UNCHANGED <<wndData, closing, options, diskVars, history, starts>>

\* ID_CMD_IMPORT_URL, ID_CMD_SCAN_QRCODE: a row, if there was a server in it, and a message box.
Import ==
  /\ MenuCommand
  /\ OpenDialog("message", NoConfig, -1)
  /\ \/ /\ Free # {}
        /\ \E host \in Hosts, protocol \in Protocols \ {NoProtocol} :
             server' = [server EXCEPT ![NewObject] = Entered(NewServer, host, protocol)]
        /\ SetList(Insert(MenuShown(List), NewObject))
     \/ SetList(MenuShown(List)) /\ UNCHANGED server
  /\ KeepClient /\ UNCHANGED <<wndData, closing, options, diskVars, history, starts>>

\* A command of the context menu or a key, for the row that has the focus.
ForRow(kind) ==
  /\ Enabled /\ Command
  /\ \E i \in 0..(Len(rows) - 1) : OpenDialog(kind, rows[i + 1].config, i)
  /\ KeepClient /\ UNCHANGED <<wndData, closing, listVars, options, server, diskVars, history, starts>>

\* view_server_details; on_delete_item, which asks first; on_cmd_qr_code, whose dialog encodes the
\* configuration at once; on_cmd_server_export_to_json, which asks for a file and then reads it.
ViewDetails == ForRow("details")
DeleteItem == ForRow("delete")
ShowServer == ForRow("view")
ExportServer == ForRow("export")

\* ID_CMD_OPTIONS
OpenOptions ==
  /\ MenuCommand
  /\ OpenDialog("options", NoConfig, -1)
  /\ SetList(MenuShown(List))
  /\ KeepClient /\ UNCHANGED <<wndData, closing, options, server, diskVars, history, starts>>

\* ID_CMD_RUN, enabled in a menu if no client runs and there is a server.  The configuration is
\* the row's that cur_selected names, which need not be the row in the menu: after a deletion
\* there may be no such row, and the program does not survive the NULL.
Run ==
  /\ MenuCommand /\ ui = "idle"
  /\ Len(rows) > 0
  /\ LET l == MenuShown(List)
     IN  \/ /\ InRange(l, l.cur) /\ SetList(l)
            /\ \/ /\ BeginRun("idle", options.change_inet_opts)
                  /\ serves' = server[l.rows[l.cur + 1].config].host
               \/ BeginRunRefused /\ UNCHANGED serves
            /\ UNCHANGED <<wndData, closing, options, server, dialogVars, diskVars, history, starts>>
         \/ ~InRange(l, l.cur) /\ Killed /\ ProcessDies /\ UNCHANGED file

\* ID_CMD_STOP
Stop ==
  /\ MenuCommand
  /\ Terminate(FALSE)
  /\ SetList(MenuShown(List))
  /\ UNCHANGED <<wndData, closing, options, server, dialogVars, diskVars, serves, history, starts>>

---------------------------------------------------------------------------
(* The dialogs. *)

SetResult(k, result) == dialogs' = [dialogs EXCEPT ![k].result = result]

\* save_dlg_to_config: what was entered.
save_dlg_to_config ==
  \E host \in Hosts, protocol \in Protocols \ {NoProtocol} :
    server' = [server EXCEPT ![dlgConfig] = Entered(server[dlgConfig], host, protocol)]

\* ConfigDetailsDlgProc: it goes to the configuration of the dialog opened last, if any.
PressDetails(k) ==
  /\ dialogs[k].kind \in {"new", "details"}
  /\ dlgConfig' = NoConfig
  /\ \/ /\ SetResult(k, "IDOK")
        /\ IF dlgConfig = NoConfig THEN UNCHANGED server ELSE save_dlg_to_config
     \/ SetResult(k, "IDCANCEL") /\ UNCHANGED server
  /\ UNCHANGED <<wndData, closing, options, dlgWndData, history, starts, file, registry, ssrVars, listVars, serves>>

\* OptionsDlgProc.  In the dialog opened first the other's end has left NULL, and the program
\* does not survive an OK.
PressOptions(k) ==
  /\ dialogs[k].kind = "options"
  /\ \/ /\ SetResult(k, "IDOK") /\ dlgWndData /\ dlgWndData' = FALSE
        /\ options' \in OptionsType
        /\ UNCHANGED <<wndData, closing, listVars, server, dlgConfig, history, starts, registry, file, serves, ssrVars>>
     \/ ~dlgWndData /\ Killed /\ ProcessDies /\ UNCHANGED file
     \/ /\ SetResult(k, "IDCANCEL") /\ dlgWndData' = FALSE
        /\ UNCHANGED <<wndData, closing, listVars, options, server, dlgConfig, history, starts, registry, file, serves, ssrVars>>

PressOther(k) ==
  /\ dialogs[k].kind \in {"delete", "message", "view", "export"}
  /\ \E result \in {"IDOK", "IDCANCEL"} : SetResult(k, result)
  /\ UNCHANGED <<wndData, closing, listVars, options, server, dlgConfig, dlgWndData, history, starts, registry, file,
                 serves, ssrVars>>

\* A button in one of the dialogs on the screen.
Press ==
  /\ Pumping /\ Command
  /\ \E k \in DOMAIN dialogs :
       dialogs[k].result = "open" /\ (PressDetails(k) \/ PressOptions(k) \/ PressOther(k))

\* Mutant: a record that was not confirmed is not released.
Abandon_Leaks(config) == UNCHANGED server

\* config_release
Abandon(config) == server' = [server EXCEPT ![config] = Released]

\* ID_CMD_NEW_RECORD goes on: the record goes into the list, or is released.
NewRecordReturns(d) ==
  /\ d.kind = "new"
  /\ \/ d.result = "IDOK" /\ SetList(Insert(List, d.config)) /\ UNCHANGED server
     \/ d.result = "IDCANCEL" /\ Abandon(d.config) /\ UNCHANGED listVars
  /\ UNCHANGED history

\* on_delete_item goes on, for the row that has the index by now, if one has: LVN_DELETEITEM
\* releases its configuration; cur_selected stays.
DeleteItemReturns(d) ==
  /\ d.kind = "delete" /\ d.result = "IDOK" /\ InRange(List, d.row)
  /\ SetList([List EXCEPT !.rows = RemoveAt(@, d.row + 1)])
  /\ Abandon(rows[d.row + 1].config)
  /\ history' = [history EXCEPT !.deleted = TRUE]

\* Nothing is left to do, or nothing that changes the program's state.
OtherReturns(d) ==
  /\ d.kind # "new"
  /\ d.kind = "delete" => d.result = "IDCANCEL" \/ ~InRange(List, d.row)
  /\ UNCHANGED <<listVars, server, history>>

Returning ==
  /\ wndData /\ ~closing /\ ui \in {"idle", "running"}
  /\ dialogs # <<>> /\ Last(dialogs).result # "open"

\* The dialog on top returns, and the handler that opened it goes on.
Return ==
  /\ Returning
  /\ dialogs' = Front(dialogs)
  /\ LET d == Last(dialogs) IN NewRecordReturns(d) \/ DeleteItemReturns(d) \/ OtherReturns(d)
  /\ KeepClient /\ UNCHANGED <<wndData, closing, options, dlgConfig, dlgWndData, diskVars, commands, starts>>

\* on_cmd_server_export_to_json goes on with a configuration that has been released meanwhile,
\* and the program does not survive it.
ExportDies ==
  /\ Returning
  /\ Last(dialogs).kind = "export" /\ Last(dialogs).result = "IDOK"
  /\ server[Last(dialogs).config] = Released
  /\ Killed /\ ProcessDies /\ UNCHANGED <<file, commands>>

---------------------------------------------------------------------------
(* The life of the program. *)

\* save_config_to_file.  Nobody looks at whether the file could be written: it may be left as it
\* was, or cut short, and then nothing can be read from it.
SaveAll ==
  \/ file' = SettingsFile(Servers(List)) /\ history' = [history EXCEPT !.saved = TRUE, !.last = Servers(List)]
  \/ file' \in {file, <<>>} /\ UNCHANGED history

\* on_wm_destroy, for ID_CMD_EXIT or the end of the Windows session: the list is saved and
\* destroyed.  (What the handlers of dialogs that were open do with wnd_data when they return is
\* undefined; here they are gone.)
Destroy ==
  /\ Pumping /\ Command
  /\ SaveAll
  /\ closing' = TRUE
  /\ rows' = <<>> /\ server' = [c \in Configs |-> Released]
  /\ dialogs' = <<>> /\ dlgConfig' = NoConfig /\ dlgWndData' = FALSE
  /\ UNCHANGED <<wndData, cur_selected, options, registry, serves, starts, ssrVars>>

\* Each value in the registry is written or, if its key or the value cannot be written, left.
SaveRegistry ==
  registry' \in [cur_selected : {cur_selected, registry.cur_selected},
                options : {o \in OptionsType : \A f \in DOMAIN o : o[f] \in {options[f], registry.options[f]}}]

\* on_wm_destroy goes on: the client is terminated, and only then wnd_data freed.
DestroyEnds ==
  /\ closing /\ closing' = FALSE
  /\ SaveRegistry
  /\ cur_selected' = -1
  /\ \/ Terminate(TRUE) /\ UNCHANGED wndData
     \/ Quit /\ wndData' = FALSE
  /\ UNCHANGED <<rows, options, server, dialogVars, file, serves, history, commands, starts>>

\* wWinMain (one instance at a time) and on_wm_create: the list is read, the selection of the
\* last session is checked if there is such a row, and the client is run with it if the user
\* wants that.
Create ==
  LET objects == SetToSeq(Configs)
      read == parse_settings_file(file)
      listed == [cur |-> -1,
                 rows |-> [i \in DOMAIN read |-> [config |-> objects[i], checked |-> FALSE]]]
      index == registry.cur_selected
      found == InRange(listed, index)
  IN  /\ ui = "ended"
      /\ starts < MaxStarts /\ starts' = starts + 1
      /\ wndData' = TRUE
      /\ server' = [c \in Configs |->
                      LET at == CHOOSE i \in DOMAIN objects : objects[i] = c
                      IN  IF at <= Len(read) THEN read[at] ELSE Released]
      /\ SetList(IF found THEN set_current_selected_item(listed, index) ELSE listed)
      /\ options' = registry.options
      /\ history' = [history EXCEPT !.saved = FALSE, !.last = <<>>, !.deleted = FALSE]
      /\ \/ /\ found /\ registry.options.auto_connect
            /\ BeginRun("ended", registry.options.change_inet_opts)
            /\ serves' = read[index + 1].host
         \/ \* or its ports are occupied
            StartIdle /\ UNCHANGED serves
      /\ UNCHANGED <<closing, dialogVars, diskVars, commands>>

\* The process is killed, or what its end should have saved is cut short while it is written.
Kill ==
  /\ Command
  /\ Killed /\ ProcessDies
  /\ \/ UNCHANGED file
     \/ Pumping /\ file' = <<>>

\* The client goes on.  A UI thread that has joined its threads may end with them, and one that
\* misses socks_hub.dll does.
UiProceeds ==
  /\ UiStep
  /\ \/ ui' # "ended" /\ UNCHANGED guiVars
     \/ /\ ui' = "ended" /\ quitting /\ wndData' = FALSE
        /\ UNCHANGED <<closing, listVars, options, server, dialogVars, diskVars, serves, history, commands, starts>>
     \/ ui' = "ended" /\ ~quitting /\ ProcessDies /\ UNCHANGED <<file, commands>>
ClientProceeds == ClientStep /\ UNCHANGED guiVars
HttpProceeds == HttpStep /\ UNCHANGED guiVars
LoopGivesUp == LoopReturns /\ UNCHANGED guiVars

Init ==
  /\ SsrInit
  /\ wndData = FALSE /\ closing = FALSE /\ rows = <<>> /\ cur_selected = -1
  /\ options = DefaultOptions
  /\ server = [c \in Configs |-> Released]
  /\ dialogs = <<>> /\ dlgConfig = NoConfig /\ dlgWndData = FALSE
  /\ file \in InitialFiles
  /\ registry = [cur_selected |-> -1, options |-> DefaultOptions]
  /\ serves = NoHost
  /\ history = [deleted |-> FALSE, killed |-> FALSE, saved |-> FALSE, last |-> <<>>]
  /\ commands = 0 /\ starts = 0

Next ==
  \/ Create \/ Destroy \/ DestroyEnds \/ Kill
  \/ UiProceeds \/ ClientProceeds \/ HttpProceeds \/ LoopGivesUp
  \/ Click \/ SelectServer \/ NewRecord \/ Import \/ ViewDetails \/ DeleteItem \/ ShowServer
  \/ ExportServer \/ OpenOptions \/ Run \/ Stop
  \/ Press \/ Return \/ ExportDies

\* The three threads run; nothing is assumed of the user.
Fairness == WF_vars(UiProceeds) /\ WF_vars(ClientProceeds) /\ WF_vars(HttpProceeds)
Spec == Init /\ [][Next]_vars /\ Fairness

---------------------------------------------------------------------------
(* Properties. *)

\* Every variable keeps its type: main_wnd_data, the list's items, the configurations they
\* point to, the static variables of the dialogs, and what is stored.
GuiTypeOK ==
  /\ {wndData, closing, dlgWndData} \subseteq BOOLEAN
  /\ \A r \in Range(rows) : r.config \in Configs /\ r.checked \in BOOLEAN
  /\ cur_selected \in -1..(Cardinality(Configs) - 1)
  /\ {options, registry.options} \subseteq OptionsType
  /\ server \in [Configs -> Server \cup {Released}]
  /\ dlgConfig \in Configs \cup {NoConfig}
  /\ Range(file) \subseteq Object
  /\ serves \in Hosts \cup {NoHost}
  /\ Len(dialogs) <= MaxDialogs

\* LVN_ITEMCHANGING makes radio buttons of the check boxes: cur_selected names the one row that
\* is checked, and the client is started with that row's server.  It holds as long as no row is
\* deleted: on_delete_item leaves cur_selected as it is.
OneServerChecked ==
  wndData /\ ~closing /\ ~history.deleted =>
    /\ Checked(List) = {cur_selected} \ {-1}
    /\ ui = "wait S5 port" => serves = server[rows[cur_selected + 1].config].host

\* struct server_config is released by hand, on four paths, while others may still be shown:
\* whatever a row, a dialog on the screen or the static pointer of the dialogs points to is
\* allocated, and whatever is allocated has exactly one row or new record to release it.  Among
\* the handlers whose dialog has ended under another, only an export (main.c:1079-1080) may be
\* left with a configuration that is not.  main_wnd_data outlives the client's threads, which
\* report to it.
NothingDangles ==
  LET Owners(c) == {<<"row", i>> : i \in {i \in DOMAIN rows : rows[i].config = c}} \cup
                   {<<"new", k>> : k \in {k \in DOMAIN dialogs :
                                            dialogs[k].kind = "new" /\ dialogs[k].config = c}}
  IN  /\ \A c \in Configs : Cardinality(Owners(c)) = IF server[c] = Released THEN 0 ELSE 1
      /\ \A d \in Range(dialogs) :
           d.config # NoConfig /\ d.result = "open" => server[d.config] # Released
      /\ dlgConfig # NoConfig => server[dlgConfig] # Released
      /\ client # "none" \/ http # "none" => wndData

\* ssr_client_terminate and a failed ssr_client_begin_run undo everything: between two runs, and
\* when the program has ended, there is no thread, context or library, and the system's proxy is
\* off, unless a process that was killed has left it on.
IdleMeansClean ==
  ui \in {"idle", "ended"} =>
    /\ client = "none" /\ http = "none" /\ ~ctx.alive /\ ~overTls /\ ~socksHub
    /\ sysProxy => history.killed

\* What the list held when it was written for the last time is what it holds when the program is
\* started again, in its order and whatever has happened since, except for root_cert_file, which
\* build_json_from_config does not write, the protocol verify_sha1, fractions of a second, and
\* timeouts that do not fit in an int.  (If the file could not be written, nothing is promised.)
SettingsSurvive ==
  [][ui = "ended" /\ ui' # "ended" /\ history.saved =>
       Servers(List)' = [i \in DOMAIN history.last |-> Kept(history.last[i])]]_vars

\* OptionsDlgProc asserts that it knows the main window's data when OK is pressed (main.c:1409):
\* as long as a dialog of options is open.
OptionsKnowTheirWindow ==
  \A d \in Range(dialogs) : d.kind = "options" /\ d.result = "open" => dlgWndData
===========================================================================
