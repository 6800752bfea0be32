-------------------------- MODULE MainWindowProofs ------------------------
(***************************************************************************)
(* Theorems about the main window: its list of servers, its dialogs and    *)
(* the settings file, for any servers, any number of dialogs, commands and *)
(* starts of the program.                                                  *)
(***************************************************************************)
EXTENDS ClientThreadsProofs, WindowListProofs

GuiTypes ==
  /\ rows \in Seq(Row) /\ cur_selected \in -1..(Cardinality(Configs) - 1)
  /\ server \in Objects /\ dialogs \in Seq(Dialog) /\ Len(dialogs) <= MaxDialogs
  /\ file \in Seq(Object) /\ Len(file) <= Cardinality(Configs)
  /\ registry.cur_selected \in Int
  /\ serves \in Hosts \cup {NoHost}
  /\ history.deleted \in BOOLEAN /\ history.saved \in BOOLEAN

\* The window is there while the program runs, and it is empty once it is being destroyed.
Gone == ui = "ended" \/ quitting = TRUE
Life ==
  /\ wndData = TRUE <=> ui # "ended"
  /\ wndData \in BOOLEAN /\ closing \in BOOLEAN
  /\ closing = TRUE => ui \in {"idle", "running"} /\ quitting # TRUE
  /\ closing = TRUE \/ Gone => rows = <<>> /\ dialogs = <<>> /\ dlgConfig = NoConfig
  /\ Gone => cur_selected = -1

\* The static config of ConfigDetailsDlgProc is one that an open dialog shows.
Shown ==
  dlgConfig # NoConfig =>
    \E k \in 1..Len(dialogs) : /\ dialogs[k].kind \in {"new", "details"} /\ dialogs[k].config = dlgConfig
                               /\ dialogs[k].result = "open"

\* After an exit the file has what the list had.
Saved ==
  history.saved = TRUE =>
    /\ closing = TRUE \/ Gone
    /\ history.last \in Seq(Server) /\ file = SettingsFile(history.last)

\* As long as nothing was deleted the row checked is the current one, and it is what is started.
OneChecked == history.deleted = FALSE /\ closing = FALSE => Radio(List)
Serving ==
  ui = "wait S5 port" /\ history.deleted = FALSE =>
    cur_selected \in 0..(Len(rows) - 1) /\ serves = server[rows[cur_selected + 1].config].host

GuiInv ==
  /\ GuiTypes /\ Life /\ Owned(rows, server, dialogs) /\ Shown /\ Saved /\ OneChecked /\ Serving

---------------------------------------------------------------------------
(* Files and lists of servers. *)

LEMMA ConstantFacts ==
  /\ Millis \in Nat /\ Millis >= 2
  /\ IntModulus \in Nat \ {0} /\ IntModulus = 2 * (IntModulus \div 2)
  /\ IntModulus \div 2 \in Nat \ {0}
  /\ WideModulus \in Nat \ {0}
<1>1. Millis \in Nat /\ Millis > 1 /\ IntModulus \in Nat \ {0} /\ IntModulus % 2 = 0 /\ WideModulus \in Nat \ {0}
  BY SettingsConstantsOK
<1> QED BY <1>1

LEMMA AsIntFacts ==
  ASSUME NEW n \in Nat
  PROVE  AsInt(n) \in Ints /\ (n < IntModulus \div 2 => AsInt(n) = n)
<1> DEFINE h == IntModulus \div 2
           low == n % IntModulus
<1>1. IntModulus \in Nat \ {0} /\ IntModulus = 2 * h /\ h \in Nat \ {0}
  BY ConstantFacts
<1>2. AsInt(n) = (IF low < h THEN low ELSE low - IntModulus) /\ Ints = (-h)..(h - 1)
  BY DEF AsInt, Ints
<1> HIDE DEF h
<1>3. low \in 0..(IntModulus - 1)
  BY <1>1
<1>4. n < h => low = n
  BY <1>1
<1> HIDE DEF low
<1>5. AsInt(n) \in Ints
  BY <1>1, <1>2, <1>3
<1>6. n < h => AsInt(n) = n
  BY <1>2, <1>4
<1> QED BY <1>5, <1>6 DEF h

\* Whole seconds.
LEMMA SecondsFacts ==
  ASSUME NEW n \in Nat
  PROVE  /\ n \div Millis \in Nat /\ (n \div Millis) * Millis = n - (n % Millis)
         /\ n - (n % Millis) \in 0..n /\ 2 * (n \div Millis) <= n
<1>1. Millis \in Nat /\ Millis >= 2
  BY ConstantFacts
<1> DEFINE q == n \div Millis
           r == n % Millis
<1>2. q \in Nat /\ r \in 0..(Millis - 1) /\ n = Millis * q + r
  BY <1>1
<1> HIDE DEF q, r
<1>3. Millis * q \in Nat /\ Millis * q = q * Millis
  BY <1>1, <1>2
<1>4. q * Millis = n - r /\ n - r \in 0..n
  BY <1>1, <1>2, <1>3
<1>5. PICK k \in Nat : Millis = 2 + k
  <2>1. Millis - 2 \in Nat /\ Millis = 2 + (Millis - 2)
    BY <1>1
  <2> QED BY <2>1
<1>6. k * q \in Nat /\ Millis * q = 2 * q + k * q
  BY <1>2, <1>5
<1>7. 2 * q <= n
  BY <1>2, <1>3, <1>4, <1>6
<1> QED BY <1>2, <1>4, <1>7 DEF q, r

LEMMA ServerFields ==
  ASSUME NEW s \in Server
  PROVE  /\ s = [host |-> s.host, root |-> s.root, protocol |-> s.protocol, idle |-> s.idle, timeout |-> s.timeout]
         /\ s.host \in Hosts \cup {NoHost} /\ s.root \in BOOLEAN /\ s.protocol \in Protocols
         /\ s.idle \in 0..(IntModulus - 1) /\ s.timeout \in 0..(WideModulus - 1)
         /\ s.idle \in Nat /\ s.timeout \in Nat
BY ConstantFacts DEF Server

LEMMA ObjectFields ==
  ASSUME NEW s \in Object
  PROVE  /\ s = [host |-> s.host, root |-> s.root, protocol |-> s.protocol, idle |-> s.idle, timeout |-> s.timeout]
         /\ s.host \in Hosts \cup {NoHost} /\ s.root \in BOOLEAN /\ s.protocol \in Protocols
         /\ s.idle \in Int /\ s.timeout \in Int
BY ConstantFacts DEF Object, Ints

LEMMA ParsedFacts ==
  ASSUME NEW s \in Object
  PROVE  /\ parse_config_from_json(s) \in Server
         /\ parse_config_from_json(s) =
              [host |-> s.host, root |-> s.root, protocol |-> WithoutVerifySha1(s.protocol),
               idle |-> (s.idle * Millis) % IntModulus, timeout |-> (s.timeout * Millis) % WideModulus]
<1> DEFINE p == WithoutVerifySha1(s.protocol)
           x == (s.idle * Millis) % IntModulus
           y == (s.timeout * Millis) % WideModulus
<1>1. parse_config_from_json(s) = [s EXCEPT !.protocol = p, !.idle = x, !.timeout = y]
  BY DEF parse_config_from_json
<1>2. p \in Protocols
  BY ObjectFields DEF WithoutVerifySha1, Protocols
<1>3. x \in 0..(IntModulus - 1) /\ y \in 0..(WideModulus - 1)
  <2>1. s.idle * Millis \in Int /\ s.timeout * Millis \in Int
    BY ObjectFields, ConstantFacts
  <2> QED BY <2>1, ConstantFacts
<1> HIDE DEF p, x, y
<1>4. parse_config_from_json(s) = [host |-> s.host, root |-> s.root, protocol |-> p, idle |-> x, timeout |-> y]
  BY <1>1 DEF Object
<1>5. parse_config_from_json(s) \in Server
  BY <1>2, <1>3, <1>4, ObjectFields DEF Server
<1> QED BY <1>4, <1>5 DEF p, x, y

LEMMA BuiltFacts ==
  ASSUME NEW s \in Server
  PROVE  /\ build_json_from_config(s) \in Object
         /\ build_json_from_config(s) =
              [host |-> s.host, root |-> FALSE, protocol |-> s.protocol,
               idle |-> AsInt(s.idle \div Millis), timeout |-> AsInt(s.timeout \div Millis)]
<1> DEFINE x == AsInt(s.idle \div Millis)
           y == AsInt(s.timeout \div Millis)
<1>1. build_json_from_config(s) = [s EXCEPT !.root = FALSE, !.idle = x, !.timeout = y]
  BY DEF build_json_from_config
<1>2. x \in Ints /\ y \in Ints
  BY ServerFields, SecondsFacts, AsIntFacts
<1> HIDE DEF x, y
<1>3. build_json_from_config(s) = [host |-> s.host, root |-> FALSE, protocol |-> s.protocol, idle |-> x, timeout |-> y]
  BY <1>1, ServerFields
<1>4. build_json_from_config(s) \in Object
  BY <1>2, <1>3, ServerFields DEF Object
<1> QED BY <1>3, <1>4 DEF x, y

LEMMA ReadFacts ==
  ASSUME NEW f \in Seq(Object)
  PROVE  parse_settings_file(f) \in Seq(Server) /\ Len(parse_settings_file(f)) = Len(f)
<1>1. Len(f) \in Nat /\ DOMAIN f = 1..Len(f) /\ \A i \in 1..Len(f) : f[i] \in Object
  OBVIOUS
<1>2. \A i \in 1..Len(f) : parse_config_from_json(f[i]) \in Server
  BY <1>1, ParsedFacts
<1> DEFINE g == [i \in 1..Len(f) |-> parse_config_from_json(f[i])]
<1>3. parse_settings_file(f) = g
  BY <1>1 DEF parse_settings_file
<1>4. g \in [1..Len(f) -> Server]
  BY <1>2
<1> HIDE DEF g
<1> QED BY <1>1, <1>3, <1>4

LEMMA WriteFacts ==
  ASSUME NEW f \in Seq(Server)
  PROVE  SettingsFile(f) \in Seq(Object) /\ Len(SettingsFile(f)) = Len(f)
<1>1. Len(f) \in Nat /\ DOMAIN f = 1..Len(f) /\ \A i \in 1..Len(f) : f[i] \in Server
  OBVIOUS
<1>2. \A i \in 1..Len(f) : build_json_from_config(f[i]) \in Object
  BY <1>1, BuiltFacts
<1> DEFINE g == [i \in 1..Len(f) |-> build_json_from_config(f[i])]
<1>3. SettingsFile(f) = g
  BY <1>1 DEF SettingsFile
<1>4. g \in [1..Len(f) -> Object]
  BY <1>2
<1> HIDE DEF g
<1> QED BY <1>1, <1>3, <1>4

\* A server that is written and read again is what is kept of it.
LEMMA WrittenAndRead ==
  ASSUME NEW s \in Server
  PROVE  parse_config_from_json(build_json_from_config(s)) = Kept(s)
<1> DEFINE x == AsInt(s.idle \div Millis)
           y == AsInt(s.timeout \div Millis)
           z == IF s.timeout \div Millis < IntModulus \div 2
                THEN s.timeout - (s.timeout % Millis)
                ELSE (y * Millis) % WideModulus
           p == WithoutVerifySha1(s.protocol)
           o == build_json_from_config(s)
<1>0. s.idle \in Nat /\ s.idle < IntModulus /\ s.timeout \in Nat /\ s.timeout < WideModulus
  BY ServerFields, ConstantFacts
<1>1. (x * Millis) % IntModulus = s.idle - (s.idle % Millis)
  <2> DEFINE q == s.idle \div Millis
             k == s.idle - (s.idle % Millis)
  <2>1. q \in Nat /\ q * Millis = k /\ k \in 0..s.idle /\ 2 * q <= s.idle
    BY <1>0, SecondsFacts
  <2> HIDE DEF q, k
  <2>2. q < IntModulus \div 2
    BY <1>0, <2>1, ConstantFacts
  <2>3. x = q
    BY <2>1, <2>2, AsIntFacts DEF q
  <2>4. k % IntModulus = k
    BY <1>0, <2>1, ConstantFacts
  <2> QED BY <2>1, <2>3, <2>4 DEF k
<1>2. (y * Millis) % WideModulus = z
  <2> DEFINE q == s.timeout \div Millis
             k == s.timeout - (s.timeout % Millis)
  <2>1. q \in Nat /\ q * Millis = k /\ k \in 0..s.timeout
    BY <1>0, SecondsFacts
  <2>2. CASE q < IntModulus \div 2
    <3>1. z = k
      BY <2>2
    <3> HIDE DEF q, k, z
    <3>2. y = q
      BY <2>1, <2>2, AsIntFacts DEF q
    <3>3. k % WideModulus = k
      BY <1>0, <2>1, ConstantFacts
    <3> QED BY <2>1, <3>1, <3>2, <3>3
  <2>3. CASE ~(q < IntModulus \div 2)
    BY <2>3
  <2> QED BY <2>2, <2>3
<1>3. o \in Object /\ o = [host |-> s.host, root |-> FALSE, protocol |-> s.protocol, idle |-> x, timeout |-> y]
  BY BuiltFacts
<1>4. Kept(s) = [s EXCEPT !.root = FALSE, !.protocol = p, !.idle = s.idle - (s.idle % Millis), !.timeout = z]
  BY DEF Kept
<1> HIDE DEF o, x, y, z, p
<1>5. o.host = s.host /\ o.root = FALSE /\ o.protocol = s.protocol /\ o.idle = x /\ o.timeout = y
  BY <1>3
<1>6. parse_config_from_json(o) =
        [host |-> o.host, root |-> o.root, protocol |-> WithoutVerifySha1(o.protocol),
         idle |-> (o.idle * Millis) % IntModulus, timeout |-> (o.timeout * Millis) % WideModulus]
  BY <1>3, ParsedFacts
<1>7. parse_config_from_json(o) =
        [host |-> s.host, root |-> FALSE, protocol |-> p, idle |-> s.idle - (s.idle % Millis), timeout |-> z]
  BY <1>1, <1>2, <1>5, <1>6, Zenon DEF p
<1>8. Kept(s) = [host |-> s.host, root |-> FALSE, protocol |-> p, idle |-> s.idle - (s.idle % Millis), timeout |-> z]
  <2> DEFINE k == s.idle - (s.idle % Millis)
  <2>1. Kept(s) = [s EXCEPT !.root = FALSE, !.protocol = p, !.idle = k, !.timeout = z]
    BY <1>4
  <2> HIDE DEF k
  <2>2. Kept(s) = [host |-> s.host, root |-> FALSE, protocol |-> p, idle |-> k, timeout |-> z]
    BY <2>1 DEF Server
  <2> QED BY <2>2 DEF k
<1> QED BY <1>7, <1>8 DEF o

LEMMA WriteAndRead ==
  ASSUME NEW f \in Seq(Server)
  PROVE  /\ Len(parse_settings_file(SettingsFile(f))) = Len(f)
         /\ \A i \in 1..Len(f) : parse_settings_file(SettingsFile(f))[i] = Kept(f[i])
<1>1. Len(f) \in Nat /\ DOMAIN f = 1..Len(f) /\ \A i \in 1..Len(f) : f[i] \in Server
  OBVIOUS
<1>2. SettingsFile(f) \in Seq(Object) /\ Len(SettingsFile(f)) = Len(f)
  BY WriteFacts
<1>3. DOMAIN SettingsFile(f) = 1..Len(f)
  BY <1>1, <1>2
<1>4. \A i \in 1..Len(f) : parse_settings_file(SettingsFile(f))[i] = parse_config_from_json(build_json_from_config(f[i]))
  BY <1>1, <1>3 DEF parse_settings_file, SettingsFile
<1> QED BY <1>1, <1>2, <1>4, ReadFacts, WrittenAndRead

LEMMA ServersFacts ==
  ASSUME GuiTypes, Owned(rows, server, dialogs)
  PROVE  Servers(List) \in Seq(Server) /\ Len(Servers(List)) <= Cardinality(Configs)
<1>1. Len(rows) \in Nat /\ DOMAIN rows = 1..Len(rows) /\ \A i \in 1..Len(rows) : rows[i].config \in Configs
  BY RowFacts DEF GuiTypes
<1>2. \A i \in 1..Len(rows) : server[rows[i].config] \in Server
  BY <1>1 DEF GuiTypes, Objects, Owned, RowsHaveObjects
<1> DEFINE g == [i \in 1..Len(rows) |-> server[rows[i].config]]
<1>3. Servers(List) = g
  BY <1>1 DEF Servers, List
<1>4. g \in [1..Len(rows) -> Server]
  BY <1>2
<1>5. Len(rows) <= Cardinality(Configs)
  BY RowsBound DEF GuiTypes, Owned
<1> HIDE DEF g
<1>6. g \in Seq(Server) /\ Len(g) = Len(rows)
  BY <1>1, <1>4
<1> QED BY <1>3, <1>5, <1>6

---------------------------------------------------------------------------
(* What the handlers have in common. *)

\* The UI thread takes messages, or a dialog on top returns.
LEMMA Open == GuiInv /\ (Pumping \/ Returning) => ui \in {"idle", "running"} /\ closing = FALSE
<1>1. GuiInv /\ ~closing => closing = FALSE
  <2>1. GuiInv => closing \in BOOLEAN
    BY DEF GuiInv, Life
  <2> QED BY <2>1, Zenon
<1> QED BY <1>1 DEF Pumping, Returning

LEMMA PumpingFacts ==
  ASSUME WindowInv, GuiInv, ui \in {"idle", "running"}, closing = FALSE
  PROVE  quitting # TRUE /\ history.saved = FALSE /\ wndData = TRUE
BY DEF WindowInv, ThreadsInv, Quitting, GuiInv, GuiTypes, Life, Gone, Saved

\* While the UI thread takes messages, and goes on doing so, only the list and the dialogs matter.
LEMMA Quiet ==
  ASSUME WindowInv, GuiInv, ui \in {"idle", "running"}, closing = FALSE,
         UNCHANGED <<ssrVars, wndData, closing>>, history'.saved = history.saved
  PROVE  Life' /\ Saved' /\ Serving'
<1>1. quitting # TRUE /\ history.saved = FALSE /\ wndData = TRUE
  BY PumpingFacts
<1>2. ui' = ui /\ quitting' = quitting /\ wndData' = wndData /\ closing' = FALSE
  BY DEF ssrVars
<1>3. Life'
  BY <1>1, <1>2 DEF Life, Gone
<1>4. Saved'
  BY <1>1 DEF Saved
<1>5. Serving'
  BY <1>2 DEF Serving
<1> QED BY <1>3, <1>4, <1>5

LEMMA ListOK == GuiTypes => List \in ListType
<1>1. GuiTypes => cur_selected \in Int
  BY RowsBound DEF GuiTypes
<1> QED BY <1>1 DEF GuiTypes, List, ListType

LEMMA ListHandled ==
  ASSUME GuiTypes, Distinct(rows), NEW m, ListStep(List, m), SetList(m)
  PROVE  /\ rows' \in Seq(Row) /\ cur_selected' \in -1..(Cardinality(Configs) - 1)
         /\ Len(rows') = Len(rows) /\ \A i \in 1..Len(rows) : rows'[i].config = rows[i].config
         /\ Radio(List) => Radio(List')
         /\ List' = m /\ m \in ListType
<1>1. m \in ListType /\ rows' = m.rows /\ cur_selected' = m.cur /\ List.rows = rows /\ List.cur = cur_selected
  BY DEF ListStep, SetList, List
<1>2. List' = m
  <2>1. m = [rows |-> m.rows, cur |-> m.cur]
    BY <1>1, ListFacts
  <2>2. List' = [rows |-> rows', cur |-> cur_selected']
    BY DEF List
  <2> QED BY <1>1, <2>1, <2>2
<1>3. Len(rows) \in Nat /\ Cardinality(Configs) \in Nat /\ Len(rows) <= Cardinality(Configs)
  BY RowsBound DEF GuiTypes
<1>4. cur_selected' \in -1..(Cardinality(Configs) - 1)
  BY <1>1, <1>3 DEF ListStep, GuiTypes
<1>5. rows' \in Seq(Row)
  BY <1>1 DEF ListType
<1>6. Len(rows') = Len(rows) /\ \A i \in 1..Len(rows) : rows'[i].config = rows[i].config
  BY <1>1 DEF ListStep, SameConfigs
<1>7. Radio(List) => Radio(List')
  BY <1>2 DEF ListStep
<1> QED BY <1>1, <1>2, <1>4, <1>5, <1>6, <1>7

NewDialog(kind, config, row) ==
  [kind |-> kind, config |-> config, row |-> row, disables |-> ~Disabled, result |-> "open"]

LEMMA DialogOpened ==
  ASSUME GuiTypes, Shown, NEW kind \in Kinds,
         NEW config \in Configs \cup {NoConfig}, NEW row \in Int, OpenDialog(kind, config, row)
  PROVE  LET d == NewDialog(kind, config, row)
         IN  /\ d \in Dialog /\ dialogs' = Append(dialogs, d)
             /\ d.kind = kind /\ d.config = config
             /\ DisablesAlone(dialogs, d) /\ (~Disabled => d.disables = TRUE)
             /\ dialogs' \in Seq(Dialog) /\ Len(dialogs') <= MaxDialogs
             /\ Shown'
<1> DEFINE d == NewDialog(kind, config, row)
           n == Len(dialogs)
<1>1. d \in Dialog /\ d.kind = kind /\ d.config = config /\ d.result = "open" /\ d.disables = ~Disabled
  BY DEF Dialog, NewDialog
<1>2. dialogs' = Append(dialogs, d) /\ n < MaxDialogs
  BY DEF OpenDialog, NewDialog
<1>3. dlgConfig' = IF kind \in {"new", "details"} THEN config ELSE dlgConfig
  BY DEF OpenDialog
<1>a. DisablesAlone(dialogs, d)
  <2> SUFFICES ASSUME d.disables = TRUE, NEW k \in 1..n, dialogs[k].disables = TRUE
               PROVE  dialogs[k].result # "open"
    BY DEF DisablesAlone
  <2>1. ~Disabled
    BY <1>1
  <2>2. dialogs[k] \in Range(dialogs)
    BY DEF GuiTypes, Range
  <2> QED BY <2>1, <2>2 DEF Disabled
<1>b. ~Disabled => d.disables = TRUE
  BY <1>1
<1> HIDE DEF d
<1>4. dialogs' \in Seq(Dialog) /\ Len(dialogs') = n + 1 /\ n \in Nat /\ dialogs'[n + 1] = d
      /\ \A k \in 1..n : dialogs'[k] = dialogs[k]
  BY <1>1, <1>2, AppendFacts DEF GuiTypes
<1>5. Len(dialogs') <= MaxDialogs
  BY <1>2, <1>4, MainWindowConstantsOK
<1> HIDE DEF n
<1>6. Shown'
  <2> SUFFICES ASSUME dlgConfig' # NoConfig
               PROVE  \E k \in 1..(n + 1) : /\ dialogs'[k].kind \in {"new", "details"}
                                            /\ dialogs'[k].config = dlgConfig' /\ dialogs'[k].result = "open"
    BY <1>4 DEF Shown
  <2>1. CASE kind \in {"new", "details"}
    BY <1>1, <1>3, <1>4, <2>1
  <2>2. CASE kind \notin {"new", "details"}
    <3>1. dlgConfig' = dlgConfig
      BY <1>3, <2>2
    <3>2. PICK k \in 1..n : dialogs[k].kind \in {"new", "details"} /\ dialogs[k].config = dlgConfig /\ dialogs[k].result = "open"
      BY <3>1 DEF Shown, n
    <3> QED BY <1>4, <3>1, <3>2
  <2> QED BY <2>1, <2>2
<1> QED BY <1>1, <1>2, <1>4, <1>5, <1>6, <1>a, <1>b DEF d

LEMMA EnteredFacts ==
  ASSUME NEW s \in Server, NEW h \in Hosts, NEW p \in Protocols
  PROVE  Entered(s, h, p) \in Server /\ Entered(s, h, p) # Released
<1>1. Entered(s, h, p) \in Server
  BY DEF Entered, Server
<1>2. Released \notin Server
  BY MainWindowConstantsOK
<1> QED BY <1>1, <1>2

LEMMA NewServerFacts == NewServer \in Server /\ NewServer # Released
<1>1. NewServer \in Server
  BY SettingsConstantsOK DEF NewServer, Server, Protocols
<1>2. Released \notin Server
  BY MainWindowConstantsOK
<1> QED BY <1>1, <1>2

LEMMA NewObjectFacts == Free # {} => NewObject \in Configs /\ server[NewObject] = Released
BY DEF Free, NewObject

---------------------------------------------------------------------------
(* The handlers of the main window. *)

LEMMA ClickGui == WindowInv /\ GuiInv /\ (Click \/ SelectServer) => GuiInv'
<1> SUFFICES ASSUME WindowInv, GuiInv, Click \/ SelectServer PROVE GuiInv'
  OBVIOUS
<1>1. /\ UNCHANGED <<ssrVars, serves, wndData, closing, server, dialogs, dlgConfig, file, registry, history>>
      /\ Pumping
  BY DEF Click, SelectServer, KeepClient, dialogVars, diskVars, Enabled, MenuCommand
<1>2. List \in ListType
  BY ListOK DEF GuiInv
<1>3. PICK m : ListStep(List, m) /\ SetList(m)
  <2>1. CASE Click
    <3>1. PICK i \in 0..(Len(rows) - 1) : SetList(SetCheckState(List, i, ~rows[i + 1].checked))
      BY <2>1 DEF Click
    <3> DEFINE on == ~rows[i + 1].checked
    <3>2. on \in BOOLEAN /\ SetList(SetCheckState(List, i, on))
      BY <3>1
    <3> HIDE DEF on
    <3> QED BY <1>2, <3>2, SetCheckStateStep
  <2>2. CASE SelectServer
    <3>1. ListStep(List, MenuShown(List)) /\ MenuShown(List) \in ListType
      BY <1>2, MenuStep DEF ListStep
    <3>2. CASE SetList(MenuShown(List))
      BY <3>1, <3>2
    <3>3. CASE \E i \in 0..(Len(rows) - 1) : SetList(set_current_selected_item(MenuShown(List), i))
      <4>1. PICK i \in Int : SetList(set_current_selected_item(MenuShown(List), i))
        BY <3>3
      <4> DEFINE l == MenuShown(List)
      <4>2. ListStep(l, set_current_selected_item(l, i))
        BY <3>1, SetCurrentStep
      <4>3. ListStep(List, set_current_selected_item(l, i))
        BY <1>2, <3>1, <4>2, TwoSteps
      <4> QED BY <4>1, <4>3
    <3> QED BY <2>2, <3>2, <3>3 DEF SelectServer
  <2> QED BY <2>1, <2>2
<1>4. GuiTypes /\ Owned(rows, server, dialogs) /\ Shown /\ OneChecked
  BY DEF GuiInv
<1>5. /\ rows' \in Seq(Row) /\ cur_selected' \in -1..(Cardinality(Configs) - 1)
      /\ Len(rows') = Len(rows) /\ \A i \in 1..Len(rows) : rows'[i].config = rows[i].config
      /\ Radio(List) => Radio(List')
  BY <1>3, <1>4, ListHandled DEF Owned
<1>6. GuiTypes'
  BY <1>1, <1>4, <1>5 DEF GuiTypes
<1>7. Owned(rows', server', dialogs')
  <2>1. rows \in Seq(Row) /\ dialogs \in Seq(Dialog)
    BY <1>4 DEF GuiTypes
  <2>2. Owned(rows', server, dialogs)
    BY <1>4, <1>5, <2>1, OwnedSame
  <2> QED BY <1>1, <2>2
<1>8. Shown' /\ OneChecked'
  BY <1>1, <1>4, <1>5 DEF Shown, OneChecked
<1> QED BY <1>1, <1>6, <1>7, <1>8, Open, Quiet DEF GuiInv

LEMMA Listed ==
  ASSUME GuiInv, closing = FALSE, NEW m, ListStep(List, m)
  PROVE  /\ m \in ListType /\ m.rows \in Seq(Row) /\ m.cur \in -1..(Cardinality(Configs) - 1)
         /\ Owned(m.rows, server, dialogs)
         /\ history.deleted = FALSE => Radio(m)
<1>1. GuiTypes /\ Owned(rows, server, dialogs) /\ OneChecked
  BY DEF GuiInv
<1>2. m \in ListType /\ m.rows \in Seq(Row) /\ List.rows = rows /\ List.cur = cur_selected
  BY ListFacts DEF ListStep, List
<1>3. Len(rows) \in Nat /\ Cardinality(Configs) \in Nat /\ Len(rows) <= Cardinality(Configs)
  BY <1>1, RowsBound DEF GuiTypes, Owned
<1>4. m.cur \in -1..(Cardinality(Configs) - 1)
  BY <1>1, <1>2, <1>3 DEF ListStep, GuiTypes
<1>5. Len(m.rows) = Len(rows) /\ \A i \in 1..Len(rows) : m.rows[i].config = rows[i].config
  BY <1>2 DEF ListStep, SameConfigs
<1>6. Owned(m.rows, server, dialogs)
  BY <1>1, <1>2, <1>5, OwnedSame DEF GuiTypes
<1> QED BY <1>1, <1>2, <1>4, <1>6 DEF ListStep, OneChecked

LEMMA MenuListed == GuiInv => ListStep(List, MenuShown(List))
BY ListOK, MenuStep DEF GuiInv

LEMMA SetListFacts ==
  ASSUME NEW m \in ListType, SetList(m)
  PROVE  rows' = m.rows /\ cur_selected' = m.cur /\ List' = m
<1>1. m = [rows |-> m.rows, cur |-> m.cur]
  BY ListFacts
<1> QED BY <1>1 DEF SetList, List

LEMMA InsertFacts ==
  ASSUME NEW l \in ListType, NEW c \in Configs
  PROVE  LET r == [config |-> c, checked |-> FALSE]
         IN  /\ r \in Row /\ Insert(l, c) \in ListType
             /\ Insert(l, c).rows = Append(l.rows, r) /\ Insert(l, c).cur = l.cur
             /\ Radio(l) => Radio(Insert(l, c))
<1> DEFINE r == [config |-> c, checked |-> FALSE]
           w == Append(l.rows, r)
           n == Len(l.rows)
<1>1. r \in Row /\ r.checked = FALSE
  BY DEF Row
<1>2. l.rows \in Seq(Row) /\ n \in Nat /\ l.cur \in Int /\ l = [rows |-> l.rows, cur |-> l.cur]
  BY ListFacts
<1> HIDE DEF r
<1>3. w \in Seq(Row) /\ Len(w) = n + 1 /\ w[n + 1] = r /\ \A i \in 1..n : w[i] = l.rows[i]
  BY <1>1, <1>2, AppendFacts
<1>4. Insert(l, c) = [l EXCEPT !.rows = w]
  BY DEF Insert, r
<1> HIDE DEF w
<1>5. Insert(l, c) = [rows |-> w, cur |-> l.cur]
  BY <1>2, <1>4
<1> DEFINE m == Insert(l, c)
<1>6. m \in ListType /\ m.rows = w /\ m.cur = l.cur
  BY <1>2, <1>3, <1>5 DEF ListType
<1> HIDE DEF m, n
<1>7. Radio(l) => Radio(m)
  <2> SUFFICES ASSUME Radio(l) PROVE Radio(m)
    OBVIOUS
  <2>1. l.cur \in -1..(n - 1) /\ \A i \in 1..n : l.rows[i].checked = TRUE <=> i - 1 = l.cur
    BY DEF Radio, n
  <2>2. \A i \in 1..(n + 1) : w[i].checked = TRUE <=> i - 1 = l.cur
    <3> SUFFICES ASSUME NEW i \in 1..(n + 1) PROVE w[i].checked = TRUE <=> i - 1 = l.cur
      OBVIOUS
    <3>1. CASE i = n + 1
      BY <1>1, <1>2, <1>3, <2>1, <3>1 DEF n
    <3>2. CASE i # n + 1
      <4>1. i \in 1..n
        BY <1>2, <3>2 DEF n
      <4> QED BY <1>3, <2>1, <4>1
    <3> QED BY <3>1, <3>2
  <2>3. m.cur \in -1..(Len(m.rows) - 1) /\ Len(m.rows) = n + 1
    BY <1>2, <1>3, <1>6, <2>1 DEF n
  <2> QED BY <1>6, <2>2, <2>3 DEF Radio
<1> QED BY <1>1, <1>6, <1>7 DEF m, w, r

LEMMA OptionsGui == WindowInv /\ GuiInv /\ OpenOptions => GuiInv'
<1> SUFFICES ASSUME WindowInv, GuiInv, OpenOptions PROVE GuiInv'
  OBVIOUS
<1> DEFINE m == MenuShown(List)
           d == NewDialog("options", NoConfig, -1)
<1>1. /\ UNCHANGED <<ssrVars, serves, wndData, closing, server, file, registry, history>>
      /\ ui \in {"idle", "running"} /\ closing = FALSE /\ SetList(m) /\ OpenDialog("options", NoConfig, -1)
  BY Open DEF OpenOptions, KeepClient, diskVars, MenuCommand
<1>2. GuiTypes /\ Shown /\ dialogs \in Seq(Dialog)
  BY DEF GuiInv, GuiTypes
<1>3. /\ m \in ListType /\ m.rows \in Seq(Row) /\ m.cur \in -1..(Cardinality(Configs) - 1)
      /\ Owned(m.rows, server, dialogs) /\ (history.deleted = FALSE => Radio(m))
  BY <1>1, MenuListed, Listed
<1> HIDE DEF m
<1>4. rows' = m.rows /\ cur_selected' = m.cur /\ List' = m
  BY <1>1, <1>3, SetListFacts
<1>5. /\ d \in Dialog /\ dialogs' = Append(dialogs, d) /\ dialogs' \in Seq(Dialog) /\ Len(dialogs') <= MaxDialogs
      /\ Shown' /\ d.kind = "options" /\ d.config = NoConfig /\ DisablesAlone(dialogs, d)
  <2>1. "options" \in Kinds /\ -1 \in Int /\ NoConfig \in Configs \cup {NoConfig}
    BY DEF Kinds
  <2> QED BY ZenonT(40), <1>1, <1>2, <2>1, DialogOpened
<1> HIDE DEF d
<1>7. Owned(rows', server', dialogs')
  BY <1>1, <1>2, <1>3, <1>4, <1>5, OwnedDialog
<1>8. GuiTypes'
  BY <1>1, <1>2, <1>3, <1>4, <1>5 DEF GuiTypes
<1>9. OneChecked'
  BY <1>1, <1>3, <1>4 DEF OneChecked
<1> QED BY <1>1, <1>5, <1>7, <1>8, <1>9, Quiet DEF GuiInv

LEMMA NewRecordGui == WindowInv /\ GuiInv /\ NewRecord => GuiInv'
<1> SUFFICES ASSUME WindowInv, GuiInv, NewRecord PROVE GuiInv'
  OBVIOUS
<1> DEFINE m == MenuShown(List)
           c == NewObject
           d == NewDialog("new", c, -1)
<1>1. /\ UNCHANGED <<ssrVars, serves, wndData, closing, file, registry, history>>
      /\ ui \in {"idle", "running"} /\ closing = FALSE /\ SetList(m) /\ OpenDialog("new", c, -1)
      /\ Free # {} /\ server' = [server EXCEPT ![c] = NewServer]
  BY Open DEF NewRecord, KeepClient, diskVars, MenuCommand
<1>2. GuiTypes /\ Shown /\ dialogs \in Seq(Dialog) /\ server \in Objects
  BY DEF GuiInv, GuiTypes
<1>3. /\ m \in ListType /\ m.rows \in Seq(Row) /\ m.cur \in -1..(Cardinality(Configs) - 1)
      /\ Owned(m.rows, server, dialogs) /\ (history.deleted = FALSE => Radio(m))
  BY <1>1, MenuListed, Listed
<1>4. c \in Configs /\ server[c] = Released
  BY <1>1, NewObjectFacts
<1> HIDE DEF m, c
<1>5. rows' = m.rows /\ cur_selected' = m.cur /\ List' = m
  BY <1>1, <1>3, SetListFacts
<1>6. /\ d \in Dialog /\ dialogs' = Append(dialogs, d) /\ dialogs' \in Seq(Dialog) /\ Len(dialogs') <= MaxDialogs
      /\ Shown' /\ d.kind = "new" /\ d.config = c /\ DisablesAlone(dialogs, d)
  <2>1. "new" \in Kinds /\ -1 \in Int /\ c \in Configs \cup {NoConfig}
    BY <1>4 DEF Kinds
  <2> QED BY ZenonT(40), <1>1, <1>2, <2>1, DialogOpened
<1> HIDE DEF d
<1>8. NewServer \in Server /\ NewServer # Released
  BY NewServerFacts
<1>9. Owned(rows', server', dialogs')
  <2>1. Owned(m.rows, [server EXCEPT ![c] = NewServer], Append(dialogs, d))
    BY <1>2, <1>3, <1>4, <1>6, <1>8, OwnedNew
  <2> QED BY <1>1, <1>5, <1>6, <2>1
<1>10. server' \in Objects
  BY <1>1, <1>2, <1>8 DEF Objects
<1>11. GuiTypes'
  BY <1>1, <1>2, <1>3, <1>5, <1>6, <1>10 DEF GuiTypes
<1>12. OneChecked'
  BY <1>1, <1>3, <1>5 DEF OneChecked
<1> QED BY <1>1, <1>6, <1>9, <1>11, <1>12, Quiet DEF GuiInv

LEMMA ImportGui == WindowInv /\ GuiInv /\ Import => GuiInv'
<1> SUFFICES ASSUME WindowInv, GuiInv, Import PROVE GuiInv'
  OBVIOUS
<1> DEFINE m == MenuShown(List)
           d == NewDialog("message", NoConfig, -1)
<1>1. /\ UNCHANGED <<ssrVars, serves, wndData, closing, file, registry, history>>
      /\ ui \in {"idle", "running"} /\ closing = FALSE /\ OpenDialog("message", NoConfig, -1)
  BY Open DEF Import, KeepClient, diskVars, MenuCommand
<1>2. GuiTypes /\ Shown /\ dialogs \in Seq(Dialog) /\ server \in Objects
  BY DEF GuiInv, GuiTypes
<1>3. /\ m \in ListType /\ m.rows \in Seq(Row) /\ m.cur \in -1..(Cardinality(Configs) - 1)
      /\ Owned(m.rows, server, dialogs) /\ (history.deleted = FALSE => Radio(m))
  BY <1>1, MenuListed, Listed
<1>4. /\ d \in Dialog /\ dialogs' = Append(dialogs, d) /\ dialogs' \in Seq(Dialog) /\ Len(dialogs') <= MaxDialogs
      /\ Shown' /\ d.kind = "message" /\ d.config = NoConfig /\ DisablesAlone(dialogs, d)
  <2>1. "message" \in Kinds /\ -1 \in Int /\ NoConfig \in Configs \cup {NoConfig}
    BY DEF Kinds
  <2> QED BY <1>1, <1>2, <2>1, DialogOpened
<1>6. \E l \in ListType :
        /\ SetList(l) /\ l.rows \in Seq(Row) /\ l.cur = m.cur /\ server' \in Objects
        /\ Owned(l.rows, server', dialogs) /\ (history.deleted = FALSE => Radio(l))
  <2>1. CASE SetList(m) /\ UNCHANGED server
    BY <1>2, <1>3, <2>1
  <2>2. CASE /\ Free # {}
             /\ \E host \in Hosts, protocol \in Protocols \ {NoProtocol} :
                  server' = [server EXCEPT ![NewObject] = Entered(NewServer, host, protocol)]
             /\ SetList(Insert(m, NewObject))
    <3> DEFINE c == NewObject
    <3>1. c \in Configs /\ server[c] = Released
      BY <2>2, NewObjectFacts
    <3>2. PICK v \in Server : server' = [server EXCEPT ![c] = v] /\ v # Released
      <4>1. PICK host \in Hosts, protocol \in Protocols \ {NoProtocol} :
              server' = [server EXCEPT ![c] = Entered(NewServer, host, protocol)]
        BY <2>2
      <4> QED BY <4>1, NewServerFacts, EnteredFacts
    <3>3. SetList(Insert(m, c))
      BY <2>2
    <3> HIDE DEF c, m
    <3> DEFINE r == [config |-> c, checked |-> FALSE]
               l == Insert(m, c)
    <3>5. r \in Row /\ l \in ListType /\ l.rows = Append(m.rows, r) /\ l.cur = m.cur /\ (Radio(m) => Radio(l))
      BY <1>3, <3>1, InsertFacts
    <3>6. r.config = c
      OBVIOUS
    <3> HIDE DEF r, l
    <3>7. Owned(l.rows, [server EXCEPT ![c] = v], dialogs)
      BY <1>2, <1>3, <3>1, <3>2, <3>5, <3>6, OwnedInsert
    <3>9. server' \in Objects
      BY <1>2, <3>2 DEF Objects
    <3>10. l.rows \in Seq(Row)
      BY <3>5 DEF ListType
    <3>11. SetList(l)
      BY <3>3 DEF l
    <3> QED BY <1>3, <3>2, <3>5, <3>7, <3>9, <3>10, <3>11
  <2> QED BY <2>1, <2>2 DEF Import
<1> HIDE DEF m, d
<1>7. PICK l \in ListType :
        /\ SetList(l) /\ l.rows \in Seq(Row) /\ l.cur = m.cur /\ server' \in Objects
        /\ Owned(l.rows, server', dialogs) /\ (history.deleted = FALSE => Radio(l))
  BY <1>6
<1>8. rows' = l.rows /\ cur_selected' = l.cur /\ List' = l
  BY <1>7, SetListFacts
<1>9. Owned(rows', server', dialogs')
  BY <1>2, <1>4, <1>7, <1>8, OwnedDialog
<1>10. GuiTypes'
  BY <1>1, <1>2, <1>3, <1>4, <1>7, <1>8 DEF GuiTypes
<1>11. OneChecked'
  BY <1>1, <1>7, <1>8 DEF OneChecked
<1> QED BY <1>1, <1>4, <1>9, <1>10, <1>11, Quiet DEF GuiInv

LEMMA ForRowGui == WindowInv /\ GuiInv /\ (ViewDetails \/ DeleteItem \/ ShowServer \/ ExportServer) => GuiInv'
<1> SUFFICES ASSUME WindowInv, GuiInv, NEW kind \in RowKinds, ForRow(kind) PROVE GuiInv'
  BY DEF ViewDetails, DeleteItem, ShowServer, ExportServer, RowKinds
<1>1. /\ UNCHANGED <<ssrVars, serves, wndData, closing, rows, cur_selected, server, file, registry, history>>
      /\ ui \in {"idle", "running"} /\ closing = FALSE /\ ~Disabled
  BY Open DEF ForRow, KeepClient, diskVars, listVars, Enabled
<1>2. PICK i \in 0..(Len(rows) - 1) : OpenDialog(kind, rows[i + 1].config, i)
  BY DEF ForRow
<1>3. GuiTypes /\ Shown /\ OneChecked /\ Owned(rows, server, dialogs) /\ dialogs \in Seq(Dialog) /\ rows \in Seq(Row)
  BY DEF GuiInv, GuiTypes
<1> DEFINE c == rows[i + 1].config
           d == NewDialog(kind, c, i)
<1>4. i \in Int /\ i + 1 \in 1..Len(rows) /\ c \in Configs
  BY <1>3, RowFacts
<1>5. /\ d \in Dialog /\ dialogs' = Append(dialogs, d) /\ dialogs' \in Seq(Dialog) /\ Len(dialogs') <= MaxDialogs
      /\ Shown' /\ d.kind = kind /\ d.config = c /\ DisablesAlone(dialogs, d) /\ d.disables = TRUE
  <2>1. kind \in Kinds /\ c \in Configs \cup {NoConfig}
    BY <1>4 DEF Kinds, RowKinds
  <2> QED BY <1>1, <1>2, <1>3, <1>4, <2>1, DialogOpened
<1>6. HasRow(rows, d.config)
  BY <1>4, <1>5 DEF HasRow
<1> HIDE DEF d
<1>7. Owned(rows', server', dialogs')
  BY <1>1, <1>3, <1>5, <1>6, OwnedDialog
<1>8. GuiTypes'
  BY <1>1, <1>3, <1>5 DEF GuiTypes
<1>9. OneChecked'
  BY <1>1, <1>3 DEF OneChecked, List
<1> QED BY <1>1, <1>5, <1>7, <1>8, <1>9, Quiet DEF GuiInv

---------------------------------------------------------------------------
(* The dialogs. *)

\* What a dialog on the screen shows is allocated, and what it writes into.
LEMMA DialogAllocated ==
  ASSUME GuiInv, NEW k \in 1..Len(dialogs), dialogs[k].config # NoConfig, dialogs[k].result = "open"
  PROVE  dialogs[k].config \in Configs /\ server[dialogs[k].config] \in Server
<1>1. dialogs[k] \in Dialog /\ rows \in Seq(Row) /\ server \in Objects /\ Owned(rows, server, dialogs)
  BY DEF GuiInv, GuiTypes
<1>2. dialogs[k].config \in Configs /\ dialogs[k].kind \in Kinds
  BY <1>1 DEF Dialog
<1>3. server[dialogs[k].config] # Released
  <2>1. CASE dialogs[k].kind = "new"
    BY <1>1, <2>1 DEF Owned, RecordsHaveObjects
  <2>2. CASE dialogs[k].kind \in RowKinds
    BY <1>1, <2>2 DEF Owned, DialogsShow, HasRow, RowsHaveObjects
  <2>3. CASE dialogs[k].kind \in {"options", "message"}
    BY <1>1, <2>3 DEF Owned, DialogsShow
  <2> QED BY <1>2, <2>1, <2>2, <2>3 DEF Kinds, RowKinds
<1> QED BY <1>1, <1>2, <1>3 DEF Objects

LEMMA ShownAllocated ==
  ASSUME GuiInv, dlgConfig # NoConfig
  PROVE  dlgConfig \in Configs /\ server[dlgConfig] \in Server
<1>1. PICK k \in 1..Len(dialogs) : dialogs[k].config = dlgConfig /\ dialogs[k].result = "open"
  BY DEF GuiInv, Shown
<1> QED BY <1>1, DialogAllocated

WithResult(dlgs, k, x) == [dlgs EXCEPT ![k].result = x]

LEMMA ResultSet ==
  ASSUME NEW dlgs \in Seq(Dialog), NEW k \in 1..Len(dlgs), NEW x \in {"IDOK", "IDCANCEL"}
  PROVE  /\ WithResult(dlgs, k, x) \in Seq(Dialog) /\ Len(WithResult(dlgs, k, x)) = Len(dlgs)
         /\ \A j \in 1..Len(dlgs) : /\ WithResult(dlgs, k, x)[j].kind = dlgs[j].kind
                                    /\ WithResult(dlgs, k, x)[j].config = dlgs[j].config
                                    /\ WithResult(dlgs, k, x)[j].disables = dlgs[j].disables
                                    /\ WithResult(dlgs, k, x)[j].result = "open" => dlgs[j].result = "open"
                                    /\ j # k => WithResult(dlgs, k, x)[j] = dlgs[j]
<1> DEFINE d == [dlgs[k] EXCEPT !.result = x]
           t == [dlgs EXCEPT ![k] = d]
<1>1. dlgs[k] \in Dialog
  OBVIOUS
<1>2. d \in Dialog /\ d.kind = dlgs[k].kind /\ d.config = dlgs[k].config /\ d.disables = dlgs[k].disables
      /\ d.result # "open"
  BY <1>1 DEF Dialog
<1>3. WithResult(dlgs, k, x) = t
  BY DEF WithResult
<1> HIDE DEF d
<1>4. t \in Seq(Dialog) /\ Len(t) = Len(dlgs) /\ \A j \in 1..Len(dlgs) : t[j] = IF j = k THEN d ELSE dlgs[j]
  BY <1>2, ExceptSeq
<1> HIDE DEF t
<1>5. \A j \in 1..Len(dlgs) : /\ t[j].kind = dlgs[j].kind /\ t[j].config = dlgs[j].config
                              /\ t[j].disables = dlgs[j].disables
                              /\ t[j].result = "open" => dlgs[j].result = "open"
                              /\ j # k => t[j] = dlgs[j]
  BY <1>2, <1>4
<1> QED BY <1>3, <1>4, <1>5

LEMMA PressGui ==
  ASSUME WindowInv, GuiInv, Press
  PROVE  GuiInv' \/ (Killed /\ ProcessDies /\ UNCHANGED file)
<1>1. ui \in {"idle", "running"} /\ closing = FALSE
  BY Open DEF Press
<1>2. PICK k \in DOMAIN dialogs :
        dialogs[k].result = "open" /\ (PressDetails(k) \/ PressOptions(k) \/ PressOther(k))
  BY DEF Press
<1>3. GuiTypes /\ dialogs \in Seq(Dialog) /\ rows \in Seq(Row) /\ server \in Objects /\ Owned(rows, server, dialogs)
      /\ Shown /\ OneChecked /\ k \in 1..Len(dialogs)
  BY DEF GuiInv, GuiTypes
<1> SUFFICES ASSUME ~(Killed /\ ProcessDies /\ UNCHANGED file) PROVE GuiInv'
  OBVIOUS
<1>4. /\ UNCHANGED <<ssrVars, serves, wndData, closing, rows, cur_selected, file, registry, history>>
      /\ \E x \in {"IDOK", "IDCANCEL"} : dialogs' = WithResult(dialogs, k, x)
  BY <1>2 DEF PressDetails, PressOptions, PressOther, SetResult, WithResult, listVars
<1>5. PICK x \in {"IDOK", "IDCANCEL"} : dialogs' = WithResult(dialogs, k, x)
  BY <1>4
<1>6. /\ dialogs' \in Seq(Dialog) /\ Len(dialogs') = Len(dialogs)
      /\ \A j \in 1..Len(dialogs) : /\ dialogs'[j].kind = dialogs[j].kind /\ dialogs'[j].config = dialogs[j].config
                                    /\ dialogs'[j].disables = dialogs[j].disables
                                    /\ dialogs'[j].result = "open" => dialogs[j].result = "open"
                                    /\ j # k => dialogs'[j] = dialogs[j]
  BY <1>3, <1>5, ResultSet
<1>7. server' \in Objects /\ \A c \in Configs : server'[c] = Released <=> server[c] = Released
  <2>1. CASE UNCHANGED server
    BY <1>3, <2>1
  <2>2. CASE dlgConfig # NoConfig /\ save_dlg_to_config
    <3>1. dlgConfig \in Configs /\ server[dlgConfig] \in Server
      BY <2>2, ShownAllocated
    <3>2. PICK v \in Server : server' = [server EXCEPT ![dlgConfig] = v] /\ v # Released
      <4>1. PICK host \in Hosts, protocol \in Protocols \ {NoProtocol} :
              server' = [server EXCEPT ![dlgConfig] = Entered(server[dlgConfig], host, protocol)]
        BY <2>2 DEF save_dlg_to_config
      <4> QED BY <3>1, <4>1, EnteredFacts
    <3>3. Released \notin Server
      BY MainWindowConstantsOK
    <3> QED BY <1>3, <3>1, <3>2, <3>3 DEF Objects
  <2> QED BY <1>2, <2>1, <2>2 DEF PressDetails, PressOptions, PressOther
<1>8. Shown'
  <2>1. CASE PressDetails(k)
    BY <2>1 DEF PressDetails, Shown
  <2>2. CASE PressOptions(k) \/ PressOther(k)
    <3>1. dlgConfig' = dlgConfig /\ dialogs[k].kind \notin {"new", "details"}
      BY <2>2 DEF PressOptions, PressOther
    <3>2. SUFFICES ASSUME dlgConfig # NoConfig
                   PROVE  \E j \in 1..Len(dialogs) : /\ dialogs'[j].kind \in {"new", "details"}
                                                     /\ dialogs'[j].config = dlgConfig /\ dialogs'[j].result = "open"
      BY <1>6, <3>1 DEF Shown
    <3>3. PICK j \in 1..Len(dialogs) : /\ dialogs[j].kind \in {"new", "details"} /\ dialogs[j].config = dlgConfig
                                       /\ dialogs[j].result = "open"
      BY <1>3, <3>2 DEF Shown
    <3>4. j # k
      BY <3>1, <3>3
    <3> QED BY <1>6, <3>3, <3>4
  <2> QED BY <1>2, <2>1, <2>2
<1>9. Owned(rows', server', dialogs')
  <2>1. Owned(rows, server', dialogs')
    BY <1>3, <1>6, <1>7, OwnedSame
  <2> QED BY <1>4, <2>1
<1>10. GuiTypes'
  BY <1>3, <1>4, <1>6, <1>7 DEF GuiTypes
<1>11. OneChecked'
  BY <1>3, <1>4 DEF OneChecked, List
<1> QED BY <1>1, <1>4, <1>8, <1>9, <1>10, <1>11, Quiet DEF GuiInv

LEMMA ReturnGui == WindowInv /\ GuiInv /\ Return => GuiInv'
<1> SUFFICES ASSUME WindowInv, GuiInv, Return PROVE GuiInv'
  OBVIOUS
<1> DEFINE d == Last(dialogs)
           n == Len(dialogs)
<1>1. /\ ui \in {"idle", "running"} /\ closing = FALSE
      /\ dialogs # <<>> /\ d.result # "open" /\ dialogs' = Front(dialogs)
      /\ UNCHANGED <<ssrVars, serves, wndData, closing, dlgConfig, file, registry>>
      /\ NewRecordReturns(d) \/ DeleteItemReturns(d) \/ OtherReturns(d)
  BY Open DEF Return, Returning, KeepClient, diskVars
<1>2. GuiTypes /\ dialogs \in Seq(Dialog) /\ rows \in Seq(Row) /\ server \in Objects /\ Owned(rows, server, dialogs)
      /\ Shown /\ OneChecked /\ cur_selected \in -1..(Cardinality(Configs) - 1)
  BY DEF GuiInv, GuiTypes
<1>3. /\ n \in Nat \ {0} /\ d = dialogs[n] /\ d \in Dialog
      /\ dialogs' \in Seq(Dialog) /\ Len(dialogs') = n - 1 /\ \A i \in 1..(n - 1) : dialogs'[i] = dialogs[i]
  BY <1>1, <1>2, FrontFacts
<1> HIDE DEF d, n
<1>4. Shown'
  <2> SUFFICES ASSUME dlgConfig # NoConfig
               PROVE  \E j \in 1..(n - 1) : /\ dialogs'[j].kind \in {"new", "details"}
                                            /\ dialogs'[j].config = dlgConfig /\ dialogs'[j].result = "open"
    BY <1>1, <1>3 DEF Shown
  <2>1. PICK j \in 1..n : /\ dialogs[j].kind \in {"new", "details"} /\ dialogs[j].config = dlgConfig
                          /\ dialogs[j].result = "open"
    BY <1>2 DEF Shown, n
  <2>2. j \in 1..(n - 1)
    BY <1>1, <1>3, <2>1
  <2> QED BY <1>3, <2>1, <2>2
<1>5. /\ rows' \in Seq(Row) /\ server' \in Objects /\ Owned(rows', server', dialogs') /\ OneChecked'
      /\ cur_selected' = cur_selected
      /\ history'.saved = history.saved /\ history'.deleted \in BOOLEAN
  <2>0. history.deleted \in BOOLEAN
    BY <1>2 DEF GuiTypes
  <2>1. CASE NewRecordReturns(d) /\ d.result = "IDOK"
    <3>1. d.kind = "new" /\ SetList(Insert(List, d.config)) /\ UNCHANGED <<server, history>>
      BY <2>1 DEF NewRecordReturns
    <3>2. d.config \in Configs
      BY <1>2, <1>3, <3>1 DEF Owned, RecordsHaveObjects, n
    <3> DEFINE r == [config |-> d.config, checked |-> FALSE]
               m == Insert(List, d.config)
    <3>3. /\ r \in Row /\ m \in ListType /\ m.rows = Append(List.rows, r) /\ m.cur = List.cur
          /\ Radio(List) => Radio(m)
      BY <1>2, <3>2, ListOK, InsertFacts
    <3>4. r.config = d.config /\ List.rows = rows /\ List.cur = cur_selected
      BY DEF List
    <3> HIDE DEF r, m
    <3>5. rows' = m.rows /\ cur_selected' = m.cur /\ List' = m
      BY <3>1, <3>3, SetListFacts DEF m
    <3>6. rows' = Append(rows, r) /\ rows' \in Seq(Row) /\ cur_selected' = cur_selected
      BY <3>3, <3>4, <3>5 DEF ListType
    <3>7. Owned(Append(rows, r), server, Front(dialogs))
      BY <1>1, <1>2, <3>1, <3>3, <3>4, OwnedAccepted DEF d
    <3>8. OneChecked'
      BY <1>1, <1>2, <3>1, <3>3, <3>5 DEF OneChecked
    <3> QED BY <1>1, <1>2, <2>0, <3>1, <3>6, <3>7, <3>8
  <2>2. CASE NewRecordReturns(d) /\ d.result # "IDOK"
    <3>1. d.kind = "new" /\ server' = [server EXCEPT ![d.config] = Released]
          /\ UNCHANGED <<rows, cur_selected, history>>
      BY <2>2 DEF NewRecordReturns, Abandon, listVars
    <3>2. Owned(rows, [server EXCEPT ![d.config] = Released], Front(dialogs))
      BY <1>1, <1>2, <3>1, OwnedAbandoned DEF d
    <3>3. server' \in Objects
      BY <1>2, <3>1 DEF Objects
    <3>4. OneChecked'
      BY <1>1, <1>2, <3>1 DEF OneChecked, List
    <3> QED BY <1>1, <1>2, <2>0, <3>1, <3>2, <3>3, <3>4
  <2>3. CASE DeleteItemReturns(d)
    <3>1. /\ d.kind = "delete" /\ SetList([List EXCEPT !.rows = RemoveAt(rows, d.row + 1)])
          /\ server' = [server EXCEPT ![rows[d.row + 1].config] = Released]
          /\ history' = [history EXCEPT !.deleted = TRUE]
      BY <2>3 DEF DeleteItemReturns, Abandon, List
    <3> DEFINE j == d.row + 1
               w == RemoveAt(rows, j)
    <3>2. j \in 1..Len(rows)
      BY <1>2, <1>3, <2>3, RowFacts DEF DeleteItemReturns, InRange, List, Dialog
    <3>3. /\ rows[j].config \in Configs
          /\ Owned(w, [server EXCEPT ![rows[j].config] = Released], Front(dialogs))
      <4> HIDE DEF j
      <4> QED BY <1>1, <1>2, <3>1, <3>2, OwnedDeleted DEF d
    <3>5. w \in Seq(Row)
      BY <1>2, <3>2, RemoveFacts
    <3> HIDE DEF w
    <3>6. rows' = w /\ cur_selected' = cur_selected
      BY <3>1 DEF SetList, List, w
    <3>7. server' \in Objects
      BY <1>2, <3>1, <3>3 DEF Objects
    <3>8. history'.deleted = TRUE /\ history'.saved = history.saved
      BY <3>1 DEF WindowInv, Recorded
    <3>9. OneChecked'
      BY <3>8 DEF OneChecked
    <3> QED BY <1>1, <3>1, <3>3, <3>5, <3>6, <3>7, <3>8, <3>9
  <2>4. CASE OtherReturns(d)
    <3>1. d.kind # "new" /\ UNCHANGED <<rows, cur_selected, server, history>>
      BY <2>4 DEF OtherReturns, listVars
    <3>2. Owned(rows, server, Front(dialogs))
      BY <1>1, <1>2, <3>1, OwnedFront DEF d
    <3>3. OneChecked'
      BY <1>1, <1>2, <3>1 DEF OneChecked, List
    <3> QED BY <1>1, <1>2, <2>0, <3>1, <3>2, <3>3
  <2> QED BY <1>1, <2>1, <2>2, <2>3, <2>4
<1>6. Len(dialogs') <= MaxDialogs
  BY <1>2, <1>3, MainWindowConstantsOK DEF GuiTypes, n
<1>7. GuiTypes'
  BY <1>1, <1>2, <1>3, <1>5, <1>6 DEF GuiTypes
<1> QED BY <1>1, <1>4, <1>5, <1>7, Quiet DEF GuiInv

---------------------------------------------------------------------------
(* The client and the life of the program. *)

LEMMA DiesGui ==
  ASSUME WindowInv, GuiInv, ui' = "ended", ProcessDies, UNCHANGED file \/ (Pumping /\ file' = <<>>)
  PROVE  GuiInv'
<1>1. /\ ui' = "ended" /\ wndData' = FALSE /\ closing' = FALSE /\ rows' = <<>> /\ cur_selected' = -1
      /\ server' = [c \in Configs |-> Released] /\ dialogs' = <<>> /\ dlgConfig' = NoConfig
      /\ UNCHANGED <<registry, serves>> /\ history' = [history EXCEPT !.killed = TRUE]
  BY DEF ProcessDies
<1>2. history'.deleted = history.deleted /\ history'.saved = history.saved /\ history'.last = history.last
  BY <1>1 DEF WindowInv, Recorded
<1>3. GuiTypes /\ Saved
  BY DEF GuiInv
<1>4. Life' /\ Shown' /\ Serving'
  BY <1>1 DEF Life, Gone, Shown, Serving
<1>5. Owned(rows', server', dialogs')
  BY <1>1, NothingOwned
<1>6. OneChecked'
  BY <1>1 DEF OneChecked, Radio, List
<1>7. Cardinality(Configs) \in Nat
  BY ObjectsFacts
<1>8. GuiTypes'
  <2>1. file' \in Seq(Object) /\ Len(file') <= Cardinality(Configs)
    <3>1. CASE UNCHANGED file
      BY <1>3, <3>1 DEF GuiTypes
    <3>2. CASE file' = <<>>
      BY <1>7, <3>2
    <3> QED BY <3>1, <3>2
  <2>2. server' \in Objects
    BY <1>1 DEF Objects
  <2>3. Len(dialogs') <= MaxDialogs /\ dialogs' \in Seq(Dialog) /\ rows' \in Seq(Row)
    BY <1>1, MainWindowConstantsOK
  <2> QED BY <1>1, <1>2, <1>3, <1>7, <2>1, <2>2, <2>3 DEF GuiTypes
<1>9. Saved'
  <2>1. CASE UNCHANGED file
    BY <1>1, <1>2, <1>3, <2>1 DEF Saved, Gone
  <2>2. CASE Pumping
    <3>1. history.saved = FALSE
      BY <2>2, Open, PumpingFacts
    <3> QED BY <1>2, <3>1 DEF Saved
  <2> QED BY <2>1, <2>2
<1> QED BY <1>4, <1>5, <1>6, <1>8, <1>9 DEF GuiInv

LEMMA RunGui == WindowInv /\ GuiInv /\ (Run \/ Stop) => GuiInv' \/ (Killed /\ ProcessDies /\ UNCHANGED file)
<1> SUFFICES ASSUME WindowInv, GuiInv, Run \/ Stop, ~(Killed /\ ProcessDies /\ UNCHANGED file) PROVE GuiInv'
  OBVIOUS
<1> DEFINE m == MenuShown(List)
<1>1. /\ ui \in {"idle", "running"} /\ closing = FALSE /\ SetList(m)
      /\ UNCHANGED <<wndData, closing, server, dialogs, dlgConfig, file, registry, history>>
  BY Open DEF Run, Stop, MenuCommand, dialogVars, diskVars
<1>2. GuiTypes /\ Shown /\ server \in Objects /\ Life
  BY DEF GuiInv, GuiTypes
<1>3. /\ m \in ListType /\ m.rows \in Seq(Row) /\ m.cur \in -1..(Cardinality(Configs) - 1)
      /\ Owned(m.rows, server, dialogs) /\ (history.deleted = FALSE => Radio(m))
  BY <1>1, MenuListed, Listed
<1>4. quitting # TRUE /\ history.saved = FALSE /\ wndData = TRUE
  BY <1>1, PumpingFacts
<1>5. \/ UNCHANGED <<ssrVars, serves>>
      \/ /\ ui' = "wait S5 port" /\ quitting' = FALSE
         /\ m.cur \in 0..(Len(m.rows) - 1) /\ serves' = server[m.rows[m.cur + 1].config].host
      \/ ui' = "join client" /\ quitting' = FALSE /\ UNCHANGED serves
  <2>1. CASE Stop
    BY <2>1 DEF Stop, Terminate, UiGoto
  <2>2. CASE Run
    <3>1. /\ InRange(m, m.cur)
          /\ \/ /\ BeginRun("idle", options.change_inet_opts)
                /\ serves' = server[m.rows[m.cur + 1].config].host
             \/ BeginRunRefused /\ UNCHANGED serves
      BY <2>2 DEF Run
    <3>2. m.cur \in 0..(Len(m.rows) - 1)
      BY <1>3, <3>1, ListFacts DEF InRange
    <3> HIDE DEF m
    <3> QED BY <3>1, <3>2 DEF BeginRun, BeginRunRefused, UiGoto
  <2> QED BY <2>1, <2>2
<1> HIDE DEF m
<1>6. rows' = m.rows /\ cur_selected' = m.cur /\ List' = m
  BY <1>1, <1>3, SetListFacts
<1>7. Owned(rows', server', dialogs') /\ Shown' /\ OneChecked'
  BY <1>1, <1>2, <1>3, <1>6 DEF Shown, OneChecked
<1>8. ui' # "ended" /\ quitting' # TRUE
  BY <1>1, <1>4, <1>5 DEF ssrVars
<1>9. Life' /\ Saved'
  BY <1>1, <1>2, <1>4, <1>8 DEF Life, Gone, Saved
<1>10. Serving'
  BY <1>1, <1>5, <1>6 DEF Serving, ssrVars
<1>11. serves' \in Hosts \cup {NoHost}
  <2>1. CASE UNCHANGED serves
    BY <1>2, <2>1 DEF GuiTypes
  <2>2. CASE m.cur \in 0..(Len(m.rows) - 1) /\ serves' = server[m.rows[m.cur + 1].config].host
    <3>1. m.cur + 1 \in 1..Len(m.rows)
      BY <1>3, <2>2, ListFacts
    <3>2. m.rows[m.cur + 1].config \in Configs /\ server[m.rows[m.cur + 1].config] # Released
      BY <1>3, <3>1, RowFacts DEF Owned, RowsHaveObjects
    <3>3. server[m.rows[m.cur + 1].config] \in Server
      BY <1>2, <3>2 DEF Objects
    <3> QED BY <2>2, <3>3 DEF Server
  <2> QED BY <1>5, <2>1, <2>2
<1>12. GuiTypes'
  BY <1>1, <1>2, <1>3, <1>6, <1>11 DEF GuiTypes
<1> QED BY <1>7, <1>9, <1>10, <1>12 DEF GuiInv

LEMMA DestroyGui == WindowInv /\ GuiInv /\ Destroy => GuiInv'
<1> SUFFICES ASSUME WindowInv, GuiInv, Destroy PROVE GuiInv'
  OBVIOUS
<1> DEFINE s == Servers(List)
<1>1. /\ ui \in {"idle", "running"} /\ closing = FALSE /\ closing' = TRUE
      /\ rows' = <<>> /\ server' = [c \in Configs |-> Released]
      /\ dialogs' = <<>> /\ dlgConfig' = NoConfig
      /\ UNCHANGED <<wndData, cur_selected, registry, serves, ui, quitting>>
  BY Open DEF Destroy, ssrVars
<1>2. GuiTypes /\ Owned(rows, server, dialogs) /\ Life
  BY DEF GuiInv
<1>3. s \in Seq(Server) /\ Len(s) <= Cardinality(Configs) /\ Cardinality(Configs) \in Nat
  BY <1>2, ServersFacts, ObjectsFacts
<1>4. \/ file' = SettingsFile(s) /\ history' = [history EXCEPT !.saved = TRUE, !.last = s]
      \/ file' \in {file, <<>>} /\ UNCHANGED history
  BY DEF Destroy, SaveAll
<1> HIDE DEF s
<1>5. quitting # TRUE /\ history.saved = FALSE /\ wndData = TRUE
  BY <1>1, PumpingFacts
<1>6. \/ /\ file' = SettingsFile(s)
         /\ history'.saved = TRUE /\ history'.last = s /\ history'.deleted = history.deleted
      \/ file' \in {file, <<>>} /\ UNCHANGED history
  BY <1>4 DEF WindowInv, Recorded
<1>7. Life' /\ Shown' /\ Serving'
  BY <1>1, <1>2, <1>5 DEF Life, Gone, Shown, Serving
<1>8. Saved'
  BY <1>1, <1>3, <1>5, <1>6 DEF Saved
<1>9. Owned(rows', server', dialogs')
  BY <1>1, NothingOwned
<1>10. OneChecked'
  BY <1>1 DEF OneChecked
<1>11. GuiTypes'
  <2>1. file' \in Seq(Object) /\ Len(file') <= Cardinality(Configs)
    <3>1. CASE file' = SettingsFile(s)
      BY <1>3, <3>1, WriteFacts
    <3>2. CASE file' = file
      BY <1>2, <3>2 DEF GuiTypes
    <3>3. CASE file' = <<>>
      BY <1>3, <3>3, EmptySeq
    <3> QED BY <1>6, <3>1, <3>2, <3>3
  <2>2. server' \in Objects
    BY <1>1 DEF Objects
  <2>3. Len(dialogs') <= MaxDialogs /\ dialogs' \in Seq(Dialog) /\ rows' \in Seq(Row)
    BY <1>1, MainWindowConstantsOK
  <2>4. history'.deleted \in BOOLEAN /\ history'.saved \in BOOLEAN
    BY <1>2, <1>6 DEF GuiTypes
  <2> QED BY <1>1, <1>2, <2>1, <2>2, <2>3, <2>4 DEF GuiTypes
<1> QED BY <1>7, <1>8, <1>9, <1>10, <1>11 DEF GuiInv

LEMMA DestroyEndsGui == WindowInv /\ GuiInv /\ DestroyEnds => GuiInv'
<1> SUFFICES ASSUME WindowInv, GuiInv, DestroyEnds PROVE GuiInv'
  OBVIOUS
<1>1. GuiTypes /\ Life /\ Saved /\ Owned(rows, server, dialogs)
  BY DEF GuiInv
<1>2. closing = TRUE /\ closing' = FALSE /\ cur_selected' = -1
      /\ UNCHANGED <<rows, server, dialogs, dlgConfig, file, serves, history>>
  <2>1. closing = TRUE
    <3>1. closing \in BOOLEAN
      BY <1>1 DEF Life
    <3> QED BY <3>1, Zenon DEF DestroyEnds
  <2> QED BY <2>1 DEF DestroyEnds, dialogVars
<1>3. registry'.cur_selected \in {cur_selected, registry.cur_selected}
  BY DEF DestroyEnds, SaveRegistry
<1>4. \/ ui' = "join client" /\ quitting' = TRUE /\ wndData' = wndData
      \/ ui' = "ended" /\ quitting' = TRUE /\ wndData' = FALSE
  BY DEF DestroyEnds, Terminate, Quit, UiGoto
<1>5. rows = <<>> /\ dialogs = <<>> /\ dlgConfig = NoConfig /\ wndData = TRUE
  BY <1>1, <1>2 DEF Life
<1>6. Life' /\ Shown' /\ Saved' /\ Serving'
  BY <1>1, <1>2, <1>4, <1>5 DEF Life, Gone, Shown, Saved, Serving
<1>7. OneChecked'
  BY <1>2, <1>5 DEF OneChecked, Radio, List
<1>8. Owned(rows', server', dialogs')
  BY <1>1, <1>2
<1>9. GuiTypes'
  <2>1. Cardinality(Configs) \in Nat
    BY ObjectsFacts
  <2>2. cur_selected' \in -1..(Cardinality(Configs) - 1) /\ registry'.cur_selected \in Int
    BY <1>1, <1>2, <1>3, <2>1 DEF GuiTypes
  <2> QED BY <1>1, <1>2, <2>2 DEF GuiTypes
<1> QED BY <1>6, <1>7, <1>8, <1>9 DEF GuiInv

\* Rows are counted from 0.
LEMMA RowNumber == ASSUME NEW n \in Nat, NEW i \in 0..(n - 1) PROVE i + 1 \in 1..n
OBVIOUS

\* What on_wm_create makes of the file.
ListRead ==
  /\ rows' \in Seq(Row) /\ Len(rows') = Len(file)
  /\ \A i \in 1..Len(file) : server'[rows'[i].config] = parse_settings_file(file)[i]

LEMMA CreateGui ==
  ASSUME WindowInv, GuiInv, Create
  PROVE  GuiInv' /\ ListRead
<1> DEFINE read == parse_settings_file(file)
           objects == SetToSeq(Configs)
           rws == [i \in DOMAIN read |-> [config |-> objects[i], checked |-> FALSE]]
           srv == [c \in Configs |-> LET at == CHOOSE i \in DOMAIN objects : objects[i] = c
                                     IN  IF at <= Len(read) THEN read[at] ELSE Released]
           listed == [cur |-> -1, rows |-> rws]
           index == registry.cur_selected
           found == InRange(listed, index)
           m == IF found THEN set_current_selected_item(listed, index) ELSE listed
<1>1. /\ ui = "ended" /\ wndData' = TRUE /\ server' = srv /\ SetList(m)
      /\ history' = [history EXCEPT !.saved = FALSE, !.last = <<>>, !.deleted = FALSE]
      /\ UNCHANGED <<closing, dialogs, dlgConfig, file, registry>>
      /\ \/ found /\ ui' = "wait S5 port" /\ quitting' = FALSE /\ serves' = read[index + 1].host
         \/ ui' = "idle" /\ quitting' = FALSE /\ UNCHANGED serves
  BY DEF Create, BeginRun, StartIdle, UiGoto, dialogVars, diskVars
<1>2. GuiTypes /\ Life /\ Shown /\ Cardinality(Configs) \in Nat
  BY ObjectsFacts DEF GuiInv
<1>3. read \in Seq(Server) /\ Len(read) <= Cardinality(Configs) /\ Len(read) \in Nat /\ index \in Int
      /\ \A i \in 1..Len(read) : read[i] \in Server
  BY <1>2, ReadFacts DEF GuiTypes
<1>4. /\ rws \in Seq(Row) /\ Len(rws) = Len(read) /\ srv \in Objects
      /\ Owned(rws, srv, <<>>)
      /\ \A i \in 1..Len(read) : srv[rws[i].config] = read[i] /\ rws[i].checked = FALSE
  BY <1>3, OwnedRead
<1> HIDE DEF read, objects, rws, srv
<1>5. listed \in ListType /\ listed.rows = rws /\ listed.cur = -1
  BY <1>4 DEF ListType
<1> HIDE DEF listed, index
<1>6. Radio(listed)
  BY <1>3, <1>4, <1>5 DEF Radio
<1>7. found => index \in 0..(Len(rws) - 1)
  BY <1>3, <1>4, <1>5 DEF InRange
<1>8. found => m.cur = index
  <2> SUFFICES ASSUME found PROVE set_current_selected_item(listed, index).cur = index
    OBVIOUS
  <2>1. index \in 0..(Len(listed.rows) - 1) /\ index + 1 \in 1..Len(read)
    BY <1>3, <1>4, <1>5, <1>7
  <2>2. listed.rows[index + 1].checked = FALSE
    BY <1>4, <1>5, <2>1
  <2> QED BY <1>5, <2>1, <2>2, FirstSelection
<1>9. ListStep(listed, m)
  BY <1>3, <1>5, SetCurrentStep, NoStep
<1> HIDE DEF m, found
<1>10. /\ m \in ListType /\ m.rows \in Seq(Row) /\ Radio(m) /\ Len(m.rows) = Len(rws)
       /\ \A i \in 1..Len(rws) : m.rows[i].config = rws[i].config
       /\ m.cur = -1 \/ m.cur \in 0..(Len(rws) - 1)
  BY <1>5, <1>6, <1>9, ListFacts DEF ListStep, SameConfigs
<1>11. rows' = m.rows /\ cur_selected' = m.cur /\ List' = m
  BY <1>1, <1>10, SetListFacts
<1>12. dialogs = <<>> /\ dlgConfig = NoConfig /\ closing = FALSE
  BY <1>1, <1>2 DEF Life, Gone
<1>13. history'.deleted = FALSE /\ history'.saved = FALSE
  BY <1>1 DEF WindowInv, Recorded
<1>14. Life' /\ Shown' /\ Saved' /\ OneChecked'
  BY <1>1, <1>10, <1>11, <1>12, <1>13 DEF Life, Gone, Shown, Saved, OneChecked
<1>15. Owned(rows', server', dialogs')
  <2>1. Owned(m.rows, srv, <<>>)
    BY <1>4, <1>10, OwnedSame, EmptySeq
  <2> QED BY <1>1, <1>11, <1>12, <2>1
<1>16. ui' = "wait S5 port" =>
         /\ cur_selected' \in 0..(Len(rows') - 1) /\ index + 1 \in 1..Len(read)
         /\ serves' = read[index + 1].host /\ server'[rows'[cur_selected' + 1].config] = read[index + 1]
  <2> SUFFICES ASSUME ui' = "wait S5 port"
               PROVE  /\ cur_selected' \in 0..(Len(rows') - 1) /\ index + 1 \in 1..Len(read)
                      /\ serves' = read[index + 1].host /\ server'[rows'[cur_selected' + 1].config] = read[index + 1]
    OBVIOUS
  <2>1. found /\ serves' = read[index + 1].host
    BY <1>1
  <2>2. cur_selected' = index /\ index \in 0..(Len(rws) - 1) /\ index + 1 \in 1..Len(read)
    <3>1. cur_selected' = index /\ index \in 0..(Len(rws) - 1)
      BY <1>7, <1>8, <1>11, <2>1
    <3>2. Len(rws) = Len(read) /\ Len(read) \in Nat
      BY <1>3, <1>4
    <3> QED BY <3>1, <3>2, RowNumber
  <2>3. rows'[index + 1].config = rws[index + 1].config
    BY <1>4, <1>10, <1>11, <2>2
  <2> QED BY <1>1, <1>4, <1>10, <1>11, <2>1, <2>2, <2>3
<1>17. Serving'
  BY <1>16 DEF Serving
<1>18. GuiTypes'
  <2>1. cur_selected' \in -1..(Cardinality(Configs) - 1)
    BY <1>2, <1>3, <1>4, <1>10, <1>11
  <2>2. serves' \in Hosts \cup {NoHost}
    <3>1. CASE ui' = "wait S5 port"
      <4>1. read[index + 1] \in Server
        BY <1>3, <1>16, <3>1
      <4> QED BY <1>16, <3>1, <4>1 DEF Server
    <3>2. CASE ui' # "wait S5 port"
      BY <1>1, <1>2, <3>2 DEF GuiTypes
    <3> QED BY <3>1, <3>2
  <2> QED BY <1>1, <1>2, <1>4, <1>10, <1>11, <1>13, <2>1, <2>2 DEF GuiTypes
<1>19. ListRead
  <2>1. Len(read) = Len(file)
    BY <1>2, ReadFacts DEF GuiTypes, read
  <2> QED BY <1>1, <1>4, <1>10, <1>11, <2>1 DEF ListRead, read
<1> QED BY <1>14, <1>15, <1>17, <1>18, <1>19 DEF GuiInv

LEMMA KillGui == WindowInv /\ GuiInv /\ (Kill \/ ExportDies) => GuiInv'
BY DiesGui DEF Kill, ExportDies, Killed

\* Where the client's steps leave the UI thread.
LEMMA ProceedFacts ==
  /\ UiStep => ui \notin {"idle", "running", "ended"} /\ ui' # "wait S5 port" /\ quitting' = quitting
  /\ ClientStep \/ HttpStep \/ LoopReturns => ui' = ui /\ quitting' = quitting
<1>1. UiStep => ui \notin {"idle", "running", "ended"} /\ ui' # "wait S5 port" /\ quitting' = quitting
  BY DEF UiStep, AfterS5Port, JoinFailedClient, AfterHttpPort, JoinClient, JoinHttpProxy, UiGoto
<1>2. ClientStep \/ HttpStep \/ LoopReturns => ui' = ui /\ quitting' = quitting
  BY DEF ClientStep, HttpStep, OverTlsBegins, SsrBegins, ClientSaysNothing, ClientReturns, HttpProxyBegins,
         HttpProxySaysNothing, HttpProxyReturns, LoopReturns
<1> QED BY <1>1, <1>2

\* What does not touch the window.
LEMMA SameGui ==
  ASSUME GuiInv, UNCHANGED guiVars, quitting' = quitting,
         ui' = ui \/ (ui \notin {"idle", "running", "ended"} /\ ui' \notin {"ended", "wait S5 port"})
  PROVE  GuiInv'
<1>1. UNCHANGED <<wndData, closing, rows, cur_selected, server, dialogs, dlgConfig, file, registry, serves, history>>
  BY DEF guiVars, listVars, dialogVars, diskVars
<1>2. GuiTypes' /\ Shown' /\ OneChecked'
  BY <1>1 DEF GuiInv, GuiTypes, Shown, OneChecked, List
<1>3. Life' /\ Saved' /\ Serving'
  <2>1. Gone' <=> Gone
    BY DEF Gone
  <2>2. Life'
    <3>1. ui' = "ended" <=> ui = "ended"
      OBVIOUS
    <3>2. ui \in {"idle", "running"} => ui' = ui
      OBVIOUS
    <3> QED BY <1>1, <2>1, <3>1, <3>2 DEF GuiInv, Life
  <2>3. Saved'
    BY <1>1, <2>1 DEF GuiInv, Saved
  <2>4. Serving'
    BY <1>1 DEF GuiInv, Serving
  <2> QED BY <2>2, <2>3, <2>4
<1>4. Owned(rows', server', dialogs')
  BY <1>1 DEF GuiInv
<1> QED BY <1>2, <1>3, <1>4 DEF GuiInv

LEMMA ProceedGui == WindowInv /\ GuiInv /\ (UiProceeds \/ ClientProceeds \/ HttpProceeds \/ LoopGivesUp) => GuiInv'
<1> SUFFICES ASSUME WindowInv, GuiInv, UiProceeds \/ ClientProceeds \/ HttpProceeds \/ LoopGivesUp PROVE GuiInv'
  OBVIOUS
<1>1. CASE ClientProceeds \/ HttpProceeds \/ LoopGivesUp
  BY <1>1, ProceedFacts, SameGui DEF ClientProceeds, HttpProceeds, LoopGivesUp
<1>2. CASE UiProceeds
  <2>1. ui \notin {"idle", "running", "ended"} /\ ui' # "wait S5 port" /\ quitting' = quitting
    BY <1>2, ProceedFacts DEF UiProceeds
  <2>2. CASE ui' # "ended" /\ UNCHANGED guiVars
    BY <2>1, <2>2, SameGui
  <2>3. CASE /\ ui' = "ended" /\ quitting /\ wndData' = FALSE
             /\ UNCHANGED <<closing, listVars, options, server, dialogVars, diskVars, serves, history, commands, starts>>
    <3>1. /\ UNCHANGED <<closing, rows, cur_selected, server, dialogs, dlgConfig, file, registry, serves, history>>
          /\ ui' = "ended" /\ wndData' = FALSE /\ quitting = TRUE
      <4>1. quitting = TRUE
        BY <2>3
      <4> QED BY <2>3, <4>1 DEF listVars, dialogVars, diskVars
    <3>2. GuiTypes' /\ Shown' /\ OneChecked'
      BY <3>1 DEF GuiInv, GuiTypes, Shown, OneChecked, List
    <3>3. Life' /\ Saved' /\ Serving'
      BY <2>1, <3>1 DEF GuiInv, Life, Gone, Saved, Serving
    <3>4. Owned(rows', server', dialogs')
      BY <3>1 DEF GuiInv
    <3> QED BY <3>2, <3>3, <3>4 DEF GuiInv
  <2>4. CASE ui' = "ended" /\ ProcessDies /\ UNCHANGED <<file, commands>>
    BY <2>4, DiesGui
  <2> QED BY <1>2, <2>2, <2>3, <2>4 DEF UiProceeds
<1> QED BY <1>1, <1>2

LEMMA InitGui == Init => GuiInv
<1> SUFFICES ASSUME Init PROVE GuiInv
  OBVIOUS
<1>1. /\ ui = "ended" /\ wndData = FALSE /\ closing = FALSE /\ rows = <<>> /\ cur_selected = -1
      /\ server = [c \in Configs |-> Released] /\ dialogs = <<>> /\ dlgConfig = NoConfig
      /\ file \in Seq(Object) /\ Len(file) <= Cardinality(Configs) /\ registry.cur_selected = -1
      /\ serves = NoHost /\ history.deleted = FALSE /\ history.saved = FALSE
  BY MainWindowConstantsOK DEF Init, SsrInit
<1>2. Cardinality(Configs) \in Nat /\ server \in Objects /\ MaxDialogs \in Nat
  BY <1>1, ObjectsFacts, MainWindowConstantsOK DEF Objects
<1>3. GuiTypes
  <2>1. rows \in Seq(Row) /\ dialogs \in Seq(Dialog) /\ Len(dialogs) <= MaxDialogs
    BY <1>1, <1>2, EmptySeq
  <2>2. cur_selected \in -1..(Cardinality(Configs) - 1)
    BY <1>1, <1>2
  <2>3. history.deleted \in BOOLEAN /\ history.saved \in BOOLEAN
    BY <1>1, Zenon
  <2>4. /\ file \in Seq(Object) /\ Len(file) <= Cardinality(Configs)
        /\ registry.cur_selected \in Int /\ serves \in Hosts \cup {NoHost}
    BY <1>1
  <2> QED BY <1>2, <2>1, <2>2, <2>3, <2>4, Zenon DEF GuiTypes
<1>4. Life /\ Shown /\ Saved /\ Serving
  BY <1>1 DEF Life, Gone, Shown, Saved, Serving
<1>5. Owned(rows, server, dialogs)
  BY <1>1, NothingOwned
<1>6. OneChecked
  BY <1>1 DEF OneChecked, Radio, List
<1> QED BY <1>3, <1>4, <1>5, <1>6 DEF GuiInv

LEMMA NextGui == WindowInv /\ GuiInv /\ [Next]_vars => GuiInv'
<1> SUFFICES ASSUME WindowInv, GuiInv, [Next]_vars PROVE GuiInv'
  OBVIOUS
<1>1. CASE UNCHANGED vars
  BY <1>1, SameGui DEF vars, ssrVars
<1>2. ASSUME Killed /\ ProcessDies /\ UNCHANGED file PROVE GuiInv'
  BY <1>2, DiesGui DEF Killed
<1>3. CASE Next
  BY <1>2, <1>3, CreateGui, DestroyGui, DestroyEndsGui, KillGui, ProceedGui, ClickGui, NewRecordGui, ImportGui, ForRowGui,
     OptionsGui, RunGui, PressGui, ReturnGui DEF Next
<1> QED BY <1>1, <1>3

LEMMA GuiInvariant == Spec => [](WindowInv /\ GuiInv)
<1>1. Init => WindowInv /\ GuiInv
  BY InitInv, InitGui
<1>2. WindowInv /\ GuiInv /\ [Next]_vars => (WindowInv /\ GuiInv)'
  BY NextInv, NextGui
<1> QED BY <1>1, <1>2, PTL DEF Spec

---------------------------------------------------------------------------
(* The theorems. *)

\* on_list_view_notification_item_changing makes radio buttons of the check boxes: unless a row
\* was deleted, the row that cur_selected names is the one that is checked, and the client that is
\* started is that row's (main.c:1199).
THEOREM OneServerIsChecked == Spec => []OneServerChecked
<1>1. WindowInv /\ GuiInv => OneServerChecked
  <2> SUFFICES ASSUME WindowInv, GuiInv PROVE OneServerChecked
    OBVIOUS
  <2> SUFFICES ASSUME history.deleted = FALSE, closing = FALSE
               PROVE  /\ Checked(List) = {cur_selected} \ {-1}
                      /\ ui = "wait S5 port" => serves = server[rows[cur_selected + 1].config].host
    <3>0. history.deleted \in BOOLEAN /\ closing \in BOOLEAN
      BY Zenon DEF GuiInv, GuiTypes, Life
    <3>1. ASSUME ~history.deleted PROVE history.deleted = FALSE
      BY <3>0, <3>1, Zenon
    <3>2. ASSUME ~closing PROVE closing = FALSE
      BY <3>0, <3>2, Zenon
    <3> QED BY <3>1, <3>2 DEF OneServerChecked
  <2>1. Radio(List) /\ List \in ListType /\ List.rows = rows /\ List.cur = cur_selected
    BY ListOK DEF GuiInv, OneChecked, List
  <2>2. Len(rows) \in Nat /\ cur_selected \in -1..(Len(rows) - 1)
        /\ \A r \in 1..Len(rows) : rows[r].checked \in BOOLEAN /\ (rows[r].checked = TRUE <=> r - 1 = cur_selected)
    BY <2>1, ListFacts DEF Radio
  <2>3. \A i \in 0..(Len(rows) - 1) : rows[i + 1].checked <=> i = cur_selected
    <3> SUFFICES ASSUME NEW i \in 0..(Len(rows) - 1) PROVE rows[i + 1].checked <=> i = cur_selected
      OBVIOUS
    <3>1. i + 1 \in 1..Len(rows) /\ i + 1 - 1 = i
      BY <2>2
    <3>2. rows[i + 1].checked \in BOOLEAN /\ (rows[i + 1].checked = TRUE <=> i = cur_selected)
      BY <2>2, <3>1
    <3> QED BY <3>2
  <2>4. Checked(List) = {i \in 0..(Len(rows) - 1) : i = cur_selected}
    BY <2>1, <2>3, Zenon DEF Checked
  <2>5. Checked(List) = {cur_selected} \ {-1}
    BY <2>2, <2>4
  <2> QED BY <2>5 DEF GuiInv, Serving
<1> QED BY <1>1, GuiInvariant, PTL

\* struct server_config is released where its row or its new record goes, and nowhere else: rows
\* and dialogs on the screen never point to a released one, none is forgotten, and main_wnd_data
\* is there as long as the client's threads are (main.c:318, :1149).  A handler whose dialog has
\* ended under another is not on the screen: an export may be left with a released one (:1080).
THEOREM NothingEverDangles == Spec => []NothingDangles
<1>1. WindowInv /\ GuiInv => NothingDangles
  <2> SUFFICES ASSUME WindowInv, GuiInv PROVE NothingDangles
    OBVIOUS
  <2>1. rows \in Seq(Row) /\ server \in Objects /\ dialogs \in Seq(Dialog) /\ Owned(rows, server, dialogs)
    BY DEF GuiInv, GuiTypes
  <2>2. \A d \in Range(dialogs) : d.config # NoConfig /\ d.result = "open" => server[d.config] # Released
    <3> SUFFICES ASSUME NEW k \in 1..Len(dialogs), dialogs[k].config # NoConfig, dialogs[k].result = "open"
                 PROVE  server[dialogs[k].config] # Released
      BY <2>1 DEF Range
    <3> QED BY DialogAllocated, MainWindowConstantsOK
  <2>3. dlgConfig # NoConfig => server[dlgConfig] # Released
    BY ShownAllocated, MainWindowConstantsOK
  <2>4. client # "none" \/ http # "none" => wndData
    <3>1. client # "none" \/ http # "none" => wndData = TRUE
      <4>1. client # "none" \/ http # "none" => ui # "ended"
        BY DEF WindowInv, ThreadsInv, Phase, Nothing
      <4> QED BY <4>1 DEF GuiInv, Life
    <3> QED BY <3>1
  <2>5. \A c \in Configs :
          Cardinality({<<"row", i>> : i \in {i \in DOMAIN rows : rows[i].config = c}} \cup
                      {<<"new", k>> : k \in {k \in DOMAIN dialogs : dialogs[k].kind = "new" /\ dialogs[k].config = c}})
            = IF server[c] = Released THEN 0 ELSE 1
    BY <2>1, OneOwner
  <2> QED BY <2>2, <2>3, <2>4, <2>5 DEF NothingDangles
<1> QED BY <1>1, GuiInvariant, PTL

\* If the file could be written, the program starts with the servers it ended with, in their
\* order, as far as the file keeps them (settings_json.c:137-382, on_wm_create, on_wm_destroy).
THEOREM SettingsAlwaysSurvive == Spec => SettingsSurvive
<1> DEFINE A == ui = "ended" /\ ui' # "ended" /\ history.saved =>
                  Servers(List)' = [i \in DOMAIN history.last |-> Kept(history.last[i])]
<1>1. WindowInv /\ GuiInv /\ [Next]_vars => [A]_vars
  <2> SUFFICES ASSUME WindowInv, GuiInv, Next PROVE A
    OBVIOUS
  <2> SUFFICES ASSUME ui = "ended", ui' # "ended", history.saved = TRUE
               PROVE  Servers(List)' = [i \in DOMAIN history.last |-> Kept(history.last[i])]
    <3>0. history.saved \in BOOLEAN
      BY Zenon DEF GuiInv, GuiTypes
    <3>1. ASSUME history.saved PROVE history.saved = TRUE
      BY <3>0, <3>1, Zenon
    <3> QED BY <3>1
  <2>1. Create
    <3>1. ~Killed /\ ~Destroy /\ ~Return /\ ~Press /\ ~MenuCommand /\ ~Enabled
      BY DEF Killed, Destroy, Return, Returning, Press, MenuCommand, Enabled, Pumping
    <3>2. ~UiProceeds /\ ~ClientProceeds /\ ~HttpProceeds /\ ~LoopGivesUp
      BY ProceedFacts DEF UiProceeds, ClientProceeds, HttpProceeds, LoopGivesUp
    <3>3. ~DestroyEnds
      BY DEF DestroyEnds, Terminate, Quit, UiGoto
    <3> QED BY <3>1, <3>2, <3>3 DEF Next, Kill, ExportDies, Click, SelectServer, NewRecord, Import, ViewDetails,
                                    DeleteItem, ShowServer, ExportServer, ForRow, OpenOptions, Run, Stop
  <2>2. ListRead
    BY <2>1, CreateGui
  <2> DEFINE last == history.last
  <2>3. last \in Seq(Server) /\ file = SettingsFile(last)
    BY DEF GuiInv, Saved
  <2> HIDE DEF last
  <2>4. Len(file) = Len(last) /\ \A i \in 1..Len(last) : parse_settings_file(file)[i] = Kept(last[i])
    BY <2>3, WriteFacts, WriteAndRead
  <2>5. DOMAIN rows' = 1..Len(last) /\ DOMAIN last = 1..Len(last)
        /\ \A i \in 1..Len(last) : server'[rows'[i].config] = Kept(last[i])
    BY <2>2, <2>3, <2>4 DEF ListRead
  <2>6. Servers(List)' = [i \in DOMAIN rows' |-> server'[rows'[i].config]]
    BY DEF Servers, List
  <2>7. [i \in DOMAIN rows' |-> server'[rows'[i].config]] = [i \in DOMAIN last |-> Kept(last[i])]
    BY <2>5
  <2> QED BY <2>6, <2>7 DEF last
<1> QED BY <1>1, GuiInvariant, PTL DEF Spec, SettingsSurvive

DialogFlag == dlgWndData \in BOOLEAN

LEMMA DialogFlagStep == DialogFlag /\ [Next]_vars => DialogFlag'
<1> SUFFICES ASSUME DialogFlag, [Next]_vars PROVE DialogFlag'
  OBVIOUS
<1>1. dlgWndData' = dlgWndData \/ dlgWndData' = FALSE \/ \E kind, config, row : OpenDialog(kind, config, row)
  BY DEF Next, vars, guiVars, dialogVars, Create, Destroy, DestroyEnds, Kill, ExportDies, ProcessDies, UiProceeds,
         ClientProceeds, HttpProceeds, LoopGivesUp, Click, SelectServer, NewRecord, Import, ViewDetails,
         DeleteItem, ShowServer, ExportServer, ForRow, OpenOptions, Run, Stop, Press, PressDetails, PressOptions,
         PressOther, Return
<1> QED BY <1>1 DEF OpenDialog, DialogFlag

\* Every variable of the window keeps its type, in particular cur_selected, which is an index into
\* the list or -1 whatever is checked, deleted or read (main.c:1104, :1199).
THEOREM GuiTypesCorrect == Spec => []GuiTypeOK
<1>1. Init => DialogFlag
  BY DEF Init, DialogFlag
<1>2. WindowInv /\ GuiInv /\ DialogFlag => GuiTypeOK
  <2> SUFFICES ASSUME WindowInv, GuiInv, DialogFlag PROVE GuiTypeOK
    OBVIOUS
  <2>1. {wndData, closing, dlgWndData} \subseteq BOOLEAN
    BY DEF GuiInv, Life, DialogFlag
  <2>2. \A r \in Range(rows) : r.config \in Configs /\ r.checked \in BOOLEAN
    <3>1. rows \in Seq(Row)
      BY DEF GuiInv, GuiTypes
    <3>2. \A i \in 1..Len(rows) : rows[i] \in Row
      BY <3>1
    <3>3. \A r \in Range(rows) : r \in Row
      BY <3>1, <3>2 DEF Range
    <3> QED BY <3>3 DEF Row
  <2>3. {options, registry.options} \subseteq OptionsType
    BY DEF WindowInv, Recorded
  <2>4. dlgConfig \in Configs \cup {NoConfig}
    BY ShownAllocated
  <2>5. Range(file) \subseteq Object
    BY DEF GuiInv, GuiTypes, Range
  <2> QED BY <2>1, <2>2, <2>3, <2>4, <2>5 DEF GuiTypeOK, GuiInv, GuiTypes, Objects
<1> QED BY <1>1, <1>2, DialogFlagStep, GuiInvariant, PTL DEF Spec

=============================================================================
