--------------------------- MODULE WindowListProofs -----------------------
(***************************************************************************)
(* Facts about the list view of the main window, its check boxes, and the  *)
(* configurations that its rows and the dialogs point to: what each        *)
(* handler does to them, for lists, servers and dialogs in any number.     *)
(***************************************************************************)
EXTENDS MainWindow, FiniteSetTheorems, SequenceTheorems, TLAPS

Row == [config : Configs, checked : BOOLEAN]
ListType == [rows : Seq(Row), cur : Int]

---------------------------------------------------------------------------
(* The list view and its check boxes. *)

SameConfigs(l, m) ==
  /\ Len(m.rows) = Len(l.rows)
  /\ \A r \in 1..Len(l.rows) : m.rows[r].config = l.rows[r].config

\* The check boxes are radio buttons: the row checked is the current one.
Radio(l) ==
  /\ l.cur \in -1..(Len(l.rows) - 1)
  /\ \A r \in 1..Len(l.rows) : (l.rows[r].checked = TRUE <=> r - 1 = l.cur)

\* What the handlers of the list do to it.
ListStep(l, m) ==
  /\ m \in ListType /\ SameConfigs(l, m)
  /\ Radio(l) => Radio(m)
  /\ m.cur = l.cur \/ m.cur \in 0..(Len(l.rows) - 1)

LEMMA ListFacts ==
  ASSUME NEW l \in ListType
  PROVE  /\ l = [rows |-> l.rows, cur |-> l.cur]
         /\ l.rows \in Seq(Row) /\ Len(l.rows) \in Nat /\ l.cur \in Int /\ DOMAIN l.rows = 1..Len(l.rows)
         /\ \A r \in 1..Len(l.rows) :
              l.rows[r] \in Row /\ l.rows[r].config \in Configs /\ l.rows[r].checked \in BOOLEAN
<1>1. l.rows \in Seq(Row) /\ l.cur \in Int /\ l = [rows |-> l.rows, cur |-> l.cur]
  BY DEF ListType
<1>2. \A r \in 1..Len(l.rows) : l.rows[r] \in Row
  BY <1>1
<1> QED BY <1>1, <1>2 DEF Row

LEMMA ChangeStep ==
  ASSUME NEW l \in ListType, NEW i \in 0..(Len(l.rows) - 1), NEW on \in BOOLEAN
  PROVE  /\ Change(l, i, on) \in ListType
         /\ Change(l, i, on).cur = l.cur /\ SameConfigs(l, Change(l, i, on))
         /\ \A r \in 1..Len(l.rows) :
              /\ r = i + 1 => Change(l, i, on).rows[r].checked = on
              /\ r # i + 1 => Change(l, i, on).rows[r].checked = l.rows[r].checked
<1> DEFINE row == [l.rows[i + 1] EXCEPT !.checked = on]
           rws == [l.rows EXCEPT ![i + 1] = row]
<1>0. i + 1 \in 1..Len(l.rows) /\ l.rows[i + 1] \in Row
  BY ListFacts
<1>1. row \in Row /\ row.config = l.rows[i + 1].config /\ row.checked = on
  BY <1>0 DEF Row
<1>2. Change(l, i, on) = [l EXCEPT !.rows = rws]
  BY DEF Change
<1> HIDE DEF row
<1>3. rws \in Seq(Row) /\ Len(rws) = Len(l.rows)
      /\ \A r \in 1..Len(l.rows) : rws[r] = IF r = i + 1 THEN row ELSE l.rows[r]
  BY <1>0, <1>1, ExceptSeq, ListFacts
<1> HIDE DEF rws
<1>4. Change(l, i, on) = [rows |-> rws, cur |-> l.cur]
  BY <1>2, ListFacts
<1> QED BY <1>1, <1>3, <1>4, ListFacts DEF ListType, SameConfigs

LEMMA ItemCheckedStep ==
  ASSUME NEW l \in ListType, NEW i \in 0..(Len(l.rows) - 1), l.rows[i + 1].checked = FALSE
  PROVE  ListStep(l, ItemChecked(l, i)) /\ (i # l.cur => ItemChecked(l, i).cur = i)
<1>1. CASE i = l.cur
  <2>1. ~Radio(l)
    BY <1>1, ListFacts DEF Radio
  <2>2. ItemChecked(l, i) = Change(l, i, TRUE) \/ ItemChecked(l, i) = l
    BY <1>1 DEF ItemChecked
  <2>3. ListStep(l, l)
    BY DEF ListStep, SameConfigs
  <2>4. ListStep(l, Change(l, i, TRUE))
    BY <2>1, ChangeStep DEF ListStep
  <2> QED BY <1>1, <2>2, <2>3, <2>4
<1>2. CASE i # l.cur
  <2> DEFINE old == [r \in 1..Len(l.rows) |->
                       IF l.cur \in {r - 1, -1} THEN [l.rows[r] EXCEPT !.checked = FALSE] ELSE l.rows[r]]
             m == [cur |-> i, rows |-> old]
  <2>1. \A r \in 1..Len(l.rows) : /\ old[r] \in Row
                                  /\ old[r].config = l.rows[r].config
                                  /\ Radio(l) => old[r].checked = FALSE
    <3> SUFFICES ASSUME NEW r \in 1..Len(l.rows)
                 PROVE  /\ old[r] \in Row
                        /\ old[r].config = l.rows[r].config
                        /\ Radio(l) => old[r].checked = FALSE
      OBVIOUS
    <3>1. old[r] = IF l.cur \in {r - 1, -1} THEN [l.rows[r] EXCEPT !.checked = FALSE] ELSE l.rows[r]
      OBVIOUS
    <3> HIDE DEF old
    <3>2. l.rows[r] \in Row
      BY ListFacts
    <3>3. CASE l.cur \in {r - 1, -1}
      <4>1. old[r] = [l.rows[r] EXCEPT !.checked = FALSE]
        BY <3>1, <3>3
      <4> QED BY <4>1, <3>2 DEF Row
    <3>4. CASE l.cur \notin {r - 1, -1}
      <4>1. old[r] = l.rows[r]
        BY <3>1, <3>4
      <4>2. Radio(l) => l.rows[r].checked = FALSE
        BY <3>4 DEF Radio
      <4> QED BY <4>1, <4>2, <3>2
    <3> QED BY <3>3, <3>4
  <2>2. old \in Seq(Row) /\ Len(old) = Len(l.rows)
    <3>1. Len(l.rows) \in Nat /\ DOMAIN old = 1..Len(l.rows) /\ old \in [1..Len(l.rows) -> Row]
      BY <2>1, ListFacts
    <3> HIDE DEF old
    <3> QED BY <3>1
  <2>3. ItemChecked(l, i) = Change(m, i, TRUE)
    BY <1>2, ListFacts DEF ItemChecked
  <2> HIDE DEF old
  <2>4. m \in ListType /\ SameConfigs(l, m) /\ m.cur = i /\ m.rows = old
    BY <2>1, <2>2 DEF ListType, SameConfigs
  <2> HIDE DEF m
  <2> DEFINE n == Change(m, i, TRUE)
  <2>5. i \in 0..(Len(m.rows) - 1) /\ TRUE \in BOOLEAN
    BY <2>2, <2>4
  <2>6. /\ n \in ListType /\ SameConfigs(m, n) /\ n.cur = m.cur
        /\ \A r \in 1..Len(m.rows) : /\ r = i + 1 => n.rows[r].checked = TRUE
                                     /\ r # i + 1 => n.rows[r].checked = m.rows[r].checked
    <3>1. n \in ListType
      BY <2>4, <2>5, ChangeStep
    <3>2. SameConfigs(m, n)
      BY <2>4, <2>5, ChangeStep
    <3>5. n.cur = m.cur
      BY <2>4 DEF Change, ListType
    <3>3. \A r \in 1..Len(m.rows) : r = i + 1 => n.rows[r].checked = TRUE
      BY <2>4, <2>5, ChangeStep
    <3>4. \A r \in 1..Len(m.rows) : r # i + 1 => n.rows[r].checked = m.rows[r].checked
      BY ZenonT(40), <2>4, <2>5, ChangeStep
    <3> QED BY <3>1, <3>2, <3>3, <3>4, <3>5
  <2> HIDE DEF n
  <2>7. SameConfigs(l, n)
    BY <2>4, <2>6 DEF SameConfigs
  <2>8. Radio(l) => Radio(n)
    <3> SUFFICES ASSUME Radio(l) PROVE Radio(n)
      OBVIOUS
    <3>1. \A r \in 1..Len(l.rows) : n.rows[r].checked = TRUE <=> r = i + 1
      BY <2>1, <2>2, <2>4, <2>6
    <3>2. Len(n.rows) = Len(l.rows) /\ Len(l.rows) \in Nat /\ n.cur = i
      BY <2>4, <2>6, <2>7, ListFacts DEF SameConfigs
    <3> QED BY <3>1, <3>2 DEF Radio
  <2> QED BY <1>2, <2>3, <2>4, <2>6, <2>7, <2>8 DEF ListStep, n
<1> QED BY <1>1, <1>2

LEMMA NoStep == ASSUME NEW l \in ListType PROVE ListStep(l, l)
BY DEF ListStep, SameConfigs

LEMMA TwoSteps ==
  ASSUME NEW l \in ListType, NEW m, NEW n, ListStep(l, m), ListStep(m, n)
  PROVE  ListStep(l, n)
BY ListFacts DEF ListStep, SameConfigs

LEMMA SetCheckStateStep ==
  ASSUME NEW l \in ListType, NEW i \in Int, NEW on \in BOOLEAN
  PROVE  ListStep(l, SetCheckState(l, i, on))
<1>1. CASE SetCheckState(l, i, on) = l
  BY <1>1, NoStep
<1>2. CASE SetCheckState(l, i, on) # l
  <2>1. i \in 0..(Len(l.rows) - 1) /\ l.rows[i + 1].checked # on
    BY <1>2, ListFacts DEF SetCheckState, InRange
  <2>2. CASE on = TRUE
    <3>a. l.rows[i + 1].checked # TRUE
      BY <2>1, <2>2, Zenon
    <3>0. i + 1 \in 1..Len(l.rows)
      BY <2>1, ListFacts
    <3>1. l.rows[i + 1].checked = FALSE
      BY <3>a, <3>0, ListFacts
    <3>2. SetCheckState(l, i, on) = ItemChecked(l, i)
      BY <1>2, <2>1, <2>2 DEF SetCheckState
    <3> QED BY <2>1, <3>1, <3>2, ItemCheckedStep
  <2>3. CASE on = FALSE
    <3>1. l.rows[i + 1].checked = TRUE
      BY <2>1, <2>3, ListFacts
    <3>2. SetCheckState(l, i, on) = Change(l, i, FALSE) /\ i # l.cur
      BY <1>2, <2>1, <2>3 DEF SetCheckState, ItemUnchecked
    <3>3. ~Radio(l)
      BY <2>1, <3>1, <3>2, ListFacts DEF Radio
    <3>4. Change(l, i, FALSE) \in ListType /\ SameConfigs(l, Change(l, i, FALSE))
      BY <2>1, ChangeStep
    <3>5. Change(l, i, FALSE).cur = l.cur
      BY DEF Change, ListType
    <3> QED BY <3>2, <3>3, <3>4, <3>5 DEF ListStep
  <2> QED BY <2>2, <2>3
<1> QED BY <1>1, <1>2

LEMMA SetCurrentStep ==
  ASSUME NEW l \in ListType, NEW i \in Int
  PROVE  ListStep(l, set_current_selected_item(l, i))
BY SetCheckStateStep, NoStep DEF set_current_selected_item

LEMMA MenuStep == ASSUME NEW l \in ListType PROVE ListStep(l, MenuShown(l))
<1>1. adjust_current_selected_item(l) \in Int
  BY ListFacts DEF adjust_current_selected_item
<1> QED BY <1>1, SetCurrentStep DEF MenuShown

\* The first selection of a list that has none.
LEMMA FirstSelection ==
  ASSUME NEW l \in ListType, l.cur = -1, NEW i \in 0..(Len(l.rows) - 1), l.rows[i + 1].checked = FALSE
  PROVE  set_current_selected_item(l, i).cur = i
<1>1. set_current_selected_item(l, i) = ItemChecked(l, i)
  BY ListFacts DEF set_current_selected_item, SetCheckState, InRange
<1>2. i # l.cur
  OBVIOUS
<1> QED BY <1>1, <1>2, ItemCheckedStep

---------------------------------------------------------------------------
(* Who releases the configurations. *)

Objects == [Configs -> Server \cup {Released}]
Kinds == {"new", "details", "delete", "view", "export", "options", "message"}
Dialog == [kind : Kinds, config : Configs \cup {NoConfig}, row : Int, disables : BOOLEAN,
           result : {"open", "IDOK", "IDCANCEL"}]

\* The dialogs about a row, which need the main window enabled.
RowKinds == {"details", "delete", "view", "export"}
HasRow(rws, config) == \E i \in 1..Len(rws) : rws[i].config = config

\* Every allocated object has one row or one new record, and what is owned is allocated.
Distinct(rws) == \A i, j \in 1..Len(rws) : rws[i].config = rws[j].config => i = j
RowsHaveObjects(rws, srv) == \A i \in 1..Len(rws) : srv[rws[i].config] # Released
RecordsHaveObjects(rws, srv, dlgs) ==
  \A k \in 1..Len(dlgs) : dlgs[k].kind = "new" =>
    /\ dlgs[k].config \in Configs /\ srv[dlgs[k].config] # Released
    /\ \A i \in 1..Len(rws) : rws[i].config # dlgs[k].config
    /\ \A m \in 1..Len(dlgs) : dlgs[m].kind = "new" /\ dlgs[m].config = dlgs[k].config => m = k
AllAreOwned(rws, srv, dlgs) ==
  \A c \in Configs : srv[c] # Released =>
    \/ \E i \in 1..Len(rws) : rws[i].config = c
    \/ \E k \in 1..Len(dlgs) : dlgs[k].kind = "new" /\ dlgs[k].config = c
DialogsShow(rws, dlgs) ==
  \A k \in 1..Len(dlgs) :
    /\ dlgs[k].kind \in RowKinds => dlgs[k].disables = TRUE
    /\ dlgs[k].kind \in RowKinds /\ dlgs[k].result = "open" => HasRow(rws, dlgs[k].config)
    /\ dlgs[k].kind \in {"options", "message"} => dlgs[k].config = NoConfig
\* Only one dialog on the screen has disabled the main window: under a dialog about a row no other
\* that does can still be open.
OneDisables(dlgs) ==
  \A k \in 1..Len(dlgs) : \A m \in 1..(k - 1) :
    dlgs[k].disables = TRUE /\ dlgs[m].disables = TRUE => dlgs[m].result # "open"

Owned(rws, srv, dlgs) ==
  /\ Distinct(rws) /\ RowsHaveObjects(rws, srv) /\ RecordsHaveObjects(rws, srv, dlgs)
  /\ AllAreOwned(rws, srv, dlgs) /\ DialogsShow(rws, dlgs) /\ OneDisables(dlgs)

LEMMA RowFacts ==
  ASSUME NEW rws \in Seq(Row)
  PROVE  Len(rws) \in Nat /\ \A i \in 1..Len(rws) : rws[i] \in Row /\ rws[i].config \in Configs
<1>1. \A i \in 1..Len(rws) : rws[i] \in Row
  OBVIOUS
<1> QED BY <1>1 DEF Row

LEMMA FrontFacts ==
  ASSUME NEW S, NEW s \in Seq(S), s # <<>>
  PROVE  /\ Len(s) \in Nat \ {0} /\ Last(s) = s[Len(s)] /\ Last(s) \in S
         /\ Front(s) \in Seq(S) /\ Len(Front(s)) = Len(s) - 1
         /\ \A i \in 1..(Len(s) - 1) : Front(s)[i] = s[i]
<1>1. Len(s) \in Nat \ {0}
  BY EmptySeq
<1>2. \A i \in 1..Len(s) : s[i] \in S
  OBVIOUS
<1>3. \A i \in 1..(Len(s) - 1) : s[i] \in S
  BY <1>1, <1>2
<1>4. /\ SubSeq(s, 1, Len(s) - 1) \in Seq(S)
      /\ Len(SubSeq(s, 1, Len(s) - 1)) = IF 1 <= Len(s) - 1 THEN Len(s) - 1 - 1 + 1 ELSE 0
      /\ \A i \in 1..(Len(s) - 1 - 1 + 1) : SubSeq(s, 1, Len(s) - 1)[i] = s[1 + i - 1]
  BY <1>1, <1>3, SubSeqProperties
<1> DEFINE t == SubSeq(s, 1, Len(s) - 1)
<1>5. Front(s) = t /\ Last(s) = s[Len(s)]
  BY DEF Front, Last
<1>6. /\ t \in Seq(S) /\ Len(t) = IF 1 <= Len(s) - 1 THEN Len(s) - 1 - 1 + 1 ELSE 0
      /\ \A i \in 1..(Len(s) - 1 - 1 + 1) : t[i] = s[1 + i - 1]
  BY <1>4
<1> HIDE DEF t
<1>7. Len(t) = Len(s) - 1
  <2>1. CASE Len(s) = 1
    BY <1>6, <2>1
  <2>2. CASE Len(s) # 1
    <3> DEFINE n == Len(s)
    <3>0. n \in Nat \ {0} /\ n # 1
      BY <1>1, <2>2
    <3> HIDE DEF n
    <3>1. 1 <= n - 1 /\ n - 1 - 1 + 1 = n - 1
      BY SMTT(30), <3>0
    <3> USE DEF n
    <3> QED BY <1>6, <3>1
  <2> QED BY <2>1, <2>2
<1>8. \A i \in 1..(Len(s) - 1) : t[i] = s[i]
  <2>1. Len(s) - 1 - 1 + 1 = Len(s) - 1 /\ \A i \in 1..(Len(s) - 1) : 1 + i - 1 = i
    BY <1>1
  <2> QED BY <1>6, <2>1
<1> QED BY <1>1, <1>2, <1>5, <1>6, <1>7, <1>8

\* What is left of a list without its row n: row i of it was row At(i, n).
At(i, n) == IF i < n THEN i ELSE i + 1

LEMMA RemoveFacts ==
  ASSUME NEW S, NEW s \in Seq(S), NEW n \in 1..Len(s)
  PROVE  /\ RemoveAt(s, n) \in Seq(S) /\ Len(RemoveAt(s, n)) = Len(s) - 1 /\ Len(s) \in Nat \ {0}
         /\ \A i \in 1..(Len(s) - 1) : RemoveAt(s, n)[i] = s[At(i, n)]
<1> DEFINE a == SubSeq(s, 1, n - 1)
           b == SubSeq(s, n + 1, Len(s))
<1>1. Len(s) \in Nat \ {0} /\ n \in Int
  OBVIOUS
<1>2. \A i \in 1..Len(s) : s[i] \in S
  OBVIOUS
<1>3. a \in Seq(S) /\ Len(a) = n - 1 /\ \A i \in 1..(n - 1) : a[i] = s[i]
  <2>1. \A i \in 1..(n - 1) : s[i] \in S
    BY <1>1, <1>2
  <2>2. /\ a \in Seq(S) /\ Len(a) = IF 1 <= n - 1 THEN n - 1 - 1 + 1 ELSE 0
        /\ \A i \in 1..(n - 1 - 1 + 1) : a[i] = s[1 + i - 1]
    BY <1>1, <2>1, SubSeqProperties
  <2> HIDE DEF a
  <2> QED BY <1>1, <2>2
<1>4. b \in Seq(S) /\ Len(b) = Len(s) - n /\ \A i \in 1..(Len(s) - n) : b[i] = s[n + i]
  <2>1. \A i \in (n + 1)..Len(s) : s[i] \in S
    BY <1>1, <1>2
  <2>2. /\ b \in Seq(S) /\ Len(b) = IF n + 1 <= Len(s) THEN Len(s) - (n + 1) + 1 ELSE 0
        /\ \A i \in 1..(Len(s) - (n + 1) + 1) : b[i] = s[n + 1 + i - 1]
    BY <1>1, <2>1, SubSeqProperties
  <2> HIDE DEF b
  <2> QED BY <1>1, <2>2
<1>5. RemoveAt(s, n) = a \o b
  BY DEF RemoveAt
<1> HIDE DEF a, b
<1>6. /\ a \o b \in Seq(S) /\ Len(a \o b) = Len(a) + Len(b)
      /\ \A i \in 1..(Len(a) + Len(b)) : (a \o b)[i] = IF i <= Len(a) THEN a[i] ELSE b[i - Len(a)]
  BY <1>3, <1>4, ConcatProperties
<1>7. ASSUME NEW i \in 1..(Len(s) - 1) PROVE (a \o b)[i] = s[At(i, n)]
  <2>1. CASE i < n
    BY <1>1, <1>3, <1>4, <1>6, <2>1 DEF At
  <2>2. CASE ~(i < n)
    <3>1. (a \o b)[i] = b[i - (n - 1)]
      BY SMTT(30), <1>1, <1>3, <1>4, <1>6, <2>2
    <3>2. b[i - (n - 1)] = s[n + (i - (n - 1))]
      BY <1>1, <1>4, <2>2
    <3>3. n + (i - (n - 1)) = At(i, n)
      BY <1>1, <2>2 DEF At
    <3> QED BY <3>1, <3>2, <3>3
  <2> QED BY <2>1, <2>2
<1> QED BY <1>1, <1>3, <1>4, <1>5, <1>6, <1>7

LEMMA AppendFacts ==
  ASSUME NEW S, NEW s \in Seq(S), NEW e \in S
  PROVE  /\ Append(s, e) \in Seq(S) /\ Len(Append(s, e)) = Len(s) + 1 /\ Len(s) \in Nat
         /\ Append(s, e)[Len(s) + 1] = e
         /\ \A i \in 1..Len(s) : Append(s, e)[i] = s[i]
OBVIOUS

LEMMA OwnedSame ==
  ASSUME NEW rws \in Seq(Row), NEW srv, NEW dlgs \in Seq(Dialog), Owned(rws, srv, dlgs),
         NEW rws2 \in Seq(Row), NEW srv2, NEW dlgs2 \in Seq(Dialog),
         Len(rws2) = Len(rws), \A i \in 1..Len(rws) : rws2[i].config = rws[i].config,
         \A c \in Configs : srv2[c] = Released <=> srv[c] = Released,
         Len(dlgs2) = Len(dlgs),
         \A k \in 1..Len(dlgs) : /\ dlgs2[k].kind = dlgs[k].kind /\ dlgs2[k].config = dlgs[k].config
                                 /\ dlgs2[k].disables = dlgs[k].disables
                                 /\ dlgs2[k].result = "open" => dlgs[k].result = "open"
  PROVE  Owned(rws2, srv2, dlgs2)
<1>0. /\ Len(rws) \in Nat /\ \A i \in 1..Len(rws) : rws[i].config \in Configs
      /\ \A i \in 1..Len(rws2) : i \in 1..Len(rws) /\ rws2[i].config = rws[i].config
      /\ \A k \in 1..Len(dlgs2) :
           /\ k \in 1..Len(dlgs) /\ dlgs2[k].kind = dlgs[k].kind
           /\ dlgs2[k].config = dlgs[k].config /\ dlgs2[k].disables = dlgs[k].disables
           /\ dlgs2[k].result = "open" => dlgs[k].result = "open"
  BY RowFacts
<1>1. Distinct(rws2)
  BY <1>0 DEF Owned, Distinct
<1>2. RowsHaveObjects(rws2, srv2)
  BY <1>0 DEF Owned, RowsHaveObjects
<1>3. RecordsHaveObjects(rws2, srv2, dlgs2)
  <2> SUFFICES ASSUME NEW k \in 1..Len(dlgs2), dlgs2[k].kind = "new"
               PROVE  /\ dlgs2[k].config \in Configs /\ srv2[dlgs2[k].config] # Released
                      /\ \A i \in 1..Len(rws2) : rws2[i].config # dlgs2[k].config
                      /\ \A m \in 1..Len(dlgs2) :
                           dlgs2[m].kind = "new" /\ dlgs2[m].config = dlgs2[k].config => m = k
    BY DEF RecordsHaveObjects
  <2>1. /\ dlgs[k].config \in Configs /\ srv[dlgs[k].config] # Released
        /\ \A i \in 1..Len(rws) : rws[i].config # dlgs[k].config
        /\ \A m \in 1..Len(dlgs) : dlgs[m].kind = "new" /\ dlgs[m].config = dlgs[k].config => m = k
    BY <1>0 DEF Owned, RecordsHaveObjects
  <2>2. dlgs2[k].config \in Configs /\ srv2[dlgs2[k].config] # Released
    BY <1>0, <2>1
  <2>3. \A i \in 1..Len(rws2) : rws2[i].config # dlgs2[k].config
    BY <1>0, <2>1
  <2>4. \A m \in 1..Len(dlgs2) : dlgs2[m].kind = "new" /\ dlgs2[m].config = dlgs2[k].config => m = k
    BY <1>0, <2>1
  <2> QED BY <2>2, <2>3, <2>4
<1>4. AllAreOwned(rws2, srv2, dlgs2)
  <2> SUFFICES ASSUME NEW c \in Configs, srv2[c] # Released
               PROVE  \/ \E i \in 1..Len(rws2) : rws2[i].config = c
                      \/ \E k \in 1..Len(dlgs2) : dlgs2[k].kind = "new" /\ dlgs2[k].config = c
    BY DEF AllAreOwned
  <2>1. \/ \E i \in 1..Len(rws) : rws[i].config = c
        \/ \E k \in 1..Len(dlgs) : dlgs[k].kind = "new" /\ dlgs[k].config = c
    BY DEF Owned, AllAreOwned
  <2>2. CASE \E i \in 1..Len(rws) : rws[i].config = c
    BY <2>2
  <2>3. CASE \E k \in 1..Len(dlgs) : dlgs[k].kind = "new" /\ dlgs[k].config = c
    BY <2>3
  <2> QED BY <2>1, <2>2, <2>3
<1>5. DialogsShow(rws2, dlgs2)
  BY SMTT(30), <1>0 DEF Owned, DialogsShow, HasRow
<1>6. OneDisables(dlgs2)
  BY SMTT(30), <1>0 DEF Owned, OneDisables
<1> QED BY <1>1, <1>2, <1>3, <1>4, <1>5, <1>6 DEF Owned

\* What DialogBoxParam sees to: a dialog disables the main window if none on the screen has.
DisablesAlone(dlgs, d) ==
  d.disables = TRUE => \A k \in 1..Len(dlgs) : dlgs[k].disables = TRUE => dlgs[k].result # "open"

LEMMA OneMoreDisables ==
  ASSUME NEW dlgs \in Seq(Dialog), OneDisables(dlgs), NEW d \in Dialog, DisablesAlone(dlgs, d)
  PROVE  OneDisables(Append(dlgs, d))
BY AppendFacts DEF OneDisables, DisablesAlone

\* A new record, shown in its dialog or in a row.
LEMMA OwnedNew ==
  ASSUME NEW rws \in Seq(Row), NEW srv \in Objects, NEW dlgs \in Seq(Dialog), Owned(rws, srv, dlgs),
         NEW n \in Configs, srv[n] = Released, NEW v, v # Released,
         NEW d \in Dialog, d.kind = "new", d.config = n, DisablesAlone(dlgs, d)
  PROVE  Owned(rws, [srv EXCEPT ![n] = v], Append(dlgs, d))
<1>1. Distinct(rws)
  BY RowFacts, AppendFacts DEF Owned, Distinct, RowsHaveObjects, RecordsHaveObjects
<1>2. RowsHaveObjects(rws, [srv EXCEPT ![n] = v])
  BY RowFacts, AppendFacts DEF Owned, RowsHaveObjects, RecordsHaveObjects, Distinct, Objects
<1>3. RecordsHaveObjects(rws, [srv EXCEPT ![n] = v], Append(dlgs, d))
  BY RowFacts, AppendFacts DEF Owned, RowsHaveObjects, RecordsHaveObjects, Objects, AllAreOwned
<1>4. AllAreOwned(rws, [srv EXCEPT ![n] = v], Append(dlgs, d))
  BY SMTT(30), RowFacts, AppendFacts DEF Owned, AllAreOwned, Objects, RecordsHaveObjects, DialogsShow
<1>5. DialogsShow(rws, Append(dlgs, d))
  BY RowFacts, AppendFacts DEF Owned, DialogsShow, HasRow, RowKinds
<1>6. OneDisables(Append(dlgs, d))
  BY OneMoreDisables DEF Owned
<1> QED BY <1>1, <1>2, <1>3, <1>4, <1>5, <1>6 DEF Owned

LEMMA OwnedInsert ==
  ASSUME NEW rws \in Seq(Row), NEW srv \in Objects, NEW dlgs \in Seq(Dialog), Owned(rws, srv, dlgs),
         NEW n \in Configs, srv[n] = Released, NEW v, v # Released,
         NEW r \in Row, r.config = n
  PROVE  Owned(Append(rws, r), [srv EXCEPT ![n] = v], dlgs)
<1>1. Distinct(Append(rws, r))
  BY RowFacts, AppendFacts DEF Owned, Distinct, RowsHaveObjects, RecordsHaveObjects
<1>2. RowsHaveObjects(Append(rws, r), [srv EXCEPT ![n] = v])
  BY RowFacts, AppendFacts DEF Owned, RowsHaveObjects, RecordsHaveObjects, Distinct, Objects
<1>3. RecordsHaveObjects(Append(rws, r), [srv EXCEPT ![n] = v], dlgs)
  BY RowFacts, AppendFacts DEF Owned, RowsHaveObjects, RecordsHaveObjects, Objects, AllAreOwned
<1>4. AllAreOwned(Append(rws, r), [srv EXCEPT ![n] = v], dlgs)
  BY RowFacts, AppendFacts DEF Owned, AllAreOwned, Objects, RecordsHaveObjects, DialogsShow
<1>5. DialogsShow(Append(rws, r), dlgs)
  BY RowFacts, AppendFacts DEF Owned, DialogsShow, HasRow, RowKinds
<1> QED BY <1>1, <1>2, <1>3, <1>4, <1>5 DEF Owned

\* A dialog that owns nothing.
LEMMA OwnedDialog ==
  ASSUME NEW rws \in Seq(Row), NEW srv, NEW dlgs \in Seq(Dialog), Owned(rws, srv, dlgs),
         NEW d \in Dialog, DisablesAlone(dlgs, d),
         \/ d.kind \in {"options", "message"} /\ d.config = NoConfig
         \/ d.kind \in RowKinds /\ d.disables = TRUE /\ HasRow(rws, d.config)
  PROVE  Owned(rws, srv, Append(dlgs, d))
<1>1. Distinct(rws)
  BY RowFacts, AppendFacts DEF Owned, Distinct, RowsHaveObjects, RecordsHaveObjects
<1>2. RowsHaveObjects(rws, srv)
  BY RowFacts, AppendFacts DEF Owned, RowsHaveObjects, RecordsHaveObjects, Distinct, Objects
<1>3. RecordsHaveObjects(rws, srv, Append(dlgs, d))
  BY SMTT(30), RowFacts, AppendFacts DEF Owned, RowsHaveObjects, RecordsHaveObjects, Objects, AllAreOwned, RowKinds
<1>4. AllAreOwned(rws, srv, Append(dlgs, d))
  BY RowFacts, AppendFacts DEF Owned, AllAreOwned, Objects, RecordsHaveObjects, DialogsShow
<1>5. DialogsShow(rws, Append(dlgs, d))
  BY RowFacts, AppendFacts DEF Owned, DialogsShow, HasRow, RowKinds
<1>6. OneDisables(Append(dlgs, d))
  BY OneMoreDisables DEF Owned
<1> QED BY <1>1, <1>2, <1>3, <1>4, <1>5, <1>6 DEF Owned

LEMMA OneDisablesFront ==
  ASSUME NEW dlgs \in Seq(Dialog), dlgs # <<>>, OneDisables(dlgs)
  PROVE  OneDisables(Front(dlgs))
<1> DEFINE n == Len(dlgs)
           f == Front(dlgs)
<1>1. n \in Nat \ {0} /\ Len(f) = n - 1 /\ \A i \in 1..(n - 1) : f[i] = dlgs[i]
  BY FrontFacts
<1> HIDE DEF f
<1> SUFFICES ASSUME NEW k \in 1..(n - 1), NEW m \in 1..(k - 1), f[k].disables = TRUE, f[m].disables = TRUE
             PROVE  f[m].result # "open"
  BY <1>1 DEF OneDisables, f
<1>2. k \in 1..n /\ m \in 1..(n - 1) /\ f[k] = dlgs[k] /\ f[m] = dlgs[m]
  BY <1>1
<1> QED BY <1>2 DEF OneDisables

\* It returns.
LEMMA OwnedFront ==
  ASSUME NEW rws \in Seq(Row), NEW srv, NEW dlgs \in Seq(Dialog), Owned(rws, srv, dlgs),
         dlgs # <<>>, Last(dlgs).kind # "new"
  PROVE  Owned(rws, srv, Front(dlgs))
<1> DEFINE n == Len(dlgs)
           f == Front(dlgs)
<1>0. n \in Nat \ {0} /\ Last(dlgs) = dlgs[n] /\ Len(f) = n - 1 /\ \A i \in 1..(n - 1) : f[i] = dlgs[i]
  BY FrontFacts
<1> HIDE DEF n, f
<1>1. RecordsHaveObjects(rws, srv, f)
  <2> SUFFICES ASSUME NEW k \in 1..Len(f), f[k].kind = "new"
               PROVE  /\ f[k].config \in Configs /\ srv[f[k].config] # Released
                      /\ \A i \in 1..Len(rws) : rws[i].config # f[k].config
                      /\ \A m \in 1..Len(f) : f[m].kind = "new" /\ f[m].config = f[k].config => m = k
    BY DEF RecordsHaveObjects
  <2>1. k \in 1..n /\ k # n /\ f[k] = dlgs[k] /\ \A m \in 1..Len(f) : m \in 1..n /\ f[m] = dlgs[m]
    BY <1>0
  <2>2. /\ dlgs[k].config \in Configs /\ srv[dlgs[k].config] # Released
        /\ \A i \in 1..Len(rws) : rws[i].config # dlgs[k].config
        /\ \A m \in 1..n : dlgs[m].kind = "new" /\ dlgs[m].config = dlgs[k].config => m = k
    BY <2>1 DEF Owned, RecordsHaveObjects, n
  <2> QED BY <2>1, <2>2
<1>2. AllAreOwned(rws, srv, f)
  BY <1>0 DEF Owned, AllAreOwned, n
<1>3. DialogsShow(rws, f)
  BY <1>0 DEF Owned, DialogsShow, HasRow, n
<1>4. OneDisables(f)
  BY OneDisablesFront DEF Owned, f
<1> QED BY <1>1, <1>2, <1>3, <1>4 DEF Owned, f

\* A new record returns: its object goes into the list, or is released.
LEMMA OwnedAccepted ==
  ASSUME NEW rws \in Seq(Row), NEW srv, NEW dlgs \in Seq(Dialog), Owned(rws, srv, dlgs),
         dlgs # <<>>, Last(dlgs).kind = "new", NEW r \in Row, r.config = Last(dlgs).config
  PROVE  Owned(Append(rws, r), srv, Front(dlgs))
<1> DEFINE n == Len(dlgs)
           f == Front(dlgs)
           w == Append(rws, r)
<1>0. n \in Nat \ {0} /\ Last(dlgs) = dlgs[n] /\ Len(f) = n - 1 /\ \A i \in 1..(n - 1) : f[i] = dlgs[i]
  BY FrontFacts
<1>b. /\ Len(w) = Len(rws) + 1 /\ Len(rws) \in Nat /\ w[Len(rws) + 1] = r
      /\ \A i \in 1..Len(rws) : w[i] = rws[i]
  BY AppendFacts
<1> HIDE DEF n, f, w
<1>a. /\ dlgs[n].config \in Configs /\ srv[dlgs[n].config] # Released
      /\ \A i \in 1..Len(rws) : rws[i].config # r.config
      /\ \A m \in 1..n : dlgs[m].kind = "new" /\ dlgs[m].config = r.config => m = n
  <2>1. /\ dlgs[n].config \in Configs /\ srv[dlgs[n].config] # Released
        /\ \A i \in 1..Len(rws) : rws[i].config # dlgs[n].config
        /\ \A m \in 1..n : dlgs[m].kind = "new" /\ dlgs[m].config = dlgs[n].config => m = n
    BY <1>0 DEF Owned, RecordsHaveObjects, n
  <2> QED BY <1>0, <2>1
<1>1. Distinct(w)
  <2> SUFFICES ASSUME NEW i \in 1..Len(w), NEW j \in 1..Len(w), w[i].config = w[j].config
               PROVE  i = j
    BY DEF Distinct
  <2>1. CASE i # Len(w) /\ j # Len(w)
    BY <1>b, <2>1 DEF Owned, Distinct
  <2>2. CASE i = Len(w) \/ j = Len(w)
    BY <1>a, <1>b, <2>2
  <2> QED BY <2>1, <2>2
<1>2. RowsHaveObjects(w, srv)
  BY <1>0, <1>a, <1>b DEF Owned, RowsHaveObjects
<1>3. RecordsHaveObjects(w, srv, f)
  <2> SUFFICES ASSUME NEW k \in 1..Len(f), f[k].kind = "new"
               PROVE  /\ f[k].config \in Configs /\ srv[f[k].config] # Released
                      /\ \A i \in 1..Len(w) : w[i].config # f[k].config
                      /\ \A m \in 1..Len(f) : f[m].kind = "new" /\ f[m].config = f[k].config => m = k
    BY DEF RecordsHaveObjects
  <2>1. k \in 1..n /\ k # n /\ f[k] = dlgs[k] /\ \A m \in 1..Len(f) : m \in 1..n /\ f[m] = dlgs[m]
    BY <1>0
  <2>2. /\ dlgs[k].config \in Configs /\ srv[dlgs[k].config] # Released
        /\ \A i \in 1..Len(rws) : rws[i].config # dlgs[k].config
        /\ \A m \in 1..n : dlgs[m].kind = "new" /\ dlgs[m].config = dlgs[k].config => m = k
    BY <2>1 DEF Owned, RecordsHaveObjects, n
  <2>3. dlgs[k].config # r.config
    BY <1>a, <2>1
  <2>4. \A i \in 1..Len(w) : w[i].config # dlgs[k].config
    BY <1>b, <2>2, <2>3
  <2> QED BY <2>1, <2>2, <2>4
<1>4. AllAreOwned(w, srv, f)
  BY SMTT(30), <1>0, <1>a, <1>b DEF Owned, AllAreOwned, n
<1>5. DialogsShow(w, f)
  BY SMTT(30), <1>0, <1>a, <1>b DEF Owned, DialogsShow, HasRow, n
<1>6. OneDisables(f)
  BY OneDisablesFront DEF Owned, f
<1> QED BY <1>1, <1>2, <1>3, <1>4, <1>5, <1>6 DEF Owned, f, w

LEMMA OwnedAbandoned ==
  ASSUME NEW rws \in Seq(Row), NEW srv \in Objects, NEW dlgs \in Seq(Dialog), Owned(rws, srv, dlgs),
         dlgs # <<>>, Last(dlgs).kind = "new"
  PROVE  Owned(rws, [srv EXCEPT ![Last(dlgs).config] = Released], Front(dlgs))
<1> DEFINE n == Len(dlgs)
           f == Front(dlgs)
           c == Last(dlgs).config
           v == [srv EXCEPT ![c] = Released]
<1>0. n \in Nat \ {0} /\ Last(dlgs) = dlgs[n] /\ Len(f) = n - 1 /\ \A i \in 1..(n - 1) : f[i] = dlgs[i]
  BY FrontFacts
<1>a. \A x \in Configs : v[x] = IF x = c THEN Released ELSE srv[x]
  BY DEF Objects
<1>b. c = dlgs[n].config
  BY <1>0
<1> HIDE DEF n, f, v, c
<1>c. /\ c \in Configs /\ \A i \in 1..Len(rws) : rws[i].config # c
      /\ \A m \in 1..n : dlgs[m].kind = "new" /\ dlgs[m].config = c => m = n
  BY <1>0, <1>b DEF Owned, RecordsHaveObjects, n
<1>2. RowsHaveObjects(rws, v)
  BY <1>a, <1>c, RowFacts DEF Owned, RowsHaveObjects
<1>3. RecordsHaveObjects(rws, v, f)
  <2> SUFFICES ASSUME NEW k \in 1..Len(f), f[k].kind = "new"
               PROVE  /\ f[k].config \in Configs /\ v[f[k].config] # Released
                      /\ \A i \in 1..Len(rws) : rws[i].config # f[k].config
                      /\ \A m \in 1..Len(f) : f[m].kind = "new" /\ f[m].config = f[k].config => m = k
    BY DEF RecordsHaveObjects
  <2>1. k \in 1..n /\ k # n /\ f[k] = dlgs[k] /\ \A m \in 1..Len(f) : m \in 1..n /\ f[m] = dlgs[m]
    BY <1>0
  <2>2. /\ dlgs[k].config \in Configs /\ srv[dlgs[k].config] # Released
        /\ \A i \in 1..Len(rws) : rws[i].config # dlgs[k].config
        /\ \A m \in 1..n : dlgs[m].kind = "new" /\ dlgs[m].config = dlgs[k].config => m = k
    BY <2>1 DEF Owned, RecordsHaveObjects, n
  <2> QED BY <2>1, <2>2, <1>a, <1>c
<1>4. AllAreOwned(rws, v, f)
  BY <1>0, <1>a, <1>b, <1>c DEF Owned, AllAreOwned, n
<1>5. DialogsShow(rws, f)
  BY <1>0 DEF Owned, DialogsShow, HasRow, n
<1>6. OneDisables(f)
  BY OneDisablesFront DEF Owned, f
<1> QED BY <1>2, <1>3, <1>4, <1>5, <1>6 DEF Owned, f, v, c

\* A deletion returns, and a row goes, its own or another: no dialog on the screen is about it.
LEMMA OwnedDeleted ==
  ASSUME NEW rws \in Seq(Row), NEW srv \in Objects, NEW dlgs \in Seq(Dialog), Owned(rws, srv, dlgs),
         dlgs # <<>>, Last(dlgs).kind = "delete", NEW n \in 1..Len(rws)
  PROVE  /\ rws[n].config \in Configs
         /\ Owned(RemoveAt(rws, n), [srv EXCEPT ![rws[n].config] = Released], Front(dlgs))
<1> DEFINE c == rws[n].config
           v == [srv EXCEPT ![c] = Released]
           s == RemoveAt(rws, n)
           t == Len(dlgs)
           f == Front(dlgs)
<1>0. c \in Configs
  BY RowFacts
<1>1. Len(s) = Len(rws) - 1 /\ Len(rws) \in Nat /\ \A i \in 1..(Len(rws) - 1) : s[i] = rws[At(i, n)]
  BY RemoveFacts
<1>2. \A x \in Configs : v[x] = IF x = c THEN Released ELSE srv[x]
  BY <1>0 DEF Objects
<1>b. t \in Nat \ {0} /\ Last(dlgs) = dlgs[t] /\ Len(f) = t - 1 /\ \A i \in 1..(t - 1) : f[i] = dlgs[i]
  BY FrontFacts
<1>c. \A k \in 1..t : dlgs[k].kind = "new" => dlgs[k].config # c
  BY DEF Owned, RecordsHaveObjects
<1>d. \A k \in 1..(t - 1) : dlgs[k].kind \in RowKinds => dlgs[k].result # "open"
  BY <1>b DEF Owned, DialogsShow, OneDisables, RowKinds
<1> HIDE DEF v, s, f, t
<1>a. \A i \in 1..(Len(rws) - 1) : At(i, n) \in 1..Len(rws) /\ At(i, n) # n
  BY <1>0, <1>1 DEF At
<1>3. \A i \in 1..(Len(rws) - 1) : /\ At(i, n) \in 1..Len(rws)
                                   /\ s[i].config # c
  BY <1>0, <1>1, <1>a DEF Owned, Distinct
<1>4. \A i, j \in 1..(Len(rws) - 1) : At(i, n) = At(j, n) => i = j
  BY <1>0, <1>1 DEF At
<1>5. Distinct(s)
  BY <1>1, <1>3, <1>4 DEF Owned, Distinct
<1>6. RowsHaveObjects(s, v)
  <2> SUFFICES ASSUME NEW i \in 1..(Len(rws) - 1) PROVE v[s[i].config] # Released
    BY <1>1 DEF RowsHaveObjects
  <2>1. s[i].config # c /\ s[i].config \in Configs /\ srv[s[i].config] # Released
    BY <1>1, <1>3, RowFacts DEF Owned, RowsHaveObjects
  <2> QED BY <1>2, <2>1
<1>7. AllAreOwned(s, v, f)
  <2> SUFFICES ASSUME NEW x \in Configs, v[x] # Released
               PROVE  \/ \E i \in 1..Len(s) : s[i].config = x
                      \/ \E k \in 1..Len(f) : f[k].kind = "new" /\ f[k].config = x
    BY DEF AllAreOwned
  <2>1. x # c /\ srv[x] # Released
    BY <1>2
  <2>2. \/ \E j \in 1..Len(rws) : rws[j].config = x
        \/ \E k \in 1..t : dlgs[k].kind = "new" /\ dlgs[k].config = x
    BY <2>1 DEF Owned, AllAreOwned, t
  <2>3. CASE \E j \in 1..Len(rws) : rws[j].config = x
    <3>1. PICK j \in 1..Len(rws) : rws[j].config = x
      BY <2>3
    <3>2. j # n
      BY <2>1, <3>1
    <3>3. CASE j < n
      <4>1. j \in 1..(Len(rws) - 1) /\ At(j, n) = j
        BY <1>1, <3>3 DEF At
      <4> QED BY <1>1, <3>1, <4>1
    <3>4. CASE n < j
      <4>1. j - 1 \in 1..(Len(rws) - 1) /\ At(j - 1, n) = j
        BY <1>1, <3>4 DEF At
      <4> QED BY <1>1, <3>1, <4>1
    <3> QED BY <1>1, <3>2, <3>3, <3>4
  <2>4. CASE \E k \in 1..t : dlgs[k].kind = "new" /\ dlgs[k].config = x
    <3>1. PICK k \in 1..t : dlgs[k].kind = "new" /\ dlgs[k].config = x
      BY <2>4
    <3>2. k \in 1..(t - 1)
      BY <1>b, <3>1
    <3> QED BY <1>b, <3>1, <3>2
  <2> QED BY <2>2, <2>3, <2>4
<1>8. RecordsHaveObjects(s, v, f)
  <2> SUFFICES ASSUME NEW k \in 1..Len(f), f[k].kind = "new"
               PROVE  /\ f[k].config \in Configs /\ v[f[k].config] # Released
                      /\ \A i \in 1..Len(s) : s[i].config # f[k].config
                      /\ \A m \in 1..Len(f) : f[m].kind = "new" /\ f[m].config = f[k].config => m = k
    BY DEF RecordsHaveObjects
  <2>1. k \in 1..t /\ f[k] = dlgs[k] /\ \A m \in 1..Len(f) : m \in 1..t /\ f[m] = dlgs[m]
    BY <1>b
  <2>2. /\ dlgs[k].config \in Configs /\ srv[dlgs[k].config] # Released
        /\ \A i \in 1..Len(rws) : rws[i].config # dlgs[k].config
        /\ \A m \in 1..t : dlgs[m].kind = "new" /\ dlgs[m].config = dlgs[k].config => m = k
    BY <2>1 DEF Owned, RecordsHaveObjects, t
  <2>3. \A i \in 1..Len(s) : s[i].config # dlgs[k].config
    BY <1>1, <1>3, <2>2
  <2>4. dlgs[k].config # c
    BY <1>c, <2>1
  <2> QED BY <1>2, <2>1, <2>2, <2>3, <2>4
<1>9. DialogsShow(s, f)
  BY <1>b, <1>d DEF Owned, DialogsShow, t
<1>10. OneDisables(f)
  BY OneDisablesFront DEF Owned, f
<1>11. Owned(s, v, f)
  BY <1>5, <1>6, <1>7, <1>8, <1>9, <1>10 DEF Owned
<1> QED BY <1>0, <1>11 DEF v, s, f

LEMMA NothingOwned == Owned(<<>>, [c \in Configs |-> Released], <<>>)
BY DEF Owned, Distinct, RowsHaveObjects, RecordsHaveObjects, AllAreOwned, DialogsShow, OneDisables

---------------------------------------------------------------------------
(* How many there are, and where the objects of a new list come from. *)

LEMMA RowsBound ==
  ASSUME NEW rws \in Seq(Row), Distinct(rws)
  PROVE  Cardinality(Configs) \in Nat /\ Len(rws) <= Cardinality(Configs)
<1> DEFINE n == Len(rws)
           f == [i \in 1..n |-> rws[i].config]
<1>1. IsFiniteSet(Configs) /\ Cardinality(Configs) \in Nat
  BY MainWindowConstantsOK, FS_CardinalityType
<1>2. n \in Nat /\ \A i \in 1..n : rws[i].config \in Configs
  BY RowFacts
<1>3. f \in [1..n -> Configs] /\ IsInjective(f)
  BY <1>2 DEF IsInjective, Distinct
<1>4. f \in Injection(1..n, Configs)
  BY <1>3 DEF Injection
<1> HIDE DEF n, f
<1>5. Cardinality(1..n) <= Cardinality(Configs)
  BY <1>1, <1>4, FS_Injection
<1>6. Cardinality(1..n) = n
  <2>1. Cardinality(1..n) = IF 1 > n THEN 0 ELSE n - 1 + 1
    BY <1>2, FS_Interval
  <2> QED BY <1>2, <2>1
<1> QED BY <1>1, <1>5, <1>6 DEF n

\* The objects are numbered.
LEMMA ObjectsFacts ==
  LET objects == SetToSeq(Configs)
      n == Cardinality(Configs)
  IN  /\ n \in Nat /\ objects \in [1..n -> Configs]
      /\ \A i, j \in 1..n : objects[i] = objects[j] => i = j
      /\ \A c \in Configs : \E i \in 1..n : objects[i] = c
<1> DEFINE n == Cardinality(Configs)
           f == SetToSeq(Configs)
<1>1. IsFiniteSet(Configs) /\ n \in Nat /\ ExistsBijection(1..n, Configs)
  BY MainWindowConstantsOK, FS_CardinalityType
<1>2. \E g \in [1..n -> Configs] : IsInjective(g)
  BY <1>1 DEF ExistsBijection, Bijection, Injection
<1>3. f \in [1..n -> Configs] /\ IsInjective(f)
  BY <1>2 DEF SetToSeq
<1>4. f \in Injection(1..n, Configs)
  BY <1>3 DEF Injection
<1> HIDE DEF f
<1>5. Cardinality(1..n) = n /\ IsFiniteSet(1..n)
  <2>1. IsFiniteSet(1..n) /\ Cardinality(1..n) = IF 1 > n THEN 0 ELSE n - 1 + 1
    BY <1>1, FS_Interval
  <2> QED BY <1>1, <2>1
<1>6. f \in Surjection(1..n, Configs)
  BY <1>1, <1>4, <1>5, FS_Injection
<1> QED BY <1>1, <1>3, <1>6 DEF IsInjective, Surjection, f

\* The list that Create reads.
LEMMA OwnedRead ==
  ASSUME NEW read \in Seq(Server), Len(read) <= Cardinality(Configs)
  PROVE  LET objects == SetToSeq(Configs)
             rws == [i \in DOMAIN read |-> [config |-> objects[i], checked |-> FALSE]]
             srv == [c \in Configs |-> LET at == CHOOSE i \in DOMAIN objects : objects[i] = c
                                       IN  IF at <= Len(read) THEN read[at] ELSE Released]
         IN  /\ rws \in Seq(Row) /\ Len(rws) = Len(read) /\ srv \in Objects
             /\ Owned(rws, srv, <<>>)
             /\ \A i \in 1..Len(read) : srv[rws[i].config] = read[i] /\ rws[i].checked = FALSE
<1> DEFINE objects == SetToSeq(Configs)
           n == Cardinality(Configs)
           at(c) == CHOOSE i \in DOMAIN objects : objects[i] = c
           rws == [i \in DOMAIN read |-> [config |-> objects[i], checked |-> FALSE]]
           srv == [c \in Configs |-> IF at(c) <= Len(read) THEN read[at(c)] ELSE Released]
<1>1. /\ n \in Nat /\ objects \in [1..n -> Configs]
      /\ \A i, j \in 1..n : objects[i] = objects[j] => i = j
      /\ \A c \in Configs : \E i \in 1..n : objects[i] = c
  BY ObjectsFacts
<1> HIDE DEF objects, n
<1>2. \A c \in Configs : at(c) \in 1..n /\ objects[at(c)] = c
  BY <1>1
<1>3. Len(read) \in Nat /\ DOMAIN read = 1..Len(read) /\ Len(read) <= n /\ \A i \in 1..Len(read) : read[i] \in Server
  BY DEF n
<1>4. \A i \in 1..Len(read) : rws[i].config = objects[i] /\ rws[i].checked = FALSE /\ rws[i] \in Row
  BY <1>1, <1>3 DEF Row
<1>5. rws \in Seq(Row) /\ Len(rws) = Len(read)
  <2>1. rws \in [1..Len(read) -> Row]
    BY <1>3, <1>4
  <2> HIDE DEF rws
  <2> QED BY <1>3, <2>1
<1>6. \A i \in 1..Len(read) : i \in 1..n /\ objects[i] \in Configs /\ at(objects[i]) = i
  BY <1>1, <1>2, <1>3
<1> HIDE DEF at
<1>7. \A c \in Configs : srv[c] = IF at(c) <= Len(read) THEN read[at(c)] ELSE Released
  OBVIOUS
<1>8. srv \in Objects
  <2>1. \A c \in Configs : (IF at(c) <= Len(read) THEN read[at(c)] ELSE Released) \in Server \cup {Released}
    BY <1>2, <1>3
  <2> QED BY <2>1 DEF Objects
<1> HIDE DEF rws, srv
<1>9. \A i \in 1..Len(read) : srv[rws[i].config] = read[i]
  BY <1>3, <1>4, <1>6, <1>7
<1>10. Released \notin Server
  BY MainWindowConstantsOK
<1>11. Distinct(rws) /\ RowsHaveObjects(rws, srv)
  BY <1>1, <1>3, <1>4, <1>5, <1>6, <1>9, <1>10 DEF Distinct, RowsHaveObjects
<1>12. AllAreOwned(rws, srv, <<>>)
  <2> SUFFICES ASSUME NEW c \in Configs, srv[c] # Released PROVE \E i \in 1..Len(rws) : rws[i].config = c
    BY DEF AllAreOwned
  <2>1. at(c) \in 1..Len(read) /\ objects[at(c)] = c
    BY <1>2, <1>3, <1>7
  <2> QED BY <1>4, <1>5, <2>1
<1>13. RecordsHaveObjects(rws, srv, <<>>) /\ DialogsShow(rws, <<>>) /\ OneDisables(<<>>)
  BY DEF RecordsHaveObjects, DialogsShow, OneDisables
<1>14. Owned(rws, srv, <<>>)
  BY <1>11, <1>12, <1>13 DEF Owned
<1>15. \A i \in 1..Len(read) : srv[rws[i].config] = read[i] /\ rws[i].checked = FALSE
  BY <1>4, <1>9
<1> QED BY <1>5, <1>8, <1>14, <1>15 DEF objects, rws, srv, at

\* Whoever owns an object owns it alone.
LEMMA OneOwner ==
  ASSUME NEW rws \in Seq(Row), NEW srv \in Objects, NEW dlgs \in Seq(Dialog), Owned(rws, srv, dlgs), NEW c \in Configs
  PROVE  LET Owners == {<<"row", i>> : i \in {i \in DOMAIN rws : rws[i].config = c}} \cup
                       {<<"new", k>> : k \in {k \in DOMAIN dlgs : dlgs[k].kind = "new" /\ dlgs[k].config = c}}
         IN  Cardinality(Owners) = IF srv[c] = Released THEN 0 ELSE 1
<1> DEFINE R == {i \in DOMAIN rws : rws[i].config = c}
           N == {k \in DOMAIN dlgs : dlgs[k].kind = "new" /\ dlgs[k].config = c}
           Owners == {<<"row", i>> : i \in R} \cup {<<"new", k>> : k \in N}
<1>0. DOMAIN rws = 1..Len(rws) /\ DOMAIN dlgs = 1..Len(dlgs)
  OBVIOUS
<1>1. CASE srv[c] = Released
  <2>1. R = {} /\ N = {}
    BY <1>0, <1>1 DEF Owned, RowsHaveObjects, RecordsHaveObjects
  <2> HIDE DEF R, N
  <2>2. Owners = {}
    BY <2>1
  <2> HIDE DEF Owners
  <2>3. Cardinality(Owners) = 0
    BY <2>2, FS_EmptySet
  <2> QED BY <1>1, <2>3 DEF Owners, R, N
<1>2. CASE srv[c] # Released
  <2>1. \/ N = {} /\ \E i : R = {i}
        \/ R = {} /\ \E k : N = {k}
    <3>1. ASSUME NEW i \in 1..Len(rws), rws[i].config = c PROVE N = {} /\ R = {i}
      BY <1>0, <3>1 DEF Owned, Distinct, RecordsHaveObjects
    <3>2. ASSUME NEW k \in 1..Len(dlgs), dlgs[k].kind = "new", dlgs[k].config = c PROVE R = {} /\ N = {k}
      BY <1>0, <3>2 DEF Owned, RecordsHaveObjects
    <3> QED BY <1>2, <3>1, <3>2 DEF Owned, AllAreOwned
  <2> HIDE DEF R, N
  <2>2. \E x : Owners = {x}
    <3>1. CASE N = {} /\ \E i : R = {i}
      <4>1. PICK i : R = {i}
        BY <3>1
      <4>2. Owners = {<<"row", i>>}
        BY <3>1, <4>1
      <4> QED BY <4>2
    <3>2. CASE R = {} /\ \E k : N = {k}
      <4>1. PICK k : N = {k}
        BY <3>2
      <4>2. Owners = {<<"new", k>>}
        BY <3>2, <4>1
      <4> QED BY <4>2
    <3> QED BY <2>1, <3>1, <3>2
  <2> HIDE DEF Owners
  <2>3. Cardinality(Owners) = 1
    BY <2>2, FS_Singleton
  <2> QED BY <1>2, <2>3 DEF Owners, R, N
<1> QED BY <1>1, <1>2

=============================================================================
