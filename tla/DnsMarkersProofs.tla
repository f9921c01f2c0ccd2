-------------------------- MODULE DnsMarkersProofs --------------------------
(***************************************************************************)
(* Proof that an operator's claim is kept, for any addresses, any assets,  *)
(* any number of functions that run at the same time, any load and any     *)
(* number of restarts: ClaimKept, from the invariant that a row is in one  *)
(* cell and that no reconcile, delete or sync holds the id of an           *)
(* operator's row.                                                         *)
(***************************************************************************)
EXTENDS DnsMarkers, WellFoundedInduction, TLAPS

-----------------------------------------------------------------------------
(* The table.                                                              *)

Less == {p \in Nat \X Nat : p[1] < p[2]}

\* A set of numbers has a least one.
LEMMA LeastNumber ==
  ASSUME NEW S \in SUBSET Nat, S # {}
  PROVE  \E m \in S : \A j \in S : m <= j
<1>1. Less = OpToRel(<, Nat)
  BY Zenon DEF Less, OpToRel
<1>2. PICK m \in S : \A j \in S : <<j, m>> \notin Less
  BY <1>1, WFMin, NatLessThanWellFounded
<1>3. ASSUME NEW j \in S PROVE m <= j
  <2>1. j \in Nat /\ m \in Nat /\ <<j, m>> \notin Less
    BY <1>2
  <2> QED
    BY <2>1 DEF Less
<1> QED
  BY <1>3

Table == [Ips -> [Statuses -> Row \cup {NoRow}]]

\* A cell is empty just when the id in it is 0.
LEMMA CellFields ==
  ASSUME TypeOK, NEW i \in Ips, NEW s \in Statuses
  PROVE  /\ tbl[i][s] \in Row \cup {NoRow} /\ tbl[i][s].id \in Nat
         /\ tbl[i][s].id = 0 <=> tbl[i][s] = NoRow
         /\ tbl[i][s].id # 0 => tbl[i][s].id \in Ids
         /\ tbl[i][s].source # "none" => tbl[i][s] \in Row
<1>1. tbl[i][s] \in Row \cup {NoRow}
  BY DEF TypeOK
<1>2. CASE tbl[i][s] = NoRow
  BY <1>1, <1>2 DEF NoRow
<1>3. CASE tbl[i][s] \in Row
  <2>1. tbl[i][s].id \in Ids /\ tbl[i][s].id # 0 /\ tbl[i][s].id \in Nat /\ NoRow.id = 0
    BY <1>3, BoundsAssumption DEF Row, Ids, NoRow
  <2> QED
    BY <1>1, <1>3, <2>1
<1> QED
  BY <1>1, <1>2, <1>3

\* The same after a step.
LEMMA CellFieldsNext ==
  ASSUME TypeOK', NEW i \in Ips, NEW s \in Statuses
  PROVE  tbl'[i][s].id = 0 => tbl'[i][s].source # "manual"
<1>1. tbl'[i][s] \in Row \cup {NoRow}
  BY DEF TypeOK
<1> QED
  BY <1>1, BoundsAssumption DEF Row, Ids, NoRow

\* The fields of a function's state.
LEMMA HandlerFields ==
  ASSUME TypeOK, NEW w \in Requests
  PROVE  /\ h[w] \in Handler /\ h[w].ip \in Ips \cup {None} /\ h[w].id \in Ids \cup {0}
         /\ h[w].source \in {"none", "manual", "dhcp"} /\ h[w].due \in BOOLEAN
         /\ h[w].asset \in Assets \cup {None} /\ h[w].ok \in BOOLEAN
         /\ h[w].owned \subseteq [id: Ids, ip: Ips]
         /\ \A o \in h[w].owned : o.id \in Ids /\ o.ip \in Ips /\ o.id # 0
<1>1. /\ h[w] \in Handler /\ h[w].ip \in Ips \cup {None} /\ h[w].id \in Ids \cup {0}
      /\ h[w].source \in {"none", "manual", "dhcp"} /\ h[w].due \in BOOLEAN
      /\ h[w].asset \in Assets \cup {None} /\ h[w].ok \in BOOLEAN
      /\ h[w].owned \subseteq [id: Ids, ip: Ips]
  BY DEF TypeOK, Handler
<1>2. \A o \in [id: Ids, ip: Ips] : o.id \in Ids /\ o.ip \in Ips /\ o.id # 0
  BY BoundsAssumption DEF Ids
<1> QED
  BY <1>1, <1>2

\* A new id is no row's and nobody remembers it.
LEMMA FreshId ==
  ASSUME TypeOK, Free # {}
  PROVE  /\ Min(Free) \in Ids
         /\ \A i \in Ips, s \in Statuses : tbl[i][s].id # Min(Free)
         /\ \A w \in Requests : h[w].id # Min(Free) /\ \A o \in h[w].owned : o.id # Min(Free)
<1>1. Free \in SUBSET Nat
  BY BoundsAssumption DEF Free, Ids
<1>2. Min(Free) \in Free
  BY <1>1, LeastNumber DEF Min
<1>3. ASSUME NEW i \in Ips, NEW s \in Statuses PROVE tbl[i][s].id # Min(Free)
  <2>1. <<i, s>> \in Cells
    BY DEF Cells
  <2>2. tbl[i][s].id \in {tbl[c[1]][c[2]].id : c \in Cells}
    BY <2>1
  <2> QED
    BY <1>2, <2>2 DEF Free
<1>4. ASSUME NEW w \in Requests
      PROVE  h[w].id # Min(Free) /\ \A o \in h[w].owned : o.id # Min(Free)
  <2>1. {h[w].id} \cup {o.id : o \in h[w].owned} \subseteq
          UNION {{h[v].id} \cup {o.id : o \in h[v].owned} : v \in Requests}
    OBVIOUS
  <2>2. Min(Free) \notin {h[w].id} \cup {o.id : o \in h[w].owned}
    BY <1>2, <2>1 DEF Free
  <2> QED
    BY <2>2
<1> QED
  BY <1>2, <1>3, <1>4 DEF Free

\* A step that moves rows, but makes none: every row there is was there before.
Descends ==
  \A i \in Ips, s \in Statuses : tbl'[i][s].id # 0 =>
    \E j \in Ips, t \in Statuses :
      tbl[j][t].id = tbl'[i][s].id /\ tbl[j][t].source = tbl'[i][s].source

\* An updateMany moves rows into empty cells, or does nothing.
LEMMA UpdateManyTable ==
  ASSUME TypeOK, OneCell, NEW S \in SUBSET Ips, NEW to \in {"released", "expired"},
         UpdateMany(S, to)
  PROVE  /\ tbl' \in Table /\ OneCell' /\ Descends
         /\ \A i \in Ips \ S : tbl'[i] = tbl[i]
         /\ \A i \in S : tbl'[i] = tbl[i] \/ tbl'[i][to] = tbl[i]["active"]
<1>0. "active" \in Statuses /\ to \in Statuses /\ to # "active"
  BY DEF Statuses
<1>1. CASE tbl' = tbl
  BY <1>1 DEF TypeOK, Table, OneCell, Descends
<1>2. CASE tbl' = Moved(S, to) /\ \A i \in S : Empty(i, to)
  <2>1. \A i \in Ips : tbl[i] \in [Statuses -> Row \cup {NoRow}]
    BY DEF TypeOK
  <2>2. \A i \in Ips : tbl'[i] =
          IF i \in S THEN [tbl[i] EXCEPT !["active"] = NoRow, ![to] = tbl[i]["active"]]
          ELSE tbl[i]
    BY <1>2 DEF Moved
  <2>3. \A i \in Ips : tbl'[i] \in [Statuses -> Row \cup {NoRow}]
    BY <1>0, <2>1, <2>2
  <2>4. tbl' \in Table
    BY <1>2, <2>3 DEF Moved, Table
  <2> DEFINE from(i, s) == IF i \in S /\ s = to THEN "active" ELSE s
  <2>5. ASSUME NEW i \in Ips, NEW s \in Statuses
        PROVE  /\ from(i, s) \in Statuses
               /\ tbl'[i][s] = tbl[i][from(i, s)] \/ (i \in S /\ s = "active" /\ tbl'[i][s] = NoRow)
    BY <1>0, <2>1, <2>2
  <2>6. NoRow.id = 0
    BY DEF NoRow
  <2>7. Descends
    BY <2>5, <2>6 DEF Descends
  <2>8. OneCell'
    <3> SUFFICES ASSUME NEW i \in Ips, NEW j \in Ips, NEW s \in Statuses, NEW t \in Statuses,
                        tbl'[i][s].id # 0, tbl'[i][s].id = tbl'[j][t].id
                 PROVE  i = j /\ s = t
      BY DEF OneCell
    <3>1. /\ tbl'[i][s] = tbl[i][from(i, s)] /\ tbl'[j][t] = tbl[j][from(j, t)]
          /\ ~(i \in S /\ s = "active") /\ ~(j \in S /\ t = "active")
      <4>1. \A x \in Ips : x \in S => tbl'[x]["active"] = NoRow
        BY <1>0, <2>1, <2>2
      <4> QED
        BY <2>5, <2>6, <4>1
    <3>2. i = j /\ from(i, s) = from(j, t)
      BY <2>5, <3>1 DEF OneCell
    <3> QED
      BY <1>0, <3>1, <3>2
  <2>9. /\ \A i \in Ips \ S : tbl'[i] = tbl[i]
        /\ \A i \in S : tbl'[i][to] = tbl[i]["active"]
    BY <1>0, <2>1, <2>2
  <2> QED
    BY <2>4, <2>7, <2>8, <2>9
<1> QED
  BY <1>1, <1>2 DEF UpdateMany

\* A release of one row by its id, whatever cell it is in.
LEMMA ReleaseTable ==
  ASSUME TypeOK, OneCell, NEW i \in Ips, NEW s \in Statuses,
         tbl' = [tbl EXCEPT ![i] = [@ EXCEPT ![s] = NoRow, !["released"] = tbl[i][s]]]
  PROVE  /\ tbl' \in Table /\ OneCell' /\ Descends
         /\ \A j \in Ips : tbl'[j]["active"] # tbl[j]["active"] => j = i /\ s = "active"
<1>0. "active" \in Statuses /\ "released" \in Statuses
  BY DEF Statuses
<1>1. \A j \in Ips : tbl[j] \in [Statuses -> Row \cup {NoRow}]
  BY DEF TypeOK
<1>2. \A j \in Ips : tbl'[j] =
        IF j = i THEN [tbl[i] EXCEPT ![s] = NoRow, !["released"] = tbl[i][s]] ELSE tbl[j]
  BY DEF TypeOK
<1>3. \A j \in Ips, t \in Statuses : tbl'[j][t] =
        IF j # i THEN tbl[j][t] ELSE IF t = "released" THEN tbl[i][s]
        ELSE IF t = s THEN NoRow ELSE tbl[j][t]
  BY <1>0, <1>1, <1>2
<1>4. tbl' \in Table
  <2>1. \A j \in Ips : tbl'[j] \in [Statuses -> Row \cup {NoRow}]
    BY <1>0, <1>1, <1>2
  <2> QED
    BY <2>1 DEF Table, TypeOK
<1>5. NoRow.id = 0
  BY DEF NoRow
<1>6. Descends
  BY <1>0, <1>3, <1>5 DEF Descends
<1>7. OneCell'
  <2> SUFFICES ASSUME NEW j \in Ips, NEW k \in Ips, NEW t \in Statuses, NEW u \in Statuses,
                      tbl'[j][t].id # 0, tbl'[j][t].id = tbl'[k][u].id
               PROVE  j = k /\ t = u
    BY DEF OneCell
  <2> QED
    BY <1>0, <1>3, <1>5 DEF OneCell
<1>8. \A j \in Ips : tbl'[j]["active"] # tbl[j]["active"] => j = i /\ s = "active"
  BY <1>0, <1>3
<1> QED
  BY <1>4, <1>6, <1>7, <1>8

\* An insert takes an empty cell and a new id.
LEMMA InsertTable ==
  ASSUME TypeOK, OneCell, NEW i \in Ips, Empty(i, "active"),
         NEW source \in {"manual", "dhcp", "dns"}, NEW a \in Assets \cup {None},
         NEW due \in BOOLEAN, Insert(i, source, a, due)
  PROVE  /\ tbl' \in Table /\ OneCell'
         /\ \A j \in Ips, s \in Statuses :
              \/ tbl'[j][s] = tbl[j][s]
              \/ j = i /\ s = "active" /\ Empty(i, "active") /\ Free # {}
                 /\ tbl'[j][s].id = Min(Free)
<1> DEFINE new == [id |-> Min(Free), source |-> source, asset |-> a, due |-> due]
<1>0. "active" \in Statuses
  BY DEF Statuses
<1>1. Free # {} /\ tbl' = [tbl EXCEPT ![i] = [tbl[i] EXCEPT !["active"] = new]]
  BY DEF Insert
<1>2. new \in Row
  BY <1>1, FreshId DEF Row
<1>3. \A j \in Ips : tbl[j] \in [Statuses -> Row \cup {NoRow}]
  BY DEF TypeOK
<1> HIDE DEF new
<1>4. \A j \in Ips : tbl'[j] = IF j = i THEN [tbl[i] EXCEPT !["active"] = new] ELSE tbl[j]
  BY <1>1 DEF TypeOK
<1>5. \A j \in Ips, t \in Statuses : tbl'[j][t] =
        IF j = i /\ t = "active" THEN new ELSE tbl[j][t]
  BY <1>0, <1>3, <1>4
<1>6. tbl' \in Table
  <2>1. \A j \in Ips : tbl'[j] \in [Statuses -> Row \cup {NoRow}]
    BY <1>0, <1>2, <1>3, <1>4
  <2> QED
    BY <1>1, <2>1 DEF Table, TypeOK
<1>7. new.id = Min(Free)
  BY DEF new
<1>8. OneCell'
  <2> SUFFICES ASSUME NEW j \in Ips, NEW k \in Ips, NEW t \in Statuses, NEW u \in Statuses,
                      tbl'[j][t].id # 0, tbl'[j][t].id = tbl'[k][u].id
               PROVE  j = k /\ t = u
    BY DEF OneCell
  <2> QED
    BY <1>1, <1>5, <1>7, FreshId DEF OneCell
<1> QED
  BY <1>1, <1>5, <1>6, <1>7, <1>8

-----------------------------------------------------------------------------
(* What the functions remember.                                            *)

\* NotManual after the step.
StaysOurs(id) ==
  \A i \in Ips, s \in Statuses : tbl'[i][s].id = id => tbl'[i][s].source # "manual"

\* No remembered row turns into an operator's.
Spared ==
  \A id \in Ids :
    (/\ NotManual(id)
     /\ \E v \in Requests : id = h[v].id \/ \E o \in h[v].owned : id = o.id)
    => StaysOurs(id)

\* Moving rows about does not change whose they are.
LEMMA DescendsSpares ==
  ASSUME TypeOK, Descends PROVE Spared
<1> SUFFICES ASSUME NEW id \in Ids, NotManual(id) PROVE StaysOurs(id)
  BY DEF Spared
<1>1. id # 0
  BY BoundsAssumption DEF Ids
<1> QED
  BY <1>1 DEF Descends, StaysOurs, NotManual

\* A new row has an id that nobody remembers.
LEMMA InsertSpares ==
  ASSUME TypeOK,
         \A j \in Ips, s \in Statuses :
           tbl'[j][s] = tbl[j][s] \/ (Free # {} /\ tbl'[j][s].id = Min(Free))
  PROVE  Spared
<1> SUFFICES ASSUME NEW id \in Ids, NotManual(id), NEW v \in Requests,
                    id = h[v].id \/ \E o \in h[v].owned : id = o.id
             PROVE  StaysOurs(id)
  BY DEF Spared
<1>1. Free # {} => id # Min(Free)
  BY FreshId
<1> QED
  BY <1>1 DEF StaysOurs, NotManual

\* The markers an asset owns are no operators' rows.
LEMMA OwnedByOurs ==
  ASSUME TypeOK, OneCell, NEW a
  PROVE  OwnedBy(a) \in SUBSET [id: Ids, ip: Ips] /\ \A o \in OwnedBy(a) : NotManual(o.id)
<1>0. "active" \in Statuses
  BY DEF Statuses
<1> SUFFICES ASSUME NEW i \in Ips, IsDns(i)
             PROVE  /\ [id |-> tbl[i]["active"].id, ip |-> i] \in [id: Ids, ip: Ips]
                    /\ NotManual([id |-> tbl[i]["active"].id, ip |-> i].id)
  BY DEF OwnedBy
<1>1. tbl[i]["active"].source = "dns"
  BY DEF IsDns
<1>2. tbl[i]["active"] \in Row
  BY <1>0, <1>1, CellFields
<1>3. tbl[i]["active"].id \in Ids /\ tbl[i]["active"].id # 0
  BY <1>2, BoundsAssumption DEF Row, Ids
<1>4. NotManual(tbl[i]["active"].id)
  BY <1>0, <1>1, <1>3 DEF NotManual, OneCell
<1> QED
  BY <1>3, <1>4

\* One function goes on: what the invariant asks of its next state.
LEMMA Frame ==
  ASSUME IInv, NEW w \in Requests, NEW hw \in Handler, Become(w, hw),
         Spared, OneCell', tbl' \in Table,
         \A o \in hw.owned : StaysOurs(o.id),
         hw.pc = "s_release" => StaysOurs(hw.id),
         hw.pc \in {"c_take", "c_insert", "k_auth", "k_find", "k_upsert"} => hw.ip \in Ips,
         hw.pc = "k_owned" /\ hw.ok => hw.ip \in Ips,
         hw.pc \in {"c_take", "c_insert"} => hw.source # "none",
         mix' \in Mixes, asset' \in [Assets -> Asset], fired' \subseteq Assets,
         writes' \in 0..MaxWrites, crashes' \in 0..MaxCrash
  PROVE  IInv'
<1>0. TypeOK /\ Located /\ OwnsNoClaim
  BY DEF IInv
<1>1. /\ h' \in [Requests -> Handler] /\ h'[w] = hw
      /\ \A v \in Requests \ {w} : h'[v] = h[v]
  BY <1>0 DEF Become, TypeOK
<1>2. TypeOK'
  BY <1>1 DEF TypeOK, Table
<1>3. Located'
  BY <1>0, <1>1 DEF Located
<1>4. OwnsNoClaim'
  <2> SUFFICES ASSUME NEW v \in Requests
               PROVE  /\ \A o \in h'[v].owned : StaysOurs(o.id)
                      /\ h'[v].pc = "s_release" => StaysOurs(h'[v].id)
    BY DEF OwnsNoClaim, NotManual, StaysOurs
  <2>1. CASE v = w
    BY <1>1, <2>1
  <2>2. CASE v # w
    <3>1. h'[v] = h[v]
      BY <1>1, <2>2
    <3>2. \A o \in h[v].owned : StaysOurs(o.id)
      BY <1>0, HandlerFields DEF OwnsNoClaim, Spared
    <3>3. ASSUME h[v].pc = "s_release" PROVE StaysOurs(h[v].id)
      <4>1. NotManual(h[v].id)
        BY <1>0, <3>3 DEF OwnsNoClaim
      <4>2. CASE h[v].id = 0
        <5>1. \A i \in Ips, s \in Statuses : tbl'[i][s].id = 0 => tbl'[i][s].source # "manual"
          BY <1>2, CellFieldsNext
        <5> QED
          BY <4>2, <5>1 DEF StaysOurs
      <4>3. CASE h[v].id # 0
        BY <1>0, <4>1, <4>3, HandlerFields DEF Spared
      <4> QED
        BY <4>2, <4>3
    <3> QED
      BY <3>1, <3>2, <3>3
  <2> QED
    BY <2>1, <2>2
<1> QED
  BY <1>2, <1>3, <1>4 DEF IInv

\* The same for a function that leaves the table as it is.
LEMMA ReadFrame ==
  ASSUME IInv, NEW w \in Requests, NEW hw \in Handler, Become(w, hw),
         tbl' = tbl,
         \A o \in hw.owned : NotManual(o.id),
         hw.pc = "s_release" => NotManual(hw.id),
         hw.pc \in {"c_take", "c_insert", "k_auth", "k_find", "k_upsert"} => hw.ip \in Ips,
         hw.pc = "k_owned" /\ hw.ok => hw.ip \in Ips,
         hw.pc \in {"c_take", "c_insert"} => hw.source # "none",
         mix' \in Mixes, asset' \in [Assets -> Asset], fired' \subseteq Assets,
         writes' \in 0..MaxWrites, crashes' \in 0..MaxCrash
  PROVE  IInv' /\ ClaimStep
<1>1. TypeOK /\ OneCell
  BY DEF IInv
<1>2. Spared
  BY <1>1 DEF Spared, StaysOurs, NotManual
<1>3. OneCell' /\ tbl' \in Table
  BY <1>1 DEF OneCell, TypeOK, Table
<1>4. /\ \A o \in hw.owned : StaysOurs(o.id)
      /\ hw.pc = "s_release" => StaysOurs(hw.id)
  BY DEF StaysOurs, NotManual
<1>5. IInv'
  BY <1>2, <1>3, <1>4, Frame
<1> QED
  BY <1>5 DEF ClaimStep

\* The other variables, left alone, keep their types.
LEMMA RestTyped ==
  ASSUME IInv
  PROVE  /\ mix \in Mixes /\ asset \in [Assets -> Asset] /\ fired \subseteq Assets
         /\ writes \in 0..MaxWrites /\ crashes \in 0..MaxCrash
BY DEF IInv, TypeOK

\* A function that has not begun.
LEMMA IdleTyped == Idle \in Handler /\ Idle.pc = "idle" /\ Idle.owned = {}
BY DEF Idle, Handler

-----------------------------------------------------------------------------
(* The steps.                                                              *)

\* createReservation and the creates of discovery.
LEMMA CreateKeeps ==
  ASSUME IInv, UNCHANGED mix, NEW w \in Requests,
         \/ \E i \in mix.ips, source \in {"manual", "dhcp"}, due \in BOOLEAN :
              CreateCheck(w, i, source, due)
         \/ CreateTake(w) \/ CreateInsert(w)
  PROVE  IInv' /\ ClaimStep
<1> USE RestTyped
<1>0. TypeOK /\ OneCell /\ Located /\ OwnsNoClaim /\ h[w] \in Handler
  BY HandlerFields DEF IInv
<1>1. ASSUME NEW i \in mix.ips, NEW source \in {"manual", "dhcp"}, NEW due \in BOOLEAN,
             CreateCheck(w, i, source, due)
      PROVE  IInv' /\ ClaimStep
  <2> DEFINE hw == [Idle EXCEPT !.pc = "c_take", !.ip = i, !.source = source, !.due = due]
  <2>1. i \in Ips
    BY <1>0, MixesAssumption DEF TypeOK
  <2>2. hw \in Handler /\ hw.owned = {} /\ hw.pc = "c_take" /\ hw.ip = i
        /\ hw.source = source
    BY <2>1 DEF Idle, Handler
  <2>3. Become(w, hw) /\ UNCHANGED <<tbl, asset, fired, writes, crashes>>
    BY <1>1 DEF CreateCheck
  <2> HIDE DEF hw
  <2> QED
    BY <2>1, <2>2, <2>3, ReadFrame
<1>2. CASE CreateTake(w)
  <2> DEFINE hw == [h[w] EXCEPT !.pc = "c_insert"]
             S == {j \in {h[w].ip} : IsDns(j)}
  <2>1. h[w].ip \in Ips /\ S \in SUBSET Ips
    BY <1>0, <1>2 DEF CreateTake, Located
  <2>2. /\ hw \in Handler /\ hw.owned = h[w].owned /\ hw.pc = "c_insert" /\ hw.ip = h[w].ip
        /\ hw.source = h[w].source /\ h[w].source # "none"
    BY <1>0, <1>2 DEF Handler, CreateTake, Located
  <2>3. Become(w, hw) /\ UpdateMany(S, "released") /\ UNCHANGED <<asset, fired, writes, crashes>>
    BY <1>2 DEF CreateTake, TakeOver
  <2>4. tbl' \in Table /\ OneCell' /\ Descends /\ \A i \in Ips \ S : tbl'[i] = tbl[i]
    BY <1>0, <2>1, <2>3, UpdateManyTable
  <2>5. Spared
    BY <1>0, <2>4, DescendsSpares
  <2>6. \A o \in hw.owned : StaysOurs(o.id)
    BY <1>0, <2>2, <2>5, HandlerFields DEF OwnsNoClaim, Spared
  <2>7. ClaimStep
    <3>1. \A i \in Ips : Claimed(i) => i \notin S
      BY DEF Claimed, IsDns
    <3> QED
      BY <2>4, <3>1 DEF ClaimStep
  <2> HIDE DEF hw
  <2>8. IInv'
    BY <2>1, <2>2, <2>3, <2>4, <2>5, <2>6, Frame
  <2> QED
    BY <2>7, <2>8
<1>3. CASE CreateInsert(w)
  <2>1. h[w].ip \in Ips /\ h[w].due \in BOOLEAN
    BY <1>0, <1>3, HandlerFields DEF CreateInsert, Located
  <2>2. Become(w, Idle) /\ UNCHANGED <<asset, fired, writes, crashes>>
    BY <1>3 DEF CreateInsert, Finish
  <2>3. CASE tbl' = tbl
    BY <2>2, <2>3, IdleTyped, ReadFrame
  <2>4. CASE Empty(h[w].ip, "active") /\ Insert(h[w].ip, h[w].source, None, h[w].due)
    <3>1. h[w].source \in {"manual", "dhcp"}
      BY <1>0, <1>3, HandlerFields DEF CreateInsert, Located
    <3>2. /\ tbl' \in Table /\ OneCell'
          /\ \A j \in Ips, s \in Statuses :
               \/ tbl'[j][s] = tbl[j][s]
               \/ j = h[w].ip /\ s = "active" /\ Empty(h[w].ip, "active") /\ Free # {}
                  /\ tbl'[j][s].id = Min(Free)
      BY <1>0, <2>1, <2>4, <3>1, InsertTable
    <3>3. Spared
      BY <1>0, <3>2, InsertSpares
    <3>4. IInv'
      BY <2>2, <3>2, <3>3, IdleTyped, Frame
    <3>5. ClaimStep
      <4>1. "active" \in Statuses /\ NoRow.source # "manual"
        BY DEF Statuses, NoRow
      <4> QED
        BY <3>2, <4>1 DEF ClaimStep, Claimed, Empty
    <3> QED
      BY <3>4, <3>5
  <2> QED
    BY <1>3, <2>3, <2>4 DEF CreateInsert
<1> QED
  BY <1>1, <1>2, <1>3

\* releaseReservation, and the sync's release of a row gone from the gate.
LEMMA ReleaseKeeps ==
  ASSUME IInv, UNCHANGED mix, NEW w \in Requests,
         \/ \E i \in Ips : ReleaseBegin(w, i) \/ SyncBegin(w, i)
         \/ ReleaseCommit(w) \/ SyncRelease(w)
  PROVE  IInv' /\ ClaimStep
<1> USE RestTyped
<1>0. TypeOK /\ OneCell /\ Located /\ OwnsNoClaim /\ h[w] \in Handler /\ "active" \in Statuses
  BY HandlerFields DEF IInv, Statuses
<1>1. ASSUME NEW i \in Ips, ReleaseBegin(w, i) PROVE IInv' /\ ClaimStep
  <2> DEFINE hw == [Idle EXCEPT !.pc = "r_commit", !.ip = i, !.id = tbl[i]["active"].id]
  <2>1. tbl[i]["active"].id \in Ids \cup {0}
    BY <1>0, CellFields
  <2>2. hw \in Handler /\ hw.owned = {} /\ hw.pc = "r_commit"
    BY <2>1 DEF Idle, Handler
  <2>3. Become(w, hw) /\ UNCHANGED <<tbl, asset, fired, writes, crashes>>
    BY <1>1 DEF ReleaseBegin
  <2> HIDE DEF hw
  <2> QED
    BY <2>2, <2>3, ReadFrame
<1>2. ASSUME NEW i \in Ips, SyncBegin(w, i) PROVE IInv' /\ ClaimStep
  <2> DEFINE hw == [Idle EXCEPT !.pc = "s_release", !.ip = i, !.id = tbl[i]["active"].id]
  <2>1. tbl[i]["active"].source = "dhcp"
    BY <1>2 DEF SyncBegin
  <2>2. tbl[i]["active"].id \in Ids /\ tbl[i]["active"].id # 0
    <3>1. tbl[i]["active"] \in Row
      BY <1>0, <2>1, CellFields
    <3> QED
      BY <3>1, BoundsAssumption DEF Row, Ids
  <2>3. NotManual(tbl[i]["active"].id)
    BY <1>0, <2>1, <2>2 DEF NotManual, OneCell
  <2>4. hw \in Handler /\ hw.owned = {} /\ hw.pc = "s_release" /\ hw.id = tbl[i]["active"].id
    BY <2>2 DEF Idle, Handler
  <2>5. Become(w, hw) /\ UNCHANGED <<tbl, asset, fired, writes, crashes>>
    BY <1>2 DEF SyncBegin
  <2> HIDE DEF hw
  <2> QED
    BY <2>3, <2>4, <2>5, ReadFrame
<1>3. ASSUME NEW i \in Ips, NEW s \in Statuses, Finish(w),
             tbl' = [tbl EXCEPT ![i] = [@ EXCEPT ![s] = NoRow, !["released"] = tbl[i][s]]],
             UNCHANGED <<asset, fired, writes, crashes>>
      PROVE  /\ IInv'
             /\ \A j \in Ips : tbl'[j]["active"] # tbl[j]["active"] => j = i /\ s = "active"
  <2>1. /\ tbl' \in Table /\ OneCell' /\ Descends
        /\ \A j \in Ips : tbl'[j]["active"] # tbl[j]["active"] => j = i /\ s = "active"
    BY <1>0, <1>3, ReleaseTable
  <2>2. Spared
    BY <1>0, <2>1, DescendsSpares
  <2>3. Become(w, Idle)
    BY <1>3 DEF Finish
  <2>4. IInv'
    BY <1>3, <2>1, <2>2, <2>3, IdleTyped, Frame
  <2> QED
    BY <2>1, <2>4
<1>4. CASE ReleaseCommit(w)
  <2>1. Finish(w) /\ UNCHANGED <<asset, fired, writes, crashes>> /\ h[w].pc = "r_commit"
    BY <1>4 DEF ReleaseCommit
  <2>2. CASE tbl' = tbl
    BY <2>1, <2>2, IdleTyped, ReadFrame DEF Finish
  <2>3. ASSUME NEW c \in CellOf(h[w].id),
               tbl' = [tbl EXCEPT ![c[1]] =
                 [@ EXCEPT ![c[2]] = NoRow, !["released"] = tbl[c[1]][c[2]]]]
        PROVE  IInv' /\ ClaimStep
    <3>1. c[1] \in Ips /\ c[2] \in Statuses /\ tbl[c[1]][c[2]].id = h[w].id
      BY DEF CellOf, Cells, Holds
    <3>2. /\ IInv'
          /\ \A j \in Ips : tbl'[j]["active"] # tbl[j]["active"] => j = c[1] /\ c[2] = "active"
      BY <1>3, <2>1, <2>3, <3>1
    <3>3. ClaimStep
      BY <2>1, <3>1, <3>2 DEF ClaimStep
    <3> QED
      BY <3>2, <3>3
  <2> QED
    BY <1>4, <2>2, <2>3 DEF ReleaseCommit
<1>5. CASE SyncRelease(w)
  <2>1. Finish(w) /\ UNCHANGED <<asset, fired, writes, crashes>> /\ h[w].pc = "s_release"
    BY <1>5 DEF SyncRelease
  <2>2. CASE tbl' = tbl
    BY <2>1, <2>2, IdleTyped, ReadFrame DEF Finish
  <2>3. ASSUME NEW c \in CellOf(h[w].id),
               tbl' = [tbl EXCEPT ![c[1]] =
                 [@ EXCEPT ![c[2]] = NoRow, !["released"] = tbl[c[1]][c[2]]]]
        PROVE  IInv' /\ ClaimStep
    <3>1. c[1] \in Ips /\ c[2] \in Statuses /\ tbl[c[1]][c[2]].id = h[w].id
      BY DEF CellOf, Cells, Holds
    <3>2. /\ IInv'
          /\ \A j \in Ips : tbl'[j]["active"] # tbl[j]["active"] => j = c[1] /\ c[2] = "active"
      BY <1>3, <2>1, <2>3, <3>1
    <3>3. tbl[c[1]][c[2]].source # "manual"
      BY <1>0, <2>1, <3>1 DEF OwnsNoClaim, NotManual
    <3>4. ClaimStep
      BY <3>2, <3>3 DEF ClaimStep, Claimed
    <3> QED
      BY <3>2, <3>4
  <2> QED
    BY <1>5, <2>2, <2>3 DEF SyncRelease
<1> QED
  BY <1>1, <1>2, <1>4, <1>5

\* releaseRows: only markers go.
LEMMA ReleaseRowsKeeps ==
  ASSUME IInv, NEW w \in Requests, ReleaseRows(h[w].owned)
  PROVE  tbl' \in Table /\ OneCell' /\ Spared /\ ClaimStep
<1> DEFINE S == {i \in Ips : \E o \in h[w].owned : Holds(<<i, "active">>, o.id)}
<1>0. TypeOK /\ OneCell /\ OwnsNoClaim /\ "active" \in Statuses
  BY DEF IInv, Statuses
<1>1. S \in SUBSET Ips /\ UpdateMany(S, "released")
  BY DEF ReleaseRows
<1>2. tbl' \in Table /\ OneCell' /\ Descends /\ \A i \in Ips \ S : tbl'[i] = tbl[i]
  BY <1>0, <1>1, UpdateManyTable
<1>3. ASSUME NEW i \in S PROVE ~Claimed(i)
  <2>1. PICK o \in h[w].owned : Holds(<<i, "active">>, o.id)
    OBVIOUS
  <2>2. tbl[i]["active"].id = o.id
    BY <2>1 DEF Holds
  <2> QED
    BY <1>0, <2>2 DEF OwnsNoClaim, NotManual, Claimed
<1>4. ClaimStep
  BY <1>2, <1>3 DEF ClaimStep
<1> QED
  BY <1>0, <1>2, <1>4, DescendsSpares

\* The marker found gets the asset's identity; everything else stays.
LEMMA RenamedTable ==
  ASSUME TypeOK, OneCell, NEW id, NEW a \in Assets \cup {None},
         tbl' = [i \in Ips |-> [s \in Statuses |->
                  IF Holds(<<i, s>>, id) THEN [tbl[i][s] EXCEPT !.asset = a] ELSE tbl[i][s]]]
  PROVE  tbl' \in Table /\ OneCell' /\ Descends /\ ClaimStep
<1>1. ASSUME NEW i \in Ips, NEW s \in Statuses
      PROVE  /\ tbl'[i][s] \in Row \cup {NoRow}
             /\ tbl'[i][s].id = tbl[i][s].id /\ tbl'[i][s].source = tbl[i][s].source
  <2>1. tbl'[i][s] = IF Holds(<<i, s>>, id) THEN [tbl[i][s] EXCEPT !.asset = a] ELSE tbl[i][s]
    OBVIOUS
  <2>2. CASE ~Holds(<<i, s>>, id)
    BY <2>1, <2>2, CellFields
  <2>3. CASE Holds(<<i, s>>, id)
    <3>1. tbl[i][s].id # 0
      BY <2>3 DEF Holds
    <3>2. tbl[i][s] \in Row
      BY <3>1, CellFields
    <3> QED
      BY <2>1, <2>3, <3>2 DEF Row
  <2> QED
    BY <2>2, <2>3
<1>2. tbl' \in Table
  BY <1>1 DEF Table
<1>3. OneCell'
  BY <1>1 DEF OneCell
<1>4. Descends
  BY <1>1 DEF Descends
<1>5. ClaimStep
  BY <1>1 DEF ClaimStep, Statuses
<1> QED
  BY <1>2, <1>3, <1>4, <1>5

\* reconcileDnsResolvedForAsset.
LEMMA ReconcileKeeps ==
  ASSUME IInv, UNCHANGED mix, NEW w \in Requests,
         \/ \E a \in Assets : ReconcileBegin(w, a)
         \/ ReconcileOwned(w) \/ ReconcileAuth(w) \/ ReconcileFind(w)
         \/ ReconcileUpsert(w) \/ ReconcileRelease(w)
  PROVE  IInv' /\ ClaimStep
<1> USE RestTyped
<1>0. /\ TypeOK /\ OneCell /\ Located /\ OwnsNoClaim /\ h[w] \in Handler /\ "active" \in Statuses
      /\ \A o \in h[w].owned : NotManual(o.id)
  BY HandlerFields DEF IInv, Statuses, OwnsNoClaim
<1>1. ASSUME NEW a \in Assets, ReconcileBegin(w, a) PROVE IInv' /\ ClaimStep
  <2> DEFINE hw == [Idle EXCEPT !.pc = "k_owned", !.asset = a, !.ip = asset[a].ip,
                                !.ok = asset[a].ok /\ asset[a].ip # None]
  <2>1. asset[a].ip \in Ips \cup {None} /\ asset[a].ok \in BOOLEAN
    BY <1>0 DEF TypeOK, Asset
  <2>2. /\ hw \in Handler /\ hw.owned = {} /\ hw.pc = "k_owned" /\ hw.ip = asset[a].ip
        /\ hw.ok => asset[a].ip # None
    BY <2>1 DEF Idle, Handler
  <2>3. tbl' = tbl /\ UNCHANGED <<asset, writes, crashes>> /\ fired' \subseteq Assets
    BY <1>1 DEF ReconcileBegin
  <2>4. CASE Become(w, hw)
    <3> HIDE DEF hw
    <3> QED
      BY <2>1, <2>2, <2>3, <2>4, ReadFrame
  <2>5. CASE h' = h
    BY <1>0, <2>3, <2>5
       DEF IInv, TypeOK, OneCell, Located, OwnsNoClaim, NotManual, ClaimStep
  <2> QED
    BY <1>1, <2>4, <2>5 DEF ReconcileBegin
<1>2. CASE ReconcileOwned(w)
  <2> DEFINE hw == [h[w] EXCEPT !.owned = OwnedBy(h[w].asset),
                                !.pc = IF h[w].ok THEN "k_auth" ELSE "k_release"]
  <2>1. /\ OwnedBy(h[w].asset) \in SUBSET [id: Ids, ip: Ips]
        /\ \A o \in OwnedBy(h[w].asset) : NotManual(o.id)
    BY <1>0, OwnedByOurs
  <2>2. h[w].ok => h[w].ip \in Ips
    BY <1>0, <1>2 DEF ReconcileOwned, Located
  <2>3. /\ hw \in Handler /\ hw.owned = OwnedBy(h[w].asset) /\ hw.ip = h[w].ip
        /\ hw.pc = IF h[w].ok THEN "k_auth" ELSE "k_release"
    BY <1>0, <2>1 DEF Handler
  <2>4. Become(w, hw) /\ UNCHANGED <<tbl, asset, fired, writes, crashes>>
    BY <1>2 DEF ReconcileOwned
  <2> HIDE DEF hw
  <2> QED
    BY <2>1, <2>2, <2>3, <2>4, ReadFrame
<1>3. CASE ReconcileAuth(w)
  <2> DEFINE hw == [h[w] EXCEPT !.pc = IF Defers(h[w].ip) THEN "k_release" ELSE "k_find"]
  <2>1. h[w].ip \in Ips
    BY <1>0, <1>3 DEF ReconcileAuth, Located
  <2>2. /\ hw \in Handler /\ hw.owned = h[w].owned /\ hw.ip = h[w].ip
        /\ hw.pc \in {"k_release", "k_find"}
    BY <1>0 DEF Handler
  <2>3. Become(w, hw) /\ UNCHANGED <<tbl, asset, fired, writes, crashes>>
    BY <1>3 DEF ReconcileAuth
  <2> HIDE DEF hw
  <2> QED
    BY <1>0, <2>1, <2>2, <2>3, ReadFrame
<1>4. CASE ReconcileFind(w)
  <2> DEFINE id == IF IsDns(h[w].ip) THEN tbl[h[w].ip]["active"].id ELSE 0
             same == [h[w] EXCEPT !.pc = "k_release", !.owned = Stale(h[w])]
             other == [h[w] EXCEPT !.pc = "k_upsert", !.id = id]
  <2>1. h[w].ip \in Ips
    BY <1>0, <1>4 DEF ReconcileFind, Located
  <2>2. id \in Ids \cup {0}
    BY <1>0, <2>1, CellFields
  <2>3. Stale(h[w]) \subseteq h[w].owned
    BY DEF Stale
  <2>4. same \in Handler /\ same.owned = Stale(h[w]) /\ same.pc = "k_release"
    BY <1>0, <2>3 DEF Handler
  <2>5. other \in Handler /\ other.owned = h[w].owned /\ other.pc = "k_upsert"
        /\ other.ip = h[w].ip
    <3> HIDE DEF id
    <3> QED
      BY <1>0, <2>2 DEF Handler
  <2>6. /\ Become(w, same) \/ Become(w, other)
        /\ UNCHANGED <<tbl, asset, fired, writes, crashes>>
    BY <1>4 DEF ReconcileFind
  <2> HIDE DEF same, other
  <2> QED
    BY <1>0, <2>1, <2>3, <2>4, <2>5, <2>6, ReadFrame
<1>5. CASE ReconcileUpsert(w)
  <2> DEFINE hw == [h[w] EXCEPT !.pc = "k_release", !.owned = Stale(h[w]), !.id = 0]
  <2>1. h[w].ip \in Ips /\ h[w].asset \in Assets \cup {None}
    BY <1>0, <1>5, HandlerFields DEF ReconcileUpsert, Located
  <2>2. Stale(h[w]) \subseteq h[w].owned
    BY DEF Stale
  <2>3. hw \in Handler /\ hw.owned = Stale(h[w]) /\ hw.pc = "k_release"
    BY <1>0, <2>2 DEF Handler
  <2>4. Become(w, hw) /\ UNCHANGED <<asset, fired, writes, crashes>>
    BY <1>5 DEF ReconcileUpsert
  <2> HIDE DEF hw
  <2>5. tbl' \in Table /\ OneCell' /\ Spared /\ ClaimStep
    <3>1. CASE tbl' = tbl
      BY <1>0, <3>1 DEF TypeOK, Table, OneCell, Spared, StaysOurs, NotManual, ClaimStep
    <3>2. CASE tbl' = [i \in Ips |-> [s \in Statuses |->
                IF Holds(<<i, s>>, h[w].id) THEN [tbl[i][s] EXCEPT !.asset = h[w].asset]
                                            ELSE tbl[i][s]]]
      BY <1>0, <2>1, <3>2, RenamedTable, DescendsSpares
    <3>3. CASE Empty(h[w].ip, "active") /\ Insert(h[w].ip, "dns", h[w].asset, FALSE)
      <4>1. /\ tbl' \in Table /\ OneCell'
            /\ \A j \in Ips, s \in Statuses :
                 \/ tbl'[j][s] = tbl[j][s]
                 \/ j = h[w].ip /\ s = "active" /\ Empty(h[w].ip, "active") /\ Free # {}
                    /\ tbl'[j][s].id = Min(Free)
        BY <1>0, <2>1, <3>3, InsertTable
      <4>2. Spared
        BY <1>0, <4>1, InsertSpares
      <4>3. ClaimStep
        <5>1. NoRow.source # "manual"
          BY DEF NoRow
        <5> QED
          BY <1>0, <4>1, <5>1 DEF ClaimStep, Claimed, Empty
      <4> QED
        BY <4>1, <4>2, <4>3
    <3> QED
      BY <1>5, <3>1, <3>2, <3>3 DEF ReconcileUpsert
  <2>6. \A o \in hw.owned : StaysOurs(o.id)
    BY <1>0, <2>2, <2>3, <2>5, HandlerFields DEF Spared
  <2>7. IInv'
    BY <2>3, <2>4, <2>5, <2>6, Frame
  <2> QED
    BY <2>5, <2>7
<1>6. CASE ReconcileRelease(w)
  <2>1. tbl' \in Table /\ OneCell' /\ Spared /\ ClaimStep
    BY <1>6, ReleaseRowsKeeps DEF ReconcileRelease
  <2>2. Become(w, Idle) /\ UNCHANGED <<asset, fired, writes, crashes>>
    BY <1>6 DEF ReconcileRelease, Finish
  <2>3. IInv'
    BY <2>1, <2>2, IdleTyped, Frame
  <2> QED
    BY <2>1, <2>3
<1> QED
  BY <1>1, <1>2, <1>3, <1>4, <1>5, <1>6

\* asset.delete.
LEMMA DeleteKeeps ==
  ASSUME IInv, UNCHANGED mix, NEW w \in Requests,
         (\E a \in Assets : DeleteBegin(w, a)) \/ DeleteStep(w)
  PROVE  IInv' /\ ClaimStep
<1> USE RestTyped
<1>0. TypeOK /\ OneCell /\ h[w] \in Handler
  BY HandlerFields DEF IInv
<1>1. ASSUME NEW a \in Assets, DeleteBegin(w, a) PROVE IInv' /\ ClaimStep
  <2> DEFINE hw == [Idle EXCEPT !.pc = "d_owned", !.asset = a]
  <2>1. hw \in Handler /\ hw.owned = {} /\ hw.pc = "d_owned"
    BY DEF Idle, Handler
  <2>2. Become(w, hw) /\ UNCHANGED <<tbl, asset, fired, writes, crashes>>
    BY <1>1 DEF DeleteBegin
  <2> HIDE DEF hw
  <2> QED
    BY <2>1, <2>2, ReadFrame
<1>2. CASE DeleteStep(w)
  <2>0. UNCHANGED <<fired, writes, crashes>>
    BY <1>2 DEF DeleteStep
  <2>1. CASE /\ Become(w, [h[w] EXCEPT !.pc = "d_release", !.owned = OwnedBy(h[w].asset)])
             /\ UNCHANGED <<tbl, asset>>
    <3> DEFINE hw == [h[w] EXCEPT !.pc = "d_release", !.owned = OwnedBy(h[w].asset)]
    <3>1. /\ OwnedBy(h[w].asset) \in SUBSET [id: Ids, ip: Ips]
          /\ \A o \in OwnedBy(h[w].asset) : NotManual(o.id)
      BY <1>0, OwnedByOurs
    <3>2. hw \in Handler /\ hw.owned = OwnedBy(h[w].asset) /\ hw.pc = "d_release"
      BY <1>0, <3>1 DEF Handler
    <3>3. Become(w, hw)
      BY <2>1
    <3> HIDE DEF hw
    <3> QED
      BY <2>0, <2>1, <3>1, <3>2, <3>3, ReadFrame
  <2>2. CASE /\ ReleaseRows(h[w].owned)
             /\ Become(w, [h[w] EXCEPT !.pc = "d_delete", !.owned = {}])
             /\ UNCHANGED asset
    <3> DEFINE hw == [h[w] EXCEPT !.pc = "d_delete", !.owned = {}]
    <3>1. tbl' \in Table /\ OneCell' /\ Spared /\ ClaimStep
      BY <2>2, ReleaseRowsKeeps
    <3>2. hw \in Handler /\ hw.owned = {} /\ hw.pc = "d_delete"
      BY <1>0 DEF Handler
    <3>3. Become(w, hw)
      BY <2>2
    <3> HIDE DEF hw
    <3>4. IInv'
      BY <2>0, <2>2, <3>1, <3>2, <3>3, Frame
    <3> QED
      BY <3>1, <3>4
  <2>3. CASE /\ asset' = [asset EXCEPT ![h[w].asset].live = FALSE]
             /\ Finish(w) /\ UNCHANGED tbl
    <3>1. asset' \in [Assets -> Asset]
      BY <2>3 DEF Asset
    <3> QED
      BY <2>0, <2>3, <3>1, IdleTyped, ReadFrame DEF Finish
  <2> QED
    BY <1>2, <2>1, <2>2, <2>3 DEF DeleteStep
<1> QED
  BY <1>1, <1>2

\* What happens outside the functions: asset writes, the jobs, restarts.
LEMMA EnvironmentKeeps ==
  ASSUME IInv, UNCHANGED mix,
         \/ \E a \in Assets, ip \in mix.ips \cup {None}, ok \in BOOLEAN : AssetWrite(a, ip, ok)
         \/ ExpireStale \/ Sweep \/ Crash
  PROVE  IInv' /\ ClaimStep
<1>0. TypeOK /\ OneCell /\ Located /\ OwnsNoClaim
  BY DEF IInv
<1>1. ASSUME NEW a \in Assets, NEW ip \in mix.ips \cup {None}, NEW ok \in BOOLEAN,
             AssetWrite(a, ip, ok)
      PROVE  IInv' /\ ClaimStep
  <2>1. ip \in Ips \cup {None}
    BY <1>0, MixesAssumption DEF TypeOK
  <2>2. asset' \in [Assets -> Asset]
    BY <1>0, <1>1, <2>1 DEF AssetWrite, TypeOK, Asset
  <2>3. writes' \in 0..MaxWrites
    <3>1. writes' = writes + 1 /\ writes < MaxWrites
      BY <1>1 DEF AssetWrite
    <3>2. writes \in 0..MaxWrites
      BY <1>0 DEF TypeOK
    <3> QED
      BY <3>1, <3>2, BoundsAssumption
  <2>4. tbl' = tbl /\ h' = h /\ crashes' = crashes /\ fired' = fired \cup {a}
    BY <1>1 DEF AssetWrite
  <2> QED
    BY <1>0, <2>2, <2>3, <2>4
       DEF IInv, TypeOK, OneCell, Located, OwnsNoClaim, NotManual, ClaimStep
<1>2. CASE Sweep
  BY <1>0, <1>2 DEF Sweep, IInv, TypeOK, OneCell, Located, OwnsNoClaim, NotManual, ClaimStep
<1>3. CASE Crash
  <2>1. crashes' \in 0..MaxCrash
    BY <1>0, <1>3, BoundsAssumption DEF Crash, TypeOK
  <2>2. h' \in [Requests -> Handler] /\ \A w \in Requests : h'[w] = Idle
    BY <1>3, IdleTyped DEF Crash
  <2>3. tbl' = tbl /\ asset' = asset /\ writes' = writes /\ fired' = {}
    BY <1>3 DEF Crash
  <2>4. Located' /\ OwnsNoClaim'
    BY <2>2, IdleTyped DEF Located, OwnsNoClaim
  <2> QED
    BY <1>0, <2>1, <2>2, <2>3, <2>4 DEF IInv, TypeOK, OneCell, ClaimStep
<1>4. CASE ExpireStale
  <2> DEFINE S == {i \in Ips : Due(i)}
  <2>1. /\ S \in SUBSET Ips /\ UpdateMany(S, "expired")
        /\ UNCHANGED <<asset, fired, h, writes, crashes>>
    BY <1>4 DEF ExpireStale
  <2>2. /\ tbl' \in Table /\ OneCell' /\ Descends
        /\ \A i \in Ips \ S : tbl'[i] = tbl[i]
        /\ \A i \in S : tbl'[i] = tbl[i] \/ tbl'[i]["expired"] = tbl[i]["active"]
    BY <1>0, <2>1, UpdateManyTable
  <2>3. Spared
    BY <1>0, <2>2, DescendsSpares
  <2>4. ClaimStep
    BY <2>2 DEF ClaimStep, Due
  <2>5. TypeOK'
    BY <1>0, <2>1, <2>2 DEF TypeOK, Table
  <2>6. OwnsNoClaim'
    <3> SUFFICES ASSUME NEW v \in Requests
                 PROVE  /\ \A o \in h[v].owned : StaysOurs(o.id)
                        /\ h[v].pc = "s_release" => StaysOurs(h[v].id)
      BY <2>1 DEF OwnsNoClaim, NotManual, StaysOurs
    <3>1. \A o \in h[v].owned : StaysOurs(o.id)
      BY <1>0, <2>3, HandlerFields DEF OwnsNoClaim, Spared
    <3>2. ASSUME h[v].pc = "s_release" PROVE StaysOurs(h[v].id)
      <4>1. CASE h[v].id = 0
        BY <2>5, <4>1, CellFieldsNext DEF StaysOurs
      <4>2. CASE h[v].id # 0
        BY <1>0, <2>3, <3>2, <4>2, HandlerFields DEF Spared, OwnsNoClaim
      <4> QED
        BY <4>1, <4>2
    <3> QED
      BY <3>1, <3>2
  <2>7. Located'
    BY <1>0, <2>1 DEF Located
  <2> QED
    BY <2>2, <2>4, <2>5, <2>6, <2>7 DEF IInv
<1> QED
  BY <1>1, <1>2, <1>3, <1>4

-----------------------------------------------------------------------------

\* The table starts empty and nothing runs.
LEMMA InitKeeps == Init => IInv
<1> SUFFICES ASSUME Init PROVE IInv
  OBVIOUS
<1>1. TypeOK
  BY IdleTyped, BoundsAssumption DEF Init, TypeOK, Asset
<1>2. OneCell
  BY DEF Init, OneCell, NoRow
<1>3. Located /\ OwnsNoClaim
  BY IdleTyped DEF Init, Located, OwnsNoClaim
<1> QED
  BY <1>1, <1>2, <1>3 DEF IInv

\* Every step keeps the invariant and the operators' claims.
LEMMA StepKeeps ==
  ASSUME IInv, Next
  PROVE  IInv' /\ ClaimStep
<1>0. UNCHANGED mix
  BY DEF Next
<1>1. ASSUME NEW w \in Requests, Start(w) PROVE IInv' /\ ClaimStep
  BY <1>0, <1>1, CreateKeeps, ReleaseKeeps, DeleteKeeps DEF Start
<1>2. ASSUME NEW w \in Requests, Continue(w) PROVE IInv' /\ ClaimStep
  BY <1>0, <1>2, CreateKeeps, ReleaseKeeps, ReconcileKeeps, DeleteKeeps DEF Continue
<1>3. ASSUME NEW a \in Assets, Reconcile(a) PROVE IInv' /\ ClaimStep
  BY <1>0, <1>3, ReconcileKeeps DEF Reconcile
<1> QED
  BY <1>0, <1>1, <1>2, <1>3, EnvironmentKeeps DEF Next, Step

\* A step that changes nothing keeps the invariant.
LEMMA StutterKeeps ==
  ASSUME IInv, UNCHANGED vars
  PROVE  IInv'
BY DEF IInv, vars, TypeOK, OneCell, Located, OwnsNoClaim, NotManual

\* A row is in one cell of the table, and the rows that a reconcile, a delete
\* or a sync is going to release are never operators' rows, however the
\* functions interleave.
THEOREM Inductive == Spec => []IInv
<1>1. IInv /\ [Next]_vars => IInv'
  BY StepKeeps, StutterKeeps
<1> QED
  BY <1>1, InitKeeps, PTL DEF Spec

\* A row an operator created leaves "active" only by a release asked for that
\* very row or by expiry: no racing create, no discovery and no reconcile takes
\* an operator's claim away, for any number of addresses, assets, functions
\* that overlap and restarts.
THEOREM ClaimKeptHolds == Spec => ClaimKept
<1>1. IInv /\ [Next]_vars => [ClaimStep]_vars
  BY StepKeeps
<1> QED
  BY <1>1, Inductive, PTL DEF Spec, ClaimKept

=============================================================================
