------------------------ MODULE ReservationPushProofs ------------------------
(***************************************************************************)
(* Proofs about ReservationPush: type correctness, the unique key of the   *)
(* reservations table, and that a pointer to a device entry always means   *)
(* the address it was stored for (PinnedDistinct, AimedAtOwnIp).           *)
(***************************************************************************)
EXTENDS ReservationPush, TLAPS

(* IInv, with the witness f of EntryOwner made explicit and the state      *)
(* passed as parameters, one predicate per kind of object.                 *)

Claim(n, f, e, ip) == e # 0 => f[e] = ip /\ e < n

RowGood(n, f, row) ==
  /\ row \in Row
  /\ row.status # "unborn" => row.ip \in Ips /\ row.mac \in Macs
  /\ Claim(n, f, row.entry, row.ip)

EntryGood(n, f, d) == d \in Entry /\ f[d.id] = d.ip /\ d.id < n

RowPcs == {"c_preflight", "p_list", "p_post", "p_verify", "p_end", "u_list", "u_put",
           "u_verify", "u_write", "r_read", "r_delete", "r_commit"}
IpPcs == {"c_insert", "p_list", "p_post", "p_verify", "c_preflight", "u_list", "u_put",
          "u_verify", "u_write"}

HandlerGood(t, n, f, hw) ==
  /\ hw \in Handler
  /\ hw.row # None => t[hw.row].status # "unborn" /\ hw.ip = t[hw.row].ip
  /\ \A s \in hw.todo : /\ t[s.row].status # "unborn"
                        /\ s.r.ip = t[s.row].ip
                        /\ s.r.mac \in Macs
  /\ hw.pc \in RowPcs => hw.row \in Rows
  /\ hw.pc \in IpPcs => hw.ip \in Ips /\ hw.mac \in Macs
  /\ Claim(n, f, hw.entry, hw.ip)
  /\ \A x \in hw.fresh : Claim(n, f, x.entry, x.ip)

Owners == [Ids -> Ips \cup {None}]

TableGood(t, n, f) ==
  /\ t \in [Rows -> Row]
  /\ \A r \in Rows : RowGood(n, f, t[r])
  /\ UniqueKey(t)

\* The part of the state no proof below has to think about.
ScalarsOK ==
  /\ nextId \in 1..(MaxEntry + 1)
  /\ cancels \subseteq Rows
  /\ gate \in GateStates
  /\ hookDue \in BOOLEAN
  /\ pushOn \in BOOLEAN
  /\ disturb \in 0..MaxDisturb

Good(f) ==
  /\ TableGood(rows, nextId, f)
  /\ \A d \in dev : EntryGood(nextId, f, d)
  /\ DOMAIN h = Workers
  /\ h = [w \in Workers |-> h[w]]
  /\ \A w \in Workers : HandlerGood(rows, nextId, f, h[w])
  /\ ScalarsOK

\* A row keeps its address once it is born.
Grows(t, u) ==
  \A r \in Rows : t[r].status # "unborn" => u[r].status # "unborn" /\ u[r].ip = t[r].ip

\* The inductive invariant is the same as Good for some witness.
LEMMA GoodIsIInv == IInv <=> \E f \in Owners : Good(f)
<1>1. ASSUME IInv PROVE \E f \in Owners : Good(f)
  <2>1. PICK f \in Owners : Explains(f)
    BY <1>1 DEF IInv, EntryOwner, Owners
  <2>2. TableGood(rows, nextId, f)
    BY <1>1, <2>1 DEF IInv, TypeOK, BornTyped, OneRowPerStatus, Explains, TableGood,
       RowGood, Claim
  <2>3. \A d \in dev : EntryGood(nextId, f, d)
    BY <1>1, <2>1 DEF IInv, TypeOK, Explains, EntryGood
  <2>4. \A w \in Workers : HandlerGood(rows, nextId, f, h[w])
    BY <1>1, <2>1 DEF IInv, TypeOK, HandlerRow, SnapRow, Targeted, Explains,
       HandlerGood, Claim, RowPcs, IpPcs
  <2>5. ScalarsOK /\ DOMAIN h = Workers /\ h = [w \in Workers |-> h[w]]
    BY <1>1 DEF IInv, TypeOK, ScalarsOK
  <2> QED
    BY <2>2, <2>3, <2>4, <2>5 DEF Good
<1>2. ASSUME NEW f \in Owners, Good(f) PROVE IInv
  <2>1. TypeOK
    BY <1>2 DEF Good, TableGood, EntryGood, HandlerGood, ScalarsOK, TypeOK
  <2>2. BornTyped /\ OneRowPerStatus
    BY <1>2 DEF Good, TableGood, RowGood, BornTyped, OneRowPerStatus
  <2>3. HandlerRow /\ SnapRow
    BY <1>2 DEF Good, HandlerGood, HandlerRow, SnapRow
  <2>4. Targeted
    BY <1>2 DEF Good, HandlerGood, Targeted, RowPcs, IpPcs
  <2>5. EntryOwner
    BY <1>2 DEF Good, TableGood, RowGood, HandlerGood, EntryGood, Claim, EntryOwner,
       Explains, Owners
  <2> QED
    BY <2>1, <2>2, <2>3, <2>4, <2>5 DEF IInv
<1> QED
  BY <1>1, <1>2

-----------------------------------------------------------------------------
(* Frames: what is left to show when a step has a familiar shape.          *)

\* A handler stays good when the table grows around it.
LEMMA HandlerFrame ==
  ASSUME NEW t, NEW u, NEW n, NEW f, NEW hw, HandlerGood(t, n, f, hw), Grows(t, u),
         t \in [Rows -> Row]
  PROVE  HandlerGood(u, n, f, hw)
<1>1. hw.row # None => u[hw.row].status # "unborn" /\ hw.ip = u[hw.row].ip
  BY DEF HandlerGood, Grows, Handler
<1>2. \A s \in hw.todo : u[s.row].status # "unborn" /\ s.r.ip = u[s.row].ip /\ s.r.mac \in Macs
  BY DEF HandlerGood, Grows, Handler, Snap
<1> QED
  BY <1>1, <1>2 DEF HandlerGood

\* The step of one handler that allocates no entry id.
LEMMA StepFrame ==
  ASSUME NEW f \in Owners, Good(f), NEW w \in Workers, NEW hw,
         h' = [h EXCEPT ![w] = hw],
         TableGood(rows', nextId, f), Grows(rows, rows'),
         HandlerGood(rows', nextId, f, hw),
         \A d \in dev' : EntryGood(nextId, f, d),
         nextId' = nextId, ScalarsOK'
  PROVE  Good(f)'
<1>1. DOMAIN h' = Workers /\ h' = [v \in Workers |-> h'[v]]
  BY DEF Good
<1>2. ASSUME NEW v \in Workers PROVE HandlerGood(rows', nextId', f, h'[v])
  <2>1. CASE v = w
    BY <2>1 DEF Good
  <2>2. CASE v # w
    <3>1. h'[v] = h[v] /\ HandlerGood(rows, nextId, f, h[v]) /\ rows \in [Rows -> Row]
      BY <2>2 DEF Good, TableGood
    <3> QED
      BY <3>1, HandlerFrame
  <2> QED
    BY <2>1, <2>2
<1> QED
  BY <1>1, <1>2 DEF Good

\* A step that leaves the handlers alone.
LEMMA TableFrame ==
  ASSUME NEW f \in Owners, Good(f), h' = h,
         TableGood(rows', nextId, f), Grows(rows, rows'),
         dev' = dev, nextId' = nextId, ScalarsOK'
  PROVE  Good(f)'
<1>1. ASSUME NEW v \in Workers PROVE HandlerGood(rows', nextId', f, h'[v])
  <2>1. HandlerGood(rows, nextId, f, h[v]) /\ rows \in [Rows -> Row]
    BY DEF Good, TableGood
  <2> QED
    BY <2>1, HandlerFrame
<1> QED
  BY <1>1 DEF Good

\* A row update that keeps the address and the status, or deletes the row.
LEMMA WriteFrame ==
  ASSUME NEW f \in Owners, TableGood(rows, nextId, f), NEW r, NEW row, Write(r, row),
         Exists(r) => /\ r \in Rows
                      /\ row \in Row
                      /\ row.ip = rows[r].ip
                      /\ row.status \in {rows[r].status, "deleted"}
                      /\ row.mac \in Macs
                      /\ Claim(nextId, f, row.entry, row.ip)
  PROVE  TableGood(rows', nextId, f) /\ Grows(rows, rows')
<1>1. CASE ~Exists(r)
  BY <1>1 DEF Write, Grows
<1>2. CASE Exists(r)
  <2>0. rows[r].status \notin {"unborn", "deleted"} /\ r \in Rows
    BY <1>2 DEF Exists
  <2>1. rows' \in [Rows -> Row] /\ \A q \in Rows : rows'[q] = IF q = r THEN row ELSE rows[q]
    BY <1>2 DEF Write, TableGood
  <2>2. Grows(rows, rows')
    BY <1>2, <2>0, <2>1 DEF Grows
  <2>3. \A q \in Rows : RowGood(nextId, f, rows'[q])
    BY <1>2, <2>0, <2>1 DEF TableGood, RowGood
  <2>4. UniqueKey(rows')
    BY <1>2, <2>0, <2>1 DEF TableGood, UniqueKey
  <2> QED
    BY <2>1, <2>2, <2>3, <2>4 DEF TableGood
<1> QED
  BY <1>1, <1>2

\* An insert, guarded by the absence of an active row at the address.
LEMMA InsertFrame ==
  ASSUME NEW f \in Owners, TableGood(rows, nextId, f), NEW r \in Rows, NEW row \in Row,
         rows[r].status = "unborn", rows' = [rows EXCEPT ![r] = row],
         row.ip \in Ips, row.mac \in Macs, row.status = "active", row.entry = 0,
         ActiveAt(row.ip) = {}
  PROVE  TableGood(rows', nextId, f) /\ Grows(rows, rows')
<1>1. rows' \in [Rows -> Row] /\ \A q \in Rows : rows'[q] = IF q = r THEN row ELSE rows[q]
  BY DEF TableGood
<1>2. Grows(rows, rows')
  BY <1>1 DEF Grows
<1>3. \A q \in Rows : RowGood(nextId, f, rows'[q])
  BY <1>1 DEF TableGood, RowGood, Claim
<1>4. \A q \in Rows : rows[q].ip = row.ip => rows[q].status # "active"
  BY DEF ActiveAt, Active
<1>5. UniqueKey(rows')
  BY <1>1, <1>4 DEF TableGood, UniqueKey
<1> QED
  BY <1>1, <1>2, <1>3, <1>5 DEF TableGood

\* The idle slot is always good.
LEMMA IdleGood ==
  ASSUME NEW t, NEW n, NEW f
  PROVE  HandlerGood(t, n, f, Idle)
BY DEF HandlerGood, Idle, Handler, Pcs, RowPcs, IpPcs, Claim

\* The unchanged table.
LEMMA SameTable ==
  ASSUME NEW f \in Owners, Good(f), rows' = rows
  PROVE  TableGood(rows', nextId, f) /\ Grows(rows, rows')
BY DEF Good, Grows

\* The bound on disturbances.
LEMMA DisturbBound ==
  ASSUME ScalarsOK, NEW k, Disturb(k) \/ Calm
  PROVE  disturb' \in 0..MaxDisturb
BY BoundsAssumption DEF ScalarsOK, Disturb, Calm

\* A step that changes nothing but one handler (and counts a disturbance).
LEMMA HandlerOnly ==
  ASSUME NEW f \in Owners, Good(f), NEW w \in Workers, NEW hw, Become(w, hw),
         HandlerGood(rows, nextId, f, hw),
         UNCHANGED <<rows, dev, nextId, cancels, gate, hookDue, pushOn>>,
         disturb' \in 0..MaxDisturb
  PROVE  Good(f)'
<1>1. TableGood(rows', nextId, f) /\ Grows(rows, rows') /\ rows' = rows
  BY SameTable
<1>2. nextId' = nextId /\ ScalarsOK' /\ \A d \in dev' : EntryGood(nextId, f, d)
  BY DEF Good, ScalarsOK
<1> QED
  BY <1>1, <1>2, StepFrame DEF Become

\* A step that writes one row and moves one handler.
LEMMA RowAndHandler ==
  ASSUME NEW f \in Owners, Good(f), NEW w \in Workers, NEW hw, Become(w, hw),
         TableGood(rows', nextId, f), Grows(rows, rows'),
         HandlerGood(rows, nextId, f, hw),
         UNCHANGED <<dev, nextId, gate, hookDue, pushOn, disturb>>, cancels' \subseteq Rows
  PROVE  Good(f)'
<1>1. HandlerGood(rows', nextId, f, hw)
  BY HandlerFrame DEF Good, TableGood
<1>2. nextId' = nextId /\ ScalarsOK' /\ \A d \in dev' : EntryGood(nextId, f, d)
  BY DEF Good, ScalarsOK
<1> QED
  BY <1>1, <1>2, StepFrame DEF Become

\* What is known of the handler of a step.
LEMMA Mine ==
  ASSUME NEW f \in Owners, Good(f), NEW w \in Workers
  PROVE  /\ HandlerGood(rows, nextId, f, h[w]) /\ TableGood(rows, nextId, f) /\ ScalarsOK
         /\ h[w] \in Handler
         /\ rows \in [Rows -> Row]
         /\ \A d \in dev : EntryGood(nextId, f, d)
         /\ h[w].row \in Rows => RowGood(nextId, f, rows[h[w].row])
BY DEF Good, HandlerGood, TableGood

\* A live row has an address and a MAC.
LEMMA LiveRow ==
  ASSUME NEW f \in Owners, TableGood(rows, nextId, f), NEW r \in Rows, Exists(r) \/ Active(r)
  PROVE  /\ rows[r] \in Row /\ rows[r].ip \in Ips /\ rows[r].mac \in Macs
         /\ rows[r].status # "unborn" /\ Claim(nextId, f, rows[r].entry, rows[r].ip)
BY DEF TableGood, RowGood, Exists, Active

Outs == {"none", "ok", "transient", "permanent", "absent", "removed", "failed"}

\* Editing the control fields of a handler gives a handler.
LEMMA EditHandler ==
  ASSUME NEW hw \in Handler, NEW pc \in Pcs, NEW out \in Outs, NEW e \in Ids \cup {0}
  PROVE  /\ [hw EXCEPT !.pc = pc] \in Handler
         /\ [hw EXCEPT !.pc = pc, !.out = out] \in Handler
         /\ [hw EXCEPT !.pc = pc, !.entry = e] \in Handler
         /\ [hw EXCEPT !.pc = pc, !.out = out, !.entry = e] \in Handler
<1>1. [hw EXCEPT !.pc = pc] \in Handler
  BY Zenon DEF Handler
<1>2. [hw EXCEPT !.pc = pc, !.out = out] \in Handler
  BY Zenon DEF Handler, Outs
<1>3. [hw EXCEPT !.pc = pc, !.entry = e] \in Handler
  BY Zenon DEF Handler
<1>4. [hw EXCEPT !.pc = pc, !.out = out, !.entry = e] \in Handler
  BY Zenon DEF Handler, Outs
<1> QED
  BY <1>1, <1>2, <1>3, <1>4

\* Shrinking the work list of a handler gives a handler.
LEMMA ShrinkHandler ==
  ASSUME NEW hw \in Handler, NEW x
  PROVE  /\ [hw EXCEPT !.todo = @ \ {x}] \in Handler
         /\ [hw EXCEPT !.fresh = @ \ {x}] \in Handler
         /\ [hw EXCEPT !.gone = @ \ {x}] \in Handler
<1>1. hw.todo \ {x} \in SUBSET Snap /\ hw.fresh \ {x} \in SUBSET Fresh
      /\ hw.gone \ {x} \in SUBSET Rows
  BY DEF Handler
<1>2. ASSUME NEW T \in SUBSET Snap PROVE [hw EXCEPT !.todo = T] \in Handler
  BY Zenon DEF Handler
<1>3. ASSUME NEW T \in SUBSET Fresh PROVE [hw EXCEPT !.fresh = T] \in Handler
  BY Zenon DEF Handler
<1>4. ASSUME NEW T \in SUBSET Rows PROVE [hw EXCEPT !.gone = T] \in Handler
  BY Zenon DEF Handler
<1> QED
  BY <1>1, <1>2, <1>3, <1>4

\* A handler that moves on with the row, address and MAC it has is still good.
LEMMA MovedGood ==
  ASSUME NEW f \in Owners, Good(f), NEW w \in Workers, NEW hw \in Handler,
         hw.row = h[w].row, hw.ip = h[w].ip, hw.mac = h[w].mac,
         hw.todo \subseteq h[w].todo, hw.fresh \subseteq h[w].fresh,
         Claim(nextId, f, hw.entry, hw.ip),
         hw.pc \in RowPcs => h[w].pc \in RowPcs,
         hw.pc \in IpPcs => h[w].pc \in IpPcs
  PROVE  HandlerGood(rows, nextId, f, hw)
<1>1. HandlerGood(rows, nextId, f, h[w])
  BY Mine
<1> QED
  BY <1>1 DEF HandlerGood

-----------------------------------------------------------------------------
(* Every action preserves Good, for the same f except where an id is       *)
(* allocated.  Each proof shows what becomes of the table and of the       *)
(* handler and leaves the rest to the frames.                              *)

\* createReservation begins.
LEMMA CreateBeginGood ==
  ASSUME NEW f \in Owners, Good(f), NEW w \in Workers, NEW ip \in Ips, NEW mac \in Macs,
         NEW exp \in BOOLEAN, CreateBegin(w, ip, mac, exp)
  PROVE  Good(f)'
<1> DEFINE hw == [Idle EXCEPT !.pc = "c_insert", !.op = "create", !.ip = ip,
                              !.mac = mac, !.exp = exp, !.on = pushOn]
<1>1. TableGood(rows', nextId, f) /\ Grows(rows, rows')
  BY SameTable DEF CreateBegin
<1>2. HandlerGood(rows', nextId, f, hw)
  <2>1. pushOn \in BOOLEAN
    BY DEF Good, ScalarsOK
  <2>2. hw \in Handler
    BY <2>1 DEF Idle, Handler, Pcs
  <2>3. hw.row = None /\ hw.todo = {} /\ hw.fresh = {} /\ hw.entry = 0
        /\ hw.pc = "c_insert" /\ hw.ip = ip /\ hw.mac = mac
    BY DEF Idle
  <2> QED
    BY <2>2, <2>3 DEF HandlerGood, RowPcs, IpPcs, Claim
<1>3. h' = [h EXCEPT ![w] = hw] /\ nextId' = nextId /\ ScalarsOK'
  BY DEF CreateBegin, Become, Good, ScalarsOK
<1>4. \A d \in dev' : EntryGood(nextId, f, d)
  BY DEF CreateBegin, Good
<1> HIDE DEF hw
<1> QED
  BY <1>1, <1>2, <1>3, <1>4, StepFrame

\* The insert of createReservation.
LEMMA CreateInsertGood ==
  ASSUME NEW f \in Owners, Good(f), NEW w \in Workers, CreateInsert(w)
  PROVE  Good(f)'
<1>1. nextId' = nextId /\ ScalarsOK' /\ \A d \in dev' : EntryGood(nextId, f, d)
  BY DEF CreateInsert, Good, ScalarsOK
<1>2. CASE Finish(w) /\ UNCHANGED rows
  BY <1>1, <1>2, SameTable, IdleGood, StepFrame DEF Finish, Become
<1>3. CASE \E r \in Rows :
             /\ rows[r].status = "unborn"
             /\ rows' = [rows EXCEPT ![r] =
                  [Unborn EXCEPT !.ip = h[w].ip, !.mac = h[w].mac, !.exp = h[w].exp,
                                 !.status = "active"]]
             /\ IF h[w].on THEN Become(w, [h[w] EXCEPT !.pc = "c_preflight", !.row = r])
                           ELSE Finish(w)
             /\ ActiveAt(h[w].ip) = {}
  <2>1. PICK r \in Rows :
             /\ rows[r].status = "unborn"
             /\ rows' = [rows EXCEPT ![r] =
                  [Unborn EXCEPT !.ip = h[w].ip, !.mac = h[w].mac, !.exp = h[w].exp,
                                 !.status = "active"]]
             /\ IF h[w].on THEN Become(w, [h[w] EXCEPT !.pc = "c_preflight", !.row = r])
                           ELSE Finish(w)
             /\ ActiveAt(h[w].ip) = {}
    BY <1>3
  <2> DEFINE row == [Unborn EXCEPT !.ip = h[w].ip, !.mac = h[w].mac, !.exp = h[w].exp,
                                   !.status = "active"]
  <2> DEFINE hw == [h[w] EXCEPT !.pc = "c_preflight", !.row = r]
  <2>2. HandlerGood(rows, nextId, f, h[w]) /\ h[w].pc = "c_insert"
    BY DEF Good, CreateInsert
  <2>3. /\ row \in Row /\ row.ip \in Ips /\ row.mac \in Macs /\ row.status = "active"
        /\ row.entry = 0 /\ row.ip = h[w].ip
    BY <2>2 DEF HandlerGood, Handler, IpPcs, Unborn, Row
  <2>4. TableGood(rows', nextId, f) /\ Grows(rows, rows')
    <3>1. TableGood(rows, nextId, f) /\ ActiveAt(row.ip) = {}
      BY <2>1, <2>3 DEF Good
    <3> HIDE DEF row
    <3> QED
      BY <2>1, <2>3, <3>1, InsertFrame DEF row
  <2>5. CASE h[w].on
    <3>1. HandlerGood(rows', nextId, f, h[w])
      BY <2>2, <2>4, HandlerFrame DEF Good, TableGood
    <3>2. rows'[r] = row
      BY <2>1 DEF Good, TableGood
    <3>3. HandlerGood(rows', nextId, f, hw)
      BY <2>2, <2>3, <3>1, <3>2, NoneAssumption
         DEF HandlerGood, Handler, Pcs, RowPcs, IpPcs
    <3>4. h' = [h EXCEPT ![w] = hw]
      BY <2>1, <2>5 DEF Become
    <3> HIDE DEF hw
    <3> QED
      BY <1>1, <2>4, <3>3, <3>4, StepFrame
  <2>6. CASE ~h[w].on
    BY <1>1, <2>1, <2>4, <2>6, IdleGood, StepFrame DEF Finish, Become
  <2> QED
    BY <2>5, <2>6
<1> QED
  BY <1>2, <1>3 DEF CreateInsert

\* firewallKnownDown queues the row, otherwise the push begins.
LEMMA CreatePreflightGood ==
  ASSUME NEW f \in Owners, Good(f), NEW w \in Workers, CreatePreflight(w)
  PROVE  Good(f)'
<1>1. h[w].pc = "c_preflight" /\ h[w].row \in Rows /\ h[w].ip \in Ips /\ h[w].mac \in Macs
  BY Mine DEF CreatePreflight, HandlerGood, RowPcs, IpPcs
<1>2. UNCHANGED <<dev, nextId, cancels, gate, hookDue, pushOn, disturb>>
      /\ cancels' \subseteq Rows /\ disturb' \in 0..MaxDisturb
  BY Mine DEF CreatePreflight, ScalarsOK
<1>3. CASE Monitored /\ gate = "down"
  <2> DEFINE row == [rows[h[w].row] EXCEPT !.to = TRUE, !.push = "pending", !.tried = FALSE]
  <2>1. Write(h[w].row, row) /\ Become(w, Idle)
    BY <1>3 DEF CreatePreflight, Finish
  <2>2. Exists(h[w].row) => /\ row \in Row
                            /\ row.ip = rows[h[w].row].ip
                            /\ row.status = rows[h[w].row].status
                            /\ row.mac \in Macs
                            /\ Claim(nextId, f, row.entry, row.ip)
    BY <1>1, Mine, LiveRow DEF Row, Claim
  <2> HIDE DEF row
  <2>3. TableGood(rows', nextId, f) /\ Grows(rows, rows')
    BY <1>1, <2>1, <2>2, Mine, WriteFrame
  <2> QED
    BY <1>2, <2>1, <2>3, IdleGood, RowAndHandler
<1>4. CASE ~(Monitored /\ gate = "down")
  <2> DEFINE hw == [h[w] EXCEPT !.pc = "p_list"]
  <2>1. Become(w, hw) /\ rows' = rows
    BY <1>4 DEF CreatePreflight
  <2>2. HandlerGood(rows, nextId, f, hw)
    BY <1>1, Mine DEF HandlerGood, Handler, Pcs, RowPcs, IpPcs
  <2> HIDE DEF hw
  <2> QED
    BY <1>2, <2>1, <2>2, HandlerOnly
<1> QED
  BY <1>3, <1>4

\* The outcome of the create-time push.
LEMMA CreateEndGood ==
  ASSUME NEW f \in Owners, Good(f), NEW w \in Workers, CreateEnd(w)
  PROVE  Good(f)'
<1>1. h[w].pc = "p_end" /\ h[w].row \in Rows /\ h[w].entry \in Ids \cup {0}
      /\ h[w].ip = rows[h[w].row].ip /\ Claim(nextId, f, h[w].entry, h[w].ip)
  BY Mine, NoneAssumption DEF CreateEnd, HandlerGood, RowPcs, Handler
<1>2. UNCHANGED <<dev, nextId, cancels, gate, hookDue, pushOn, disturb>>
      /\ cancels' \subseteq Rows
  BY Mine DEF CreateEnd, ScalarsOK
<1>3. PICK row : /\ Write(h[w].row, row)
                 /\ row \in {Synced(rows[h[w].row], h[w].entry),
                             [rows[h[w].row] EXCEPT !.to = TRUE, !.push = "pending",
                                                    !.tried = TRUE],
                             [rows[h[w].row] EXCEPT !.status = "deleted"],
                             rows[h[w].row]}
  BY DEF CreateEnd
<1>4. Exists(h[w].row) => /\ row \in Row
                          /\ row.ip = rows[h[w].row].ip
                          /\ row.status \in {rows[h[w].row].status, "deleted"}
                          /\ row.mac \in Macs
                          /\ Claim(nextId, f, row.entry, row.ip)
  <2> SUFFICES ASSUME Exists(h[w].row)
               PROVE  /\ row \in Row
                      /\ row.ip = rows[h[w].row].ip
                      /\ row.status \in {rows[h[w].row].status, "deleted"}
                      /\ row.mac \in Macs
                      /\ Claim(nextId, f, row.entry, row.ip)
    OBVIOUS
  <2>1. /\ rows[h[w].row] \in Row /\ rows[h[w].row].mac \in Macs
        /\ Claim(nextId, f, rows[h[w].row].entry, rows[h[w].row].ip)
    BY <1>1, Mine, LiveRow
  <2>2. CASE row = Synced(rows[h[w].row], h[w].entry)
    BY <1>1, <2>1, <2>2 DEF Synced, Row, Claim
  <2>3. CASE row = [rows[h[w].row] EXCEPT !.to = TRUE, !.push = "pending", !.tried = TRUE]
    BY <2>1, <2>3 DEF Row, Claim
  <2>4. CASE row = [rows[h[w].row] EXCEPT !.status = "deleted"]
    BY <2>1, <2>4 DEF Row, Claim
  <2>5. CASE row = rows[h[w].row]
    BY <2>1, <2>5
  <2> QED
    BY <1>3, <2>2, <2>3, <2>4, <2>5
<1>5. TableGood(rows', nextId, f) /\ Grows(rows, rows')
  BY <1>1, <1>3, <1>4, Mine, WriteFrame
<1> QED
  BY <1>2, <1>5, IdleGood, RowAndHandler DEF CreateEnd, Finish

\* Ending a push attempt keeps the handler good.
LEMMA PushOutGood ==
  ASSUME NEW f \in Owners, Good(f), NEW w \in Workers, h[w].pc \in RowPcs,
         NEW out \in {"ok", "transient", "permanent"}
  PROVE  HandlerGood(rows, nextId, f, [h[w] EXCEPT !.pc = "p_end", !.out = out])
<1> DEFINE hw == [h[w] EXCEPT !.pc = "p_end", !.out = out]
<1>1. h[w] \in Handler /\ Claim(nextId, f, h[w].entry, h[w].ip)
  BY Mine DEF HandlerGood
<1>2. hw \in Handler
  BY <1>1, EditHandler DEF Pcs, Outs
<1>3. /\ hw.row = h[w].row /\ hw.ip = h[w].ip /\ hw.mac = h[w].mac /\ hw.todo = h[w].todo
      /\ hw.fresh = h[w].fresh /\ hw.entry = h[w].entry /\ hw.pc = "p_end"
  BY <1>1 DEF Handler
<1> HIDE DEF hw
<1>4. HandlerGood(rows, nextId, f, hw)
  BY <1>1, <1>2, <1>3, MovedGood DEF IpPcs
<1> QED
  BY <1>4 DEF hw

\* The collision pre-check.
LEMMA PushListGood ==
  ASSUME NEW f \in Owners, Good(f), NEW w \in Workers, PushList(w)
  PROVE  Good(f)'
<1>1. h[w].pc = "p_list" /\ h[w].pc \in RowPcs
  BY DEF PushList, RowPcs
<1>2. UNCHANGED <<rows, dev, nextId, cancels, gate, hookDue, pushOn>>
      /\ disturb' \in 0..MaxDisturb
  BY Mine, DisturbBound DEF PushList
<1>3. HandlerGood(rows, nextId, f, [h[w] EXCEPT !.pc = "p_post"])
  BY <1>1, Mine DEF HandlerGood, Handler, Pcs, RowPcs, IpPcs
<1>4. PICK hw \in {[h[w] EXCEPT !.pc = "p_end", !.out = "transient"],
                   [h[w] EXCEPT !.pc = "p_end", !.out = "permanent"],
                   [h[w] EXCEPT !.pc = "p_post"]} : Become(w, hw)
  BY DEF PushList, PushOut
<1>5. HandlerGood(rows, nextId, f, hw)
  BY <1>1, <1>3, <1>4, PushOutGood
<1> QED
  BY <1>2, <1>4, <1>5, HandlerOnly

\* The read-back.
LEMMA PushVerifyGood ==
  ASSUME NEW f \in Owners, Good(f), NEW w \in Workers, PushVerify(w)
  PROVE  Good(f)'
<1>1. h[w].pc = "p_verify" /\ h[w].pc \in RowPcs
  BY DEF PushVerify, RowPcs
<1>2. UNCHANGED <<rows, dev, nextId, cancels, gate, hookDue, pushOn>>
      /\ disturb' \in 0..MaxDisturb
  BY Mine, DisturbBound DEF PushVerify
<1>3. CASE \E out \in {"transient", "permanent"} : PushOut(w, out)
  BY <1>1, <1>2, <1>3, PushOutGood, HandlerOnly DEF PushOut
<1>4. ASSUME NEW d \in ReadBack(h[w]), d.ip = h[w].ip,
             Become(w, [h[w] EXCEPT !.pc = "p_end", !.out = "ok",
                                    !.entry = IF @ = 0 THEN d.id ELSE @])
      PROVE  Good(f)'
  <2> DEFINE e == IF h[w].entry = 0 THEN d.id ELSE h[w].entry
  <2> DEFINE hw == [h[w] EXCEPT !.pc = "p_end", !.out = "ok", !.entry = e]
  <2>1. EntryGood(nextId, f, d)
    BY <1>4, Mine DEF ReadBack
  <2>2. e \in Ids \cup {0} /\ Claim(nextId, f, e, h[w].ip)
    BY <1>4, <2>1, Mine DEF EntryGood, Entry, HandlerGood, Handler, Claim
  <2>3. Become(w, hw)
    BY <1>4
  <2>4. HandlerGood(rows, nextId, f, hw)
    <3> HIDE DEF e
    <3>0. h[w] \in Handler
      BY Mine
    <3>1. hw \in Handler
      BY <2>2, <3>0, EditHandler DEF Pcs, Outs
    <3>2. /\ hw.row = h[w].row /\ hw.ip = h[w].ip /\ hw.mac = h[w].mac
          /\ hw.todo = h[w].todo /\ hw.fresh = h[w].fresh /\ hw.entry = e /\ hw.pc = "p_end"
      BY <3>0 DEF Handler
    <3> HIDE DEF hw
    <3> QED
      BY <1>1, <2>2, <3>1, <3>2, MovedGood DEF IpPcs
  <2> HIDE DEF hw
  <2> QED
    BY <1>2, <2>3, <2>4, HandlerOnly
<1> QED
  BY <1>3, <1>4 DEF PushVerify

\* The step of one handler that changes the device as well; the entries keep
\* their addresses.
LEMMA DeviceStep ==
  ASSUME NEW f \in Owners, Good(f), NEW w \in Workers, NEW hw, Become(w, hw),
         HandlerGood(rows, nextId, f, hw),
         \A d \in dev' : EntryGood(nextId, f, d),
         UNCHANGED <<rows, nextId, cancels, gate, hookDue, pushOn>>,
         disturb' \in 0..MaxDisturb
  PROVE  Good(f)'
<1>1. TableGood(rows', nextId, f) /\ Grows(rows, rows') /\ rows' = rows
  BY SameTable
<1>2. nextId' = nextId /\ ScalarsOK'
  BY DEF Good, ScalarsOK
<1> QED
  BY <1>1, <1>2, StepFrame DEF Become

\* Allocating an id: the new witness gives it the address, and since every
\* claim is to an id below nextId, nothing that held is disturbed.
LEMMA NewId ==
  ASSUME NEW f \in Owners, Good(f), NEW ip \in Ips, nextId <= MaxEntry
  PROVE  /\ nextId \in Ids
         /\ \E g \in Owners :
              /\ g[nextId] = ip
              /\ \A e \in Ids \cup {0} : \A a :
                   Claim(nextId, f, e, a) => Claim(nextId + 1, g, e, a)
<1> DEFINE g == [f EXCEPT ![nextId] = ip]
<1>1. nextId \in Ids /\ nextId \in Nat
  BY BoundsAssumption DEF Good, ScalarsOK, Ids
<1>2. g \in Owners /\ g[nextId] = ip
  BY <1>1 DEF Owners
<1>3. ASSUME NEW e \in Ids \cup {0}, NEW a, Claim(nextId, f, e, a)
      PROVE  Claim(nextId + 1, g, e, a)
  BY <1>1, <1>3, BoundsAssumption DEF Claim, Owners, Ids
<1> HIDE DEF g
<1> QED
  BY <1>1, <1>2, <1>3

\* Everything that is good stays good for the new witness.
LEMMA NewIdGood ==
  ASSUME NEW f \in Owners, NEW g \in Owners, NEW n \in Nat,
         \A e \in Ids \cup {0} : \A a : Claim(n, f, e, a) => Claim(n + 1, g, e, a)
  PROVE  /\ \A row : RowGood(n, f, row) => RowGood(n + 1, g, row)
         /\ \A d : EntryGood(n, f, d) => EntryGood(n + 1, g, d)
         /\ \A t, hw : HandlerGood(t, n, f, hw) => HandlerGood(t, n + 1, g, hw)
<1>1. ASSUME NEW row, RowGood(n, f, row) PROVE RowGood(n + 1, g, row)
  BY <1>1 DEF RowGood, Row
<1>2. ASSUME NEW d, EntryGood(n, f, d) PROVE EntryGood(n + 1, g, d)
  <2>1. d \in Entry /\ d.id \in Ids \cup {0} /\ Claim(n, f, d.id, d.ip)
    BY <1>2 DEF EntryGood, Entry, Claim
  <2>2. Claim(n + 1, g, d.id, d.ip) /\ d.id # 0
    BY <2>1, BoundsAssumption DEF Entry, Ids
  <2> QED
    BY <2>1, <2>2 DEF EntryGood, Claim
<1>3. ASSUME NEW t, NEW hw, HandlerGood(t, n, f, hw) PROVE HandlerGood(t, n + 1, g, hw)
  <2>1. hw.entry \in Ids \cup {0} /\ \A x \in hw.fresh : x.entry \in Ids \cup {0}
    BY <1>3 DEF HandlerGood, Handler, Fresh
  <2>2. Claim(n + 1, g, hw.entry, hw.ip) /\ \A x \in hw.fresh : Claim(n + 1, g, x.entry, x.ip)
    BY <1>3, <2>1 DEF HandlerGood
  <2> QED
    BY <1>3, <2>2 DEF HandlerGood
<1> QED
  BY <1>1, <1>2, <1>3

\* The POST: the one step of Polaris that allocates an entry id.
LEMMA PushPostGood ==
  ASSUME NEW f \in Owners, Good(f), NEW w \in Workers, PushPost(w)
  PROVE  \E g \in Owners : Good(g)'
<1>1. /\ h[w].pc = "p_post" /\ h[w].row \in Rows /\ h[w].ip \in Ips /\ h[w].mac \in Macs
      /\ h[w].ip = rows[h[w].row].ip
  BY Mine, NoneAssumption DEF PushPost, HandlerGood, RowPcs, IpPcs
<1>2. UNCHANGED <<rows, cancels, gate, hookDue, pushOn>> /\ disturb' \in 0..MaxDisturb
  BY Mine, DisturbBound DEF PushPost
<1>3. HandlerGood(rows, nextId, f, [h[w] EXCEPT !.pc = "p_end", !.out = "transient"])
  BY <1>1, PushOutGood DEF RowPcs
<1>4. CASE PushOut(w, "transient") /\ UNCHANGED <<dev, nextId>>
  BY <1>2, <1>3, <1>4, HandlerOnly DEF PushOut
<1>5. CASE PostEntry(w)
  <2>1. nextId \in Nat /\ nextId <= MaxEntry /\ nextId' = nextId + 1
        /\ nextId' \in 1..(MaxEntry + 1)
    BY <1>5, Mine, BoundsAssumption DEF ScalarsOK, PostEntry
  <2>0. /\ nextId \in Ids
        /\ \E g \in Owners :
             /\ g[nextId] = h[w].ip
             /\ \A e \in Ids \cup {0} : \A a :
                  Claim(nextId, f, e, a) => Claim(nextId + 1, g, e, a)
    <3>1. h[w].ip \in Ips
      BY <1>1
    <3> QED
      BY <3>1, <2>1, NewId
  <2>2. PICK g \in Owners :
        /\ g[nextId] = h[w].ip
        /\ \A e \in Ids \cup {0} : \A a : Claim(nextId, f, e, a) => Claim(nextId + 1, g, e, a)
    BY <2>0
  <2>3. /\ \A row : RowGood(nextId, f, row) => RowGood(nextId + 1, g, row)
        /\ \A d : EntryGood(nextId, f, d) => EntryGood(nextId + 1, g, d)
        /\ \A t, hw : HandlerGood(t, nextId, f, hw) => HandlerGood(t, nextId + 1, g, hw)
    BY <2>1, <2>2, NewIdGood
  <2>4. TableGood(rows, nextId + 1, g)
    BY <2>3, Mine DEF TableGood
  <2>5. \A d \in dev' : EntryGood(nextId + 1, g, d)
    <3>1. EntryGood(nextId + 1, g, [id |-> nextId, ip |-> h[w].ip, mac |-> h[w].mac, by |-> h[w].row])
      BY <1>1, <2>1, <2>2, <2>0 DEF EntryGood, Entry
    <3> QED
      BY <1>5, <2>3, <3>1, Mine DEF PostEntry
  <2>6. PICK hw : Become(w, hw) /\ HandlerGood(rows, nextId + 1, g, hw)
    <3>1. CASE PushOut(w, "transient")
      BY <1>3, <2>3, <3>1 DEF PushOut
    <3>2. ASSUME NEW e \in {0, nextId}, Become(w, [h[w] EXCEPT !.pc = "p_verify", !.entry = e])
          PROVE  HandlerGood(rows, nextId + 1, g, [h[w] EXCEPT !.pc = "p_verify", !.entry = e])
      <4> DEFINE hw == [h[w] EXCEPT !.pc = "p_verify", !.entry = e]
      <4>1. HandlerGood(rows, nextId + 1, g, h[w]) /\ h[w] \in Handler
        BY <2>3, Mine
      <4>2. hw \in Handler
        BY <2>0, <2>2, <4>1, EditHandler DEF Pcs, Outs
      <4>3. /\ hw.row = h[w].row /\ hw.ip = h[w].ip /\ hw.mac = h[w].mac
            /\ hw.todo = h[w].todo /\ hw.fresh = h[w].fresh /\ hw.entry = e
            /\ hw.pc = "p_verify"
        BY <4>1 DEF Handler
      <4>4. Claim(nextId + 1, g, e, h[w].ip)
        BY <2>1, <2>2 DEF Claim
      <4> HIDE DEF hw
      <4>5. HandlerGood(rows, nextId + 1, g, hw)
        BY <1>1, <4>1, <4>2, <4>3, <4>4 DEF HandlerGood
      <4> QED
        BY <4>5 DEF hw
    <3>3. \/ PushOut(w, "transient")
          \/ \E e \in {0, nextId} : Become(w, [h[w] EXCEPT !.pc = "p_verify", !.entry = e])
      BY DEF PushPost
    <3> QED
      BY <3>1, <3>2, <3>3
  <2>7. h' = [v \in Workers |-> h'[v]] /\ DOMAIN h' = Workers
    BY <2>6 DEF Become, Good
  <2>8. \A v \in Workers : HandlerGood(rows, nextId + 1, g, h'[v])
    BY <2>3, <2>6 DEF Become, Good
  <2>9. ScalarsOK'
    BY <1>2, <2>1, Mine DEF ScalarsOK
  <2>10. Good(g)'
    BY <1>2, <2>1, <2>4, <2>5, <2>7, <2>8, <2>9 DEF Good
  <2> QED
    BY <2>2, <2>10
<1> QED
  BY <1>4, <1>5 DEF PushPost

\* An entry added on the FortiGate itself allocates an id too.
LEMMA AdminAddGood ==
  ASSUME NEW f \in Owners, Good(f), NEW ip \in Ips, NEW mac \in Macs, AdminAdd(ip, mac)
  PROVE  \E g \in Owners : Good(g)'
<1>1. /\ nextId \in Nat /\ nextId <= MaxEntry /\ nextId' = nextId + 1
      /\ nextId' \in 1..(MaxEntry + 1) /\ disturb' \in 0..MaxDisturb
  BY BoundsAssumption, DisturbBound DEF ScalarsOK, AdminAdd, Good
<1>0. /\ nextId \in Ids
      /\ \E g \in Owners :
           /\ g[nextId] = ip
           /\ \A e \in Ids \cup {0} : \A a :
                Claim(nextId, f, e, a) => Claim(nextId + 1, g, e, a)
  BY <1>1, NewId
<1>2. PICK g \in Owners :
      /\ g[nextId] = ip
      /\ \A e \in Ids \cup {0} : \A a : Claim(nextId, f, e, a) => Claim(nextId + 1, g, e, a)
  BY <1>0
<1>3. /\ \A row : RowGood(nextId, f, row) => RowGood(nextId + 1, g, row)
      /\ \A d : EntryGood(nextId, f, d) => EntryGood(nextId + 1, g, d)
      /\ \A t, hw : HandlerGood(t, nextId, f, hw) => HandlerGood(t, nextId + 1, g, hw)
  BY <1>1, <1>2, NewIdGood
<1>4. TableGood(rows, nextId + 1, g)
  BY <1>3 DEF Good, TableGood
<1>5. \A d \in dev' : EntryGood(nextId + 1, g, d)
  <2>1. EntryGood(nextId + 1, g, [id |-> nextId, ip |-> ip, mac |-> mac, by |-> Admin])
    BY <1>1, <1>2, <1>0 DEF EntryGood, Entry
  <2> QED
    BY <1>3, <2>1 DEF Good, AdminAdd
<1>6. \A v \in Workers : HandlerGood(rows, nextId + 1, g, h[v])
  BY <1>3 DEF Good
<1>7. ScalarsOK' /\ h' = h /\ rows' = rows
  BY <1>1 DEF Good, ScalarsOK, AdminAdd
<1>8. Good(g)'
  BY <1>1, <1>4, <1>5, <1>6, <1>7 DEF Good
<1> QED
  BY <1>2, <1>8

-----------------------------------------------------------------------------
(* The retry queue.                                                        *)

\* A snapshot of live rows is good work.
LEMMA SnapsGood ==
  ASSUME NEW f \in Owners, Good(f), NEW S \in SUBSET Rows, \A r \in S : Active(r)
  PROVE  LET todo == {SnapOf(r) : r \in S} IN
         /\ todo \in SUBSET Snap
         /\ \A s \in todo : /\ rows[s.row].status # "unborn"
                            /\ s.r.ip = rows[s.row].ip
                            /\ s.r.mac \in Macs
<1>1. TableGood(rows, nextId, f) /\ pushOn \in BOOLEAN
  BY DEF Good, ScalarsOK
<1>2. ASSUME NEW r \in S
      PROVE  /\ SnapOf(r) \in Snap
             /\ rows[SnapOf(r).row].status # "unborn"
             /\ SnapOf(r).r.ip = rows[SnapOf(r).row].ip
             /\ SnapOf(r).r.mac \in Macs
  <2>1. rows[r] \in Row /\ rows[r].mac \in Macs /\ rows[r].status # "unborn"
    BY <1>1, LiveRow
  <2>2. SnapOf(r).row = r /\ SnapOf(r).r = rows[r]
    BY DEF SnapOf
  <2>3. SnapOf(r) \in Snap
    BY <1>1, <2>1, Zenon DEF SnapOf, Snap
  <2> QED
    BY <2>1, <2>2, <2>3
<1> QED
  BY <1>2

\* A slot that starts on such work is good.
LEMMA BatchGood ==
  ASSUME NEW f \in Owners, Good(f), NEW S \in SUBSET Rows, \A r \in S : Active(r),
         NEW pc \in {"q_next", "f_list"}, NEW op \in {"tick", "hook", "now", "refresh"}
  PROVE  HandlerGood(rows, nextId, f,
           [Idle EXCEPT !.pc = pc, !.op = op, !.todo = {SnapOf(r) : r \in S}])
<1> DEFINE T == {SnapOf(r) : r \in S}
<1>1. /\ T \in SUBSET Snap
      /\ \A s \in T : /\ rows[s.row].status # "unborn"
                      /\ s.r.ip = rows[s.row].ip
                      /\ s.r.mac \in Macs
  BY SnapsGood
<1> HIDE DEF T
<1> DEFINE hw == [Idle EXCEPT !.pc = pc, !.op = op, !.todo = T]
<1>2. hw \in Handler
  <2>1. pc \in Pcs
    BY DEF Pcs
  <2> QED
    BY <1>1, <2>1 DEF Idle, Handler
<1>3. /\ hw.row = None /\ hw.todo = T /\ hw.fresh = {} /\ hw.entry = 0 /\ hw.pc = pc
  BY DEF Idle
<1> HIDE DEF hw
<1>4. HandlerGood(rows, nextId, f, hw)
  BY <1>1, <1>2, <1>3 DEF HandlerGood, RowPcs, IpPcs, Claim
<1> QED
  BY <1>4 DEF hw, T

\* The scan of the queue.
LEMMA ScanGood ==
  ASSUME NEW f \in Owners, Good(f), NEW w \in Workers, NEW op \in {"tick", "hook"},
         Scan(w, op)
  PROVE  \E hw : Become(w, hw) /\ HandlerGood(rows, nextId, f, hw)
<1> DEFINE S == {q \in Rows : Queued(q)}
<1>1. S \in SUBSET Rows /\ \A r \in S : Active(r)
  BY DEF Queued
<1>2. Become(w, [Idle EXCEPT !.pc = "q_next", !.op = op, !.todo = {SnapOf(r) : r \in S}])
  BY DEF Scan
<1> HIDE DEF S
<1> QED
  BY <1>1, <1>2, BatchGood

\* The retry tick begins.
LEMMA TickBeginGood ==
  ASSUME NEW f \in Owners, Good(f), TickBegin
  PROVE  Good(f)'
<1>1. Tick \in Workers /\ UNCHANGED <<rows, dev, nextId, cancels, gate, hookDue, pushOn>>
      /\ disturb' \in 0..MaxDisturb
  BY DEF TickBegin, Workers, Good, ScalarsOK
<1>2. PICK hw : Become(Tick, hw) /\ HandlerGood(rows, nextId, f, hw)
  BY <1>1, ScanGood DEF TickBegin
<1> QED
  BY <1>1, <1>2, HandlerOnly

\* The up-hook begins.
LEMMA HookBeginGood ==
  ASSUME NEW f \in Owners, Good(f), NEW w \in Workers, HookBegin(w)
  PROVE  Good(f)'
<1>1. UNCHANGED <<rows, dev, nextId>> /\ ScalarsOK'
  BY DEF HookBegin, Good, ScalarsOK
<1>2. TableGood(rows', nextId, f) /\ Grows(rows, rows') /\ \A d \in dev' : EntryGood(nextId, f, d)
  BY <1>1, SameTable DEF Good
<1>3. CASE Scan(w, "hook")
  <2>1. PICK hw : Become(w, hw) /\ HandlerGood(rows, nextId, f, hw)
    BY <1>3, ScanGood
  <2> QED
    BY <1>1, <1>2, <2>1, StepFrame DEF Become
<1>4. CASE UNCHANGED h
  BY <1>1, <1>2, <1>4, TableFrame
<1> QED
  BY <1>3, <1>4 DEF HookBegin

\* Columns a write may change without touching the key or the pointer.
LEMMA EditRow ==
  ASSUME NEW row \in Row, NEW p \in {"null", "pending", "synced", "failed_permanent"},
         NEW t \in BOOLEAN, NEW o \in BOOLEAN
  PROVE  LET Same(x) == /\ x \in Row /\ x.ip = row.ip /\ x.status = row.status
                        /\ x.mac = row.mac /\ x.entry = row.entry
         IN /\ Same([row EXCEPT !.push = p])
            /\ Same([row EXCEPT !.tried = t])
            /\ Same([row EXCEPT !.push = p, !.tried = t])
            /\ Same([row EXCEPT !.push = p, !.to = o, !.tried = t])
<1> DEFINE Same(x) == /\ x.ip = row.ip /\ x.status = row.status
                      /\ x.mac = row.mac /\ x.entry = row.entry
<1>1. [row EXCEPT !.push = p] \in Row /\ Same([row EXCEPT !.push = p])
  BY DEF Row
<1>2. [row EXCEPT !.tried = t] \in Row /\ Same([row EXCEPT !.tried = t])
  BY DEF Row
<1>3. [row EXCEPT !.push = p, !.tried = t] \in Row /\ Same([row EXCEPT !.push = p, !.tried = t])
  BY DEF Row
<1>4. [row EXCEPT !.push = p, !.to = o, !.tried = t] \in Row
      /\ Same([row EXCEPT !.push = p, !.to = o, !.tried = t])
  BY DEF Row
<1> QED
  BY <1>1, <1>2, <1>3, <1>4

\* Such a write keeps the table good.
LEMMA PlainWrite ==
  ASSUME NEW f \in Owners, Good(f), NEW r \in Rows, NEW row \in Row, Write(r, row),
         row.ip = rows[r].ip, row.status = rows[r].status, row.mac = rows[r].mac,
         row.entry = rows[r].entry
  PROVE  TableGood(rows', nextId, f) /\ Grows(rows, rows')
<1>1. TableGood(rows, nextId, f)
  BY DEF Good
<1>2. Exists(r) => row.mac \in Macs /\ Claim(nextId, f, row.entry, row.ip)
  BY <1>1, LiveRow
<1> QED
  BY <1>1, <1>2, WriteFrame

\* retryReservationNow begins.
LEMMA RetryNowBeginGood ==
  ASSUME NEW f \in Owners, Good(f), NEW w \in Workers, NEW r \in Rows, RetryNowBegin(w, r)
  PROVE  Good(f)'
<1>1. Active(r) /\ TableGood(rows, nextId, f) /\ rows[r] \in Row
  BY DEF RetryNowBegin, Good, TableGood
<1>2. HandlerGood(rows, nextId, f,
        [Idle EXCEPT !.pc = "q_next", !.op = "now", !.todo = {SnapOf(q) : q \in {r}}])
  BY <1>1, BatchGood
<1>3. Become(w, [Idle EXCEPT !.pc = "q_next", !.op = "now", !.todo = {SnapOf(q) : q \in {r}}])
  <2>1. {SnapOf(q) : q \in {r}} = {SnapOf(r)}
    OBVIOUS
  <2> QED
    BY <2>1 DEF RetryNowBegin
<1>4. Write(r, [rows[r] EXCEPT !.push = "pending"])
  BY <1>1 DEF RetryNowBegin, Write, Exists, Active, TableGood
<1>5. TableGood(rows', nextId, f) /\ Grows(rows, rows')
  BY <1>1, <1>4, EditRow, PlainWrite
<1>6. UNCHANGED <<dev, nextId, gate, hookDue, pushOn, disturb>> /\ cancels' \subseteq Rows
  BY DEF RetryNowBegin, Good, ScalarsOK
<1> QED
  BY <1>2, <1>3, <1>5, <1>6, RowAndHandler

\* Dropping a finished item from the work list.
LEMMA DropGood ==
  ASSUME NEW f \in Owners, Good(f), NEW w \in Workers, NEW x
  PROVE  /\ HandlerGood(rows, nextId, f, [h[w] EXCEPT !.todo = @ \ {x}])
         /\ HandlerGood(rows, nextId, f, [h[w] EXCEPT !.fresh = @ \ {x}])
         /\ HandlerGood(rows, nextId, f, [h[w] EXCEPT !.gone = @ \ {x}])
<1>0. h[w] \in Handler /\ Claim(nextId, f, h[w].entry, h[w].ip)
  BY Mine DEF HandlerGood
<1>1. ASSUME NEW hw \in Handler, hw.pc = h[w].pc, hw.row = h[w].row, hw.ip = h[w].ip,
             hw.mac = h[w].mac, hw.entry = h[w].entry, hw.todo \subseteq h[w].todo,
             hw.fresh \subseteq h[w].fresh
      PROVE  HandlerGood(rows, nextId, f, hw)
  BY <1>0, <1>1, MovedGood
<1> DEFINE A == [h[w] EXCEPT !.todo = @ \ {x}]
           B == [h[w] EXCEPT !.fresh = @ \ {x}]
           C == [h[w] EXCEPT !.gone = @ \ {x}]
<1>2. A \in Handler /\ B \in Handler /\ C \in Handler
  BY <1>0, ShrinkHandler
<1>3. /\ A.pc = h[w].pc /\ A.row = h[w].row /\ A.ip = h[w].ip /\ A.mac = h[w].mac
      /\ A.entry = h[w].entry /\ A.todo \subseteq h[w].todo /\ A.fresh \subseteq h[w].fresh
  BY <1>0 DEF Handler
<1>4. /\ B.pc = h[w].pc /\ B.row = h[w].row /\ B.ip = h[w].ip /\ B.mac = h[w].mac
      /\ B.entry = h[w].entry /\ B.todo \subseteq h[w].todo /\ B.fresh \subseteq h[w].fresh
  BY <1>0 DEF Handler
<1>5. /\ C.pc = h[w].pc /\ C.row = h[w].row /\ C.ip = h[w].ip /\ C.mac = h[w].mac
      /\ C.entry = h[w].entry /\ C.todo \subseteq h[w].todo /\ C.fresh \subseteq h[w].fresh
  BY <1>0 DEF Handler
<1> HIDE DEF A, B, C
<1>6. HandlerGood(rows, nextId, f, A) /\ HandlerGood(rows, nextId, f, B)
      /\ HandlerGood(rows, nextId, f, C)
  BY <1>1, <1>2, <1>3, <1>4, <1>5
<1> QED
  BY <1>6 DEF A, B, C

\* An item of the work list names a row of the table.
LEMMA ItemRow ==
  ASSUME NEW f \in Owners, Good(f), NEW w \in Workers, NEW s \in h[w].todo
  PROVE  /\ s \in Snap /\ s.row \in Rows /\ s.r \in Row /\ rows[s.row] \in Row
         /\ rows[s.row].status # "unborn" /\ s.r.ip = rows[s.row].ip /\ s.r.mac \in Macs
         /\ s.r.ip \in Ips
<1>1. h[w] \in Handler /\ HandlerGood(rows, nextId, f, h[w]) /\ rows \in [Rows -> Row]
      /\ TableGood(rows, nextId, f)
  BY Mine
<1>2. s \in Snap
  BY <1>1 DEF Handler
<1>3. s.row \in Rows /\ s.r \in Row
  BY <1>2 DEF Snap
<1> QED
  BY <1>1, <1>2, <1>3 DEF HandlerGood, TableGood, RowGood

\* attemptQueuedPush up to the transport.
LEMMA RetryNextGood ==
  ASSUME NEW f \in Owners, Good(f), NEW w \in Workers, RetryNext(w)
  PROVE  Good(f)'
<1>0. UNCHANGED <<dev, nextId, gate, hookDue, pushOn, disturb>> /\ cancels \subseteq Rows
  BY DEF RetryNext, Good, ScalarsOK
<1>1. CASE Finish(w) /\ UNCHANGED <<rows, cancels>>
  BY <1>0, <1>1, SameTable, IdleGood, RowAndHandler DEF Finish
<1>2. ASSUME NEW s \in h[w].todo, QueueCancel(w, s) PROVE Good(f)'
  BY <1>0, <1>2, SameTable, DropGood, ItemRow, RowAndHandler DEF QueueCancel
<1>3. ASSUME NEW s \in h[w].todo, QueueSkip(w, s) PROVE Good(f)'
  BY <1>0, <1>3, SameTable, DropGood, RowAndHandler DEF QueueSkip
<1>4. ASSUME NEW s \in h[w].todo, QueueCollide(w, s) PROVE Good(f)'
  <2>1. s.row \in Rows /\ rows[s.row] \in Row
    BY <1>4, ItemRow
  <2>2. TableGood(rows', nextId, f) /\ Grows(rows, rows')
    BY <1>4, <2>1, EditRow, PlainWrite DEF QueueCollide
  <2>3. PICK hw : Become(w, hw) /\ HandlerGood(rows, nextId, f, hw)
    BY <1>4, DropGood, IdleGood DEF QueueCollide, Finish
  <2> QED
    BY <1>0, <1>4, <2>2, <2>3, RowAndHandler DEF QueueCollide
<1>5. ASSUME NEW s \in h[w].todo, QueueTry(w, s) PROVE Good(f)'
  <2>1. /\ s.row \in Rows /\ rows[s.row] \in Row /\ s.r.ip \in Ips /\ s.r.mac \in Macs
        /\ rows[s.row].status # "unborn" /\ s.r.ip = rows[s.row].ip
    BY <1>5, ItemRow
  <2>2. TableGood(rows', nextId, f) /\ Grows(rows, rows')
    BY <1>5, <2>1, EditRow, PlainWrite DEF QueueTry
  <2> DEFINE hw == [h[w] EXCEPT !.pc = "p_list", !.row = s.row, !.ip = s.r.ip,
                                !.mac = s.r.mac, !.entry = 0, !.out = "none",
                                !.todo = @ \ {s}]
  <2>3. HandlerGood(rows, nextId, f, hw)
    <3>1. h[w] \in Handler /\ HandlerGood(rows, nextId, f, h[w])
      BY Mine
    <3>2. hw \in Handler
      <4>1. /\ "p_list" \in Pcs /\ s.row \in Rows \cup {None} /\ s.r.ip \in Ips \cup {None}
            /\ s.r.mac \in Macs \cup {None} /\ 0 \in Ids \cup {0}
            /\ h[w].todo \ {s} \in SUBSET Snap
        BY <2>1, <3>1 DEF Pcs, Handler
      <4>2. ASSUME NEW T \in SUBSET Snap, NEW a \in Pcs, NEW b \in Rows \cup {None},
                   NEW c \in Ips \cup {None}, NEW d \in Macs \cup {None}, NEW e \in Ids \cup {0}
            PROVE  [h[w] EXCEPT !.pc = a, !.row = b, !.ip = c, !.mac = d, !.entry = e,
                                !.out = "none", !.todo = T] \in Handler
        BY <3>1, Zenon DEF Handler
      <4> QED
        BY <4>1, <4>2
    <3>3. /\ hw.pc = "p_list" /\ hw.row = s.row /\ hw.ip = s.r.ip /\ hw.mac = s.r.mac
          /\ hw.entry = 0 /\ hw.fresh = h[w].fresh /\ hw.todo = h[w].todo \ {s}
      BY <3>1 DEF Handler
    <3> HIDE DEF hw
    <3> QED
      BY <2>1, <3>1, <3>2, <3>3 DEF HandlerGood, Claim
  <2>4. Become(w, hw) \/ Become(w, Idle)
    BY <1>5 DEF QueueTry, Finish
  <2> HIDE DEF hw
  <2> QED
    BY <1>0, <1>5, <2>2, <2>3, <2>4, IdleGood, RowAndHandler DEF QueueTry
<1> QED
  BY <1>1, <1>2, <1>3, <1>4, <1>5 DEF RetryNext

\* A push that landed stamps the pointer the handler brought back.
LEMMA SyncedGood ==
  ASSUME NEW f \in Owners, NEW row \in Row, NEW e \in Ids \cup {0}
  PROVE  /\ Synced(row, e) \in Row /\ Synced(row, e).ip = row.ip
         /\ Synced(row, e).status = row.status /\ Synced(row, e).mac = row.mac
         /\ Synced(row, e).entry = e
<1>1. Synced(row, e) \in Row
  BY Zenon DEF Synced, Row
<1>2. /\ Synced(row, e).ip = row.ip /\ Synced(row, e).status = row.status
      /\ Synced(row, e).mac = row.mac /\ Synced(row, e).entry = e
  BY DEF Synced, Row
<1> QED
  BY <1>1, <1>2

\* The outcome of a retry.
LEMMA RetryEndGood ==
  ASSUME NEW f \in Owners, Good(f), NEW w \in Workers, RetryEnd(w)
  PROVE  Good(f)'
<1> DEFINE r == h[w].row
<1>1. /\ h[w].pc = "p_end" /\ r \in Rows /\ h[w].entry \in Ids \cup {0} /\ h[w] \in Handler
      /\ h[w].ip = rows[r].ip /\ Claim(nextId, f, h[w].entry, h[w].ip) /\ rows[r] \in Row
      /\ TableGood(rows, nextId, f)
  BY Mine, NoneAssumption DEF RetryEnd, HandlerGood, RowPcs, Handler
<1>2. UNCHANGED <<dev, nextId, cancels, gate, hookDue, pushOn, disturb>>
      /\ cancels' \subseteq Rows
  BY Mine DEF RetryEnd, ScalarsOK
<1>3. TableGood(rows', nextId, f) /\ Grows(rows, rows')
  <2>1. CASE Write(r, Synced(rows[r], h[w].entry))
    <3>1. Exists(r) => rows[r].mac \in Macs
      BY <1>1, LiveRow
    <3> DEFINE row == Synced(rows[r], h[w].entry)
    <3>2. /\ row \in Row /\ row.ip = rows[r].ip /\ row.status = rows[r].status
          /\ row.mac = rows[r].mac /\ row.entry = h[w].entry
      BY <1>1, SyncedGood
    <3> HIDE DEF row
    <3> QED
      BY <1>1, <2>1, <3>1, <3>2, WriteFrame DEF row
  <2>2. CASE Write(r, [rows[r] EXCEPT !.push = "failed_permanent"])
    BY <1>1, <2>2, EditRow, PlainWrite
  <2>3. CASE Write(r, rows[r])
    BY <1>1, <2>3, PlainWrite
  <2> QED
    BY <2>1, <2>2, <2>3 DEF RetryEnd
<1>4. HandlerGood(rows, nextId, f, [h[w] EXCEPT !.pc = "q_next"])
  <2> DEFINE hw == [h[w] EXCEPT !.pc = "q_next"]
  <2>1. hw \in Handler
    BY <1>1, EditHandler DEF Pcs, Outs
  <2>2. /\ hw.row = h[w].row /\ hw.ip = h[w].ip /\ hw.mac = h[w].mac /\ hw.todo = h[w].todo
        /\ hw.fresh = h[w].fresh /\ hw.entry = h[w].entry /\ hw.pc = "q_next"
    BY <1>1 DEF Handler
  <2> HIDE DEF hw
  <2>3. HandlerGood(rows, nextId, f, hw)
    BY <1>1, <2>1, <2>2, MovedGood DEF IpPcs, RowPcs
  <2> QED
    BY <2>3 DEF hw
<1>5. PICK hw : Become(w, hw) /\ HandlerGood(rows, nextId, f, hw)
  BY <1>4, IdleGood DEF RetryEnd, Finish
<1> QED
  BY <1>2, <1>3, <1>5, RowAndHandler

\* A cancel write lands.
LEMMA CancelLandGood ==
  ASSUME NEW f \in Owners, Good(f), NEW r \in Rows, CancelLand(r)
  PROVE  Good(f)'
<1>1. rows[r] \in Row
  BY DEF Good, TableGood
<1>2. TableGood(rows', nextId, f) /\ Grows(rows, rows')
  <2>1. [rows[r] EXCEPT !.push = "null", !.to = FALSE, !.tried = FALSE] \in Row
    BY <1>1, EditRow
  <2> QED
    BY <1>1, <2>1, EditRow, PlainWrite DEF CancelLand
<1>3. ScalarsOK' /\ h' = h /\ dev' = dev /\ nextId' = nextId
  BY DEF CancelLand, Good, ScalarsOK
<1> QED
  BY <1>2, <1>3, TableFrame

-----------------------------------------------------------------------------
(* updateReservation and releaseReservation.                               *)

\* A slot that starts on a live row, with the pointer it found there, is good.
LEMMA BeginOnRow ==
  ASSUME NEW f \in Owners, Good(f), NEW r \in Rows, Active(r), NEW mac \in Macs,
         NEW pc \in {"u_list", "u_write"}, NEW pd \in {"r_read", "r_commit"}
  PROVE  /\ HandlerGood(rows, nextId, f,
              [Idle EXCEPT !.op = "update", !.row = r, !.ip = rows[r].ip,
                           !.mac = mac, !.entry = rows[r].entry, !.pc = pc])
         /\ HandlerGood(rows, nextId, f,
              [Idle EXCEPT !.op = "release", !.row = r, !.ip = rows[r].ip,
                           !.entry = rows[r].entry, !.pc = pd])
<1>1. /\ rows[r].ip \in Ips /\ rows[r].entry \in Ids \cup {0} /\ rows[r].status # "unborn"
      /\ Claim(nextId, f, rows[r].entry, rows[r].ip) /\ pc \in Pcs /\ pd \in Pcs
  BY LiveRow DEF Good, Row, Pcs
<1>2. ASSUME NEW e \in Ids \cup {0}, NEW ip \in Ips, Claim(nextId, f, e, ip), ip = rows[r].ip
      PROVE  HandlerGood(rows, nextId, f,
               [Idle EXCEPT !.op = "update", !.row = r, !.ip = ip, !.mac = mac, !.entry = e,
                            !.pc = pc])
  <2> DEFINE hw == [Idle EXCEPT !.op = "update", !.row = r, !.ip = ip, !.mac = mac,
                                !.entry = e, !.pc = pc]
  <2>1. hw \in Handler
    BY <1>1 DEF Idle, Handler
  <2>2. /\ hw.row = r /\ hw.ip = ip /\ hw.mac = mac /\ hw.entry = e /\ hw.pc = pc
        /\ hw.todo = {} /\ hw.fresh = {}
    BY DEF Idle
  <2> HIDE DEF hw
  <2>3. HandlerGood(rows, nextId, f, hw)
    BY <1>1, <1>2, <2>1, <2>2 DEF HandlerGood
  <2> QED
    BY <2>3 DEF hw
<1>3. ASSUME NEW e \in Ids \cup {0}, NEW ip \in Ips, Claim(nextId, f, e, ip), ip = rows[r].ip
      PROVE  HandlerGood(rows, nextId, f,
               [Idle EXCEPT !.op = "release", !.row = r, !.ip = ip, !.entry = e, !.pc = pd])
  <2> DEFINE hw == [Idle EXCEPT !.op = "release", !.row = r, !.ip = ip, !.entry = e, !.pc = pd]
  <2>1. hw \in Handler
    BY <1>1 DEF Idle, Handler
  <2>2. /\ hw.row = r /\ hw.ip = ip /\ hw.entry = e /\ hw.pc = pd
        /\ hw.todo = {} /\ hw.fresh = {}
    BY DEF Idle
  <2> HIDE DEF hw
  <2>3. HandlerGood(rows, nextId, f, hw)
    BY <1>1, <1>3, <2>1, <2>2 DEF HandlerGood, IpPcs
  <2> QED
    BY <2>3 DEF hw
<1> QED
  BY <1>1, <1>2, <1>3

\* updateReservation begins.
LEMMA UpdateBeginGood ==
  ASSUME NEW f \in Owners, Good(f), NEW w \in Workers, NEW r \in Rows, NEW mac \in Macs,
         UpdateBegin(w, r, mac)
  PROVE  Good(f)'
<1>1. UpdatePath(r) \in {"u_list", "u_write"} /\ Active(r)
  BY DEF UpdatePath, UpdateBegin
<1>2. UNCHANGED <<rows, dev, nextId, cancels, gate, hookDue, pushOn>>
      /\ disturb' \in 0..MaxDisturb
  BY DEF UpdateBegin, Good, ScalarsOK
<1> QED
  BY <1>1, <1>2, BeginOnRow, HandlerOnly DEF UpdateBegin

\* releaseReservation begins.
LEMMA ReleaseBeginGood ==
  ASSUME NEW f \in Owners, Good(f), NEW w \in Workers, NEW r \in Rows, ReleaseBegin(w, r)
  PROVE  Good(f)'
<1>1. ReleasePath(rows[r]) \in {"r_read", "r_commit"} /\ Active(r)
  BY DEF ReleasePath, ReleaseBegin
<1>2. UNCHANGED <<rows, dev, nextId, cancels, gate, hookDue, pushOn>>
      /\ disturb' \in 0..MaxDisturb
  BY DEF ReleaseBegin, Good, ScalarsOK
<1>3. PICK mac : mac \in Macs
  BY <1>1, LiveRow DEF Good
<1> QED
  BY <1>1, <1>2, <1>3, BeginOnRow, HandlerOnly DEF ReleaseBegin

\* A handler that works on a row moves on, with another outcome or pointer.
LEMMA MoveOn ==
  ASSUME NEW f \in Owners, Good(f), NEW w \in Workers, NEW pc \in Pcs, NEW out \in Outs,
         NEW e \in Ids \cup {0}, Claim(nextId, f, e, h[w].ip),
         pc \in RowPcs => h[w].pc \in RowPcs, pc \in IpPcs => h[w].pc \in IpPcs
  PROVE  /\ HandlerGood(rows, nextId, f, [h[w] EXCEPT !.pc = pc])
         /\ HandlerGood(rows, nextId, f, [h[w] EXCEPT !.pc = pc, !.out = out])
         /\ HandlerGood(rows, nextId, f, [h[w] EXCEPT !.pc = pc, !.entry = e])
<1>0. h[w] \in Handler /\ Claim(nextId, f, h[w].entry, h[w].ip)
  BY Mine DEF HandlerGood
<1> DEFINE A == [h[w] EXCEPT !.pc = pc]
           B == [h[w] EXCEPT !.pc = pc, !.out = out]
           C == [h[w] EXCEPT !.pc = pc, !.entry = e]
<1>1. A \in Handler /\ B \in Handler /\ C \in Handler
  BY <1>0, EditHandler
<1>2. /\ A.row = h[w].row /\ A.ip = h[w].ip /\ A.mac = h[w].mac /\ A.todo = h[w].todo
      /\ A.fresh = h[w].fresh /\ A.entry = h[w].entry /\ A.pc = pc
  BY <1>0 DEF Handler
<1>3. /\ B.row = h[w].row /\ B.ip = h[w].ip /\ B.mac = h[w].mac /\ B.todo = h[w].todo
      /\ B.fresh = h[w].fresh /\ B.entry = h[w].entry /\ B.pc = pc
  BY <1>0 DEF Handler
<1>4. /\ C.row = h[w].row /\ C.ip = h[w].ip /\ C.mac = h[w].mac /\ C.todo = h[w].todo
      /\ C.fresh = h[w].fresh /\ C.entry = e /\ C.pc = pc
  BY <1>0 DEF Handler
<1> HIDE DEF A, B, C
<1>5. HandlerGood(rows, nextId, f, A)
  BY <1>0, <1>1, <1>2, MovedGood
<1>6. HandlerGood(rows, nextId, f, B)
  BY <1>0, <1>1, <1>3, MovedGood
<1>7. HandlerGood(rows, nextId, f, C)
  BY <1>0, <1>1, <1>4, MovedGood
<1> QED
  BY <1>5, <1>6, <1>7 DEF A, B, C

\* The update looks for its entry: whatever it finds holds the row's address.
LEMMA UpdateListGood ==
  ASSUME NEW f \in Owners, Good(f), NEW w \in Workers, UpdateList(w)
  PROVE  Good(f)'
<1>1. h[w].pc = "u_list" /\ Claim(nextId, f, h[w].entry, h[w].ip)
  BY Mine DEF UpdateList, HandlerGood
<1>2. UNCHANGED <<rows, dev, nextId, cancels, gate, hookDue, pushOn>>
      /\ disturb' \in 0..MaxDisturb
  BY Mine, DisturbBound DEF UpdateList
<1>3. CASE Finish(w)
  BY <1>2, <1>3, IdleGood, HandlerOnly DEF Finish
<1>4. ASSUME NEW d \in Located(h[w]), Become(w, [h[w] EXCEPT !.pc = "u_put", !.entry = d.id])
      PROVE  Good(f)'
  <2>1. d \in dev /\ EntryGood(nextId, f, d) /\ (d.id = h[w].entry \/ d.ip = h[w].ip)
    BY <1>4, Mine DEF Located
  <2>2. d.id \in Ids /\ d.id # 0 /\ f[d.id] = d.ip /\ d.id < nextId
    BY <2>1, BoundsAssumption DEF EntryGood, Entry, Ids
  <2>3. Claim(nextId, f, d.id, h[w].ip)
    BY <1>1, <2>1, <2>2 DEF Claim
  <2>4. "u_put" \in Pcs /\ h[w].pc \in RowPcs /\ h[w].pc \in IpPcs /\ "none" \in Outs
    BY <1>1 DEF Pcs, RowPcs, IpPcs, Outs
  <2>5. HandlerGood(rows, nextId, f, [h[w] EXCEPT !.pc = "u_put", !.entry = d.id])
    BY <2>2, <2>3, <2>4, MoveOn
  <2> QED
    BY <1>2, <1>4, <2>5, HandlerOnly
<1> QED
  BY <1>3, <1>4 DEF UpdateList

\* The PUT changes a MAC and no address.
LEMMA UpdatePutGood ==
  ASSUME NEW f \in Owners, Good(f), NEW w \in Workers, UpdatePut(w)
  PROVE  Good(f)'
<1>1. /\ h[w].pc = "u_put" /\ Claim(nextId, f, h[w].entry, h[w].ip) /\ h[w].mac \in Macs
      /\ h[w] \in Handler
  BY Mine DEF UpdatePut, HandlerGood, IpPcs
<1>2. UNCHANGED <<rows, nextId, cancels, gate, hookDue, pushOn>>
      /\ disturb' \in 0..MaxDisturb
  BY Mine, DisturbBound DEF UpdatePut
<1>3. \A d \in dev' : EntryGood(nextId, f, d)
  <2>1. CASE UNCHANGED dev
    BY <2>1, Mine
  <2>2. CASE PutEntry(h[w])
    <3>1. ASSUME NEW d \in dev PROVE EntryGood(nextId, f, [d EXCEPT !.mac = h[w].mac])
      <4>1. EntryGood(nextId, f, d)
        BY Mine
      <4> QED
        BY <1>1, <4>1 DEF EntryGood, Entry
    <3> QED
      BY <2>2, <3>1, Mine DEF PutEntry
  <2> QED
    BY <2>1, <2>2 DEF UpdatePut
<1>4. HandlerGood(rows, nextId, f, [h[w] EXCEPT !.pc = "u_verify"])
  <2>1. /\ "u_verify" \in Pcs /\ h[w].pc \in RowPcs /\ h[w].pc \in IpPcs /\ "none" \in Outs
        /\ h[w].entry \in Ids \cup {0}
    BY <1>1 DEF Pcs, RowPcs, IpPcs, Outs, Handler
  <2> QED
    BY <1>1, <2>1, MoveOn
<1>5. PICK hw : Become(w, hw) /\ HandlerGood(rows, nextId, f, hw)
  BY <1>4, IdleGood DEF UpdatePut, Finish
<1> QED
  BY <1>2, <1>3, <1>5, DeviceStep

\* The read-back of the PUT.
LEMMA UpdateVerifyGood ==
  ASSUME NEW f \in Owners, Good(f), NEW w \in Workers, UpdateVerify(w)
  PROVE  Good(f)'
<1>1. h[w].pc = "u_verify" /\ Claim(nextId, f, h[w].entry, h[w].ip) /\ h[w] \in Handler
  BY Mine DEF UpdateVerify, HandlerGood
<1>2. UNCHANGED <<rows, dev, nextId, cancels, gate, hookDue, pushOn>>
      /\ disturb' \in 0..MaxDisturb
  BY Mine, DisturbBound DEF UpdateVerify
<1>3. HandlerGood(rows, nextId, f, [h[w] EXCEPT !.pc = "u_write", !.out = "ok"])
  <2>1. /\ "u_write" \in Pcs /\ h[w].pc \in RowPcs /\ h[w].pc \in IpPcs /\ "ok" \in Outs
        /\ h[w].entry \in Ids \cup {0}
    BY <1>1 DEF Pcs, RowPcs, IpPcs, Outs, Handler
  <2> QED
    BY <1>1, <2>1, MoveOn
<1>4. PICK hw : Become(w, hw) /\ HandlerGood(rows, nextId, f, hw)
  BY <1>3, IdleGood DEF UpdateVerify, Finish
<1> QED
  BY <1>2, <1>4, HandlerOnly

\* The update's write.
LEMMA UpdateWriteGood ==
  ASSUME NEW f \in Owners, Good(f), NEW w \in Workers, UpdateWrite(w)
  PROVE  Good(f)'
<1> DEFINE r == h[w].row
<1>1. /\ h[w].pc = "u_write" /\ r \in Rows /\ h[w].entry \in Ids \cup {0} /\ h[w].mac \in Macs
      /\ h[w].ip = rows[r].ip /\ Claim(nextId, f, h[w].entry, h[w].ip) /\ rows[r] \in Row
      /\ TableGood(rows, nextId, f)
  BY Mine, NoneAssumption DEF UpdateWrite, HandlerGood, RowPcs, IpPcs, Handler
<1>2. UNCHANGED <<dev, nextId, cancels, gate, hookDue, pushOn, disturb>>
      /\ cancels' \subseteq Rows
  BY Mine DEF UpdateWrite, ScalarsOK
<1> DEFINE A == [rows[r] EXCEPT !.mac = h[w].mac]
           B == [A EXCEPT !.to = TRUE, !.entry = h[w].entry, !.push = "synced"]
<1>3. A \in Row /\ A.ip = rows[r].ip /\ A.status = rows[r].status /\ A.mac = h[w].mac
      /\ A.entry = rows[r].entry
  BY <1>1 DEF Row
<1>4. B \in Row /\ B.ip = rows[r].ip /\ B.status = rows[r].status /\ B.mac = h[w].mac
      /\ B.entry = h[w].entry
  <2> HIDE DEF A
  <2>1. B \in Row
    BY <1>1, <1>3, Zenon DEF Row
  <2>2. B.ip = A.ip /\ B.status = A.status /\ B.mac = A.mac /\ B.entry = h[w].entry
    BY <1>3 DEF Row
  <2> QED
    BY <1>3, <2>1, <2>2
<1>5. Write(r, A) \/ Write(r, B)
  BY DEF UpdateWrite
<1> HIDE DEF A, B
<1>6. Exists(r) => Claim(nextId, f, rows[r].entry, rows[r].ip)
  BY <1>1, LiveRow
<1>7. TableGood(rows', nextId, f) /\ Grows(rows, rows')
  BY <1>1, <1>3, <1>4, <1>5, <1>6, WriteFrame
<1> QED
  BY <1>2, <1>7, IdleGood, RowAndHandler DEF UpdateWrite, Finish

\* The unpush read.
LEMMA ReleaseReadGood ==
  ASSUME NEW f \in Owners, Good(f), NEW w \in Workers, ReleaseRead(w)
  PROVE  Good(f)'
<1>1. h[w].pc = "r_read" /\ Claim(nextId, f, h[w].entry, h[w].ip) /\ h[w] \in Handler
  BY Mine DEF ReleaseRead, HandlerGood
<1>2. UNCHANGED <<rows, dev, nextId, cancels, gate, hookDue, pushOn>>
      /\ disturb' \in 0..MaxDisturb
  BY Mine, DisturbBound DEF ReleaseRead, UnpushReadLost
<1>3. /\ HandlerGood(rows, nextId, f, [h[w] EXCEPT !.pc = "r_commit", !.out = "absent"])
      /\ HandlerGood(rows, nextId, f, [h[w] EXCEPT !.pc = "r_delete"])
  <2>1. /\ "r_commit" \in Pcs /\ "r_delete" \in Pcs /\ h[w].pc \in RowPcs
        /\ "r_commit" \notin IpPcs /\ "r_delete" \notin IpPcs /\ "absent" \in Outs
        /\ h[w].entry \in Ids \cup {0}
    BY <1>1 DEF Pcs, RowPcs, IpPcs, Outs, Handler
  <2> QED
    BY <1>1, <2>1, MoveOn
<1>4. PICK hw : Become(w, hw) /\ HandlerGood(rows, nextId, f, hw)
  BY <1>3 DEF ReleaseRead, UnpushReadLost
<1> QED
  BY <1>2, <1>4, HandlerOnly

\* The DELETE.
LEMMA ReleaseDeleteGood ==
  ASSUME NEW f \in Owners, Good(f), NEW w \in Workers, ReleaseDelete(w)
  PROVE  Good(f)'
<1>1. h[w].pc = "r_delete" /\ Claim(nextId, f, h[w].entry, h[w].ip) /\ h[w] \in Handler
  BY Mine DEF ReleaseDelete, HandlerGood
<1>2. UNCHANGED <<rows, nextId, cancels, gate, hookDue, pushOn>>
      /\ disturb' \in 0..MaxDisturb
  BY Mine, DisturbBound DEF ReleaseDelete
<1>3. \A d \in dev' : EntryGood(nextId, f, d)
  <2>1. \A d \in dev' : d \in dev
    BY DEF ReleaseDelete
  <2> QED
    BY <2>1, Mine
<1>4. ASSUME NEW out \in {"failed", "removed"}
      PROVE  HandlerGood(rows, nextId, f, [h[w] EXCEPT !.pc = "r_commit", !.out = out])
  <2>1. /\ "r_commit" \in Pcs /\ h[w].pc \in RowPcs /\ "r_commit" \notin IpPcs /\ out \in Outs
        /\ h[w].entry \in Ids \cup {0}
    BY <1>1 DEF Pcs, RowPcs, IpPcs, Outs, Handler
  <2> QED
    BY <1>1, <2>1, MoveOn
<1>5. PICK hw : Become(w, hw) /\ HandlerGood(rows, nextId, f, hw)
  BY <1>4 DEF ReleaseDelete
<1> QED
  BY <1>2, <1>3, <1>5, DeviceStep

\* The release transaction makes room for the row it flips.
LEMMA ReleaseCommitGood ==
  ASSUME NEW f \in Owners, Good(f), NEW w \in Workers, ReleaseCommit(w)
  PROVE  Good(f)'
<1> DEFINE r == h[w].row
<1>1. r \in Rows /\ h[w].ip = rows[r].ip /\ TableGood(rows, nextId, f)
      /\ rows \in [Rows -> Row]
  BY Mine, NoneAssumption DEF ReleaseCommit, HandlerGood, RowPcs
<1>2. UNCHANGED <<dev, nextId, cancels, gate, hookDue, pushOn, disturb>>
      /\ cancels' \subseteq Rows
  BY Mine DEF ReleaseCommit, ScalarsOK
<1>3. CASE rows' = rows
  BY <1>2, <1>3, SameTable, IdleGood, RowAndHandler DEF ReleaseCommit, Finish
<1>4. CASE Exists(r) /\ rows' = AfterRelease(r, h[w].ip)
  <2>1. \A q \in Rows : rows[q] \in Row /\ RowGood(nextId, f, rows[q])
    BY <1>1 DEF TableGood
  <2>2. ASSUME NEW q \in Rows
        PROVE  /\ rows'[q] \in Row /\ rows'[q].ip = rows[q].ip /\ rows'[q].mac = rows[q].mac
               /\ rows'[q].entry \in {rows[q].entry, 0}
               /\ rows'[q].status \in {rows[q].status, "released", "deleted"}
               /\ q = r => rows'[q].status = "released"
               /\ q # r => rows'[q].status = IF rows[q].status = "released" /\ rows[q].ip = h[w].ip
                                               THEN "deleted" ELSE rows[q].status
               /\ rows[q].status = "unborn" => rows'[q] = rows[q]
    <3>1. Released(rows[q]) \in Row /\ [rows[q] EXCEPT !.status = "deleted"] \in Row
      BY <2>1, Zenon DEF Released, Row
    <3>2. /\ Released(rows[q]).ip = rows[q].ip /\ Released(rows[q]).mac = rows[q].mac
          /\ Released(rows[q]).entry = 0 /\ Released(rows[q]).status = "released"
      BY <2>1 DEF Released, Row
    <3>3. rows'[q] = IF q = r THEN Released(rows[q])
                     ELSE IF rows[q].status = "released" /\ rows[q].ip = h[w].ip
                          THEN [rows[q] EXCEPT !.status = "deleted"] ELSE rows[q]
      BY <1>4 DEF AfterRelease
    <3>4. /\ [rows[q] EXCEPT !.status = "deleted"].ip = rows[q].ip
          /\ [rows[q] EXCEPT !.status = "deleted"].mac = rows[q].mac
          /\ [rows[q] EXCEPT !.status = "deleted"].entry = rows[q].entry
          /\ [rows[q] EXCEPT !.status = "deleted"].status = "deleted"
      BY <2>1 DEF Row
    <3>5. rows[r].status # "unborn"
      BY <1>4 DEF Exists
    <3> QED
      BY <2>1, <3>1, <3>2, <3>3, <3>4, <3>5
  <2>3. rows' \in [Rows -> Row]
    BY <1>4, <2>2 DEF AfterRelease
  <2>4. Grows(rows, rows')
    BY <2>2 DEF Grows
  <2>5. \A q \in Rows : RowGood(nextId, f, rows'[q])
    BY <2>1, <2>2 DEF RowGood, Claim
  <2>6. UniqueKey(rows')
    BY <1>1, <2>2 DEF TableGood, UniqueKey
  <2>7. TableGood(rows', nextId, f)
    BY <2>3, <2>5, <2>6 DEF TableGood
  <2> QED
    BY <1>2, <2>4, <2>7, IdleGood, RowAndHandler DEF ReleaseCommit, Finish
<1> QED
  BY <1>3, <1>4 DEF ReleaseCommit

\* A table in which some rows change their status and the key still holds.
LEMMA StatusFrame ==
  ASSUME NEW f \in Owners, TableGood(rows, nextId, f), NEW S \in SUBSET Rows,
         NEW st \in {"expired", "released"}, \A r \in S : Exists(r),
         rows' = [r \in Rows |-> IF r \in S THEN [rows[r] EXCEPT !.status = st] ELSE rows[r]],
         UniqueKey(rows')
  PROVE  TableGood(rows', nextId, f) /\ Grows(rows, rows')
<1>1. \A q \in Rows : rows[q] \in Row /\ RowGood(nextId, f, rows[q])
  BY DEF TableGood
<1>2. ASSUME NEW q \in Rows
      PROVE  /\ rows'[q] \in Row /\ rows'[q].ip = rows[q].ip /\ rows'[q].mac = rows[q].mac
             /\ rows'[q].entry = rows[q].entry
             /\ rows[q].status = "unborn" <=> rows'[q].status = "unborn"
  <2>1. CASE q \in S
    <3>1. rows'[q] = [rows[q] EXCEPT !.status = st] /\ rows[q].status # "unborn"
      BY <2>1 DEF Exists
    <3> QED
      BY <1>1, <3>1 DEF Row
  <2>2. CASE q \notin S
    BY <1>1, <2>2
  <2> QED
    BY <2>1, <2>2
<1>3. rows' \in [Rows -> Row]
  BY <1>2
<1>4. \A q \in Rows : RowGood(nextId, f, rows'[q])
  BY <1>1, <1>2 DEF RowGood
<1> QED
  BY <1>2, <1>3, <1>4 DEF TableGood, Grows

\* The expiry job.
LEMMA ExpireStaleGood ==
  ASSUME NEW f \in Owners, Good(f), ExpireStale
  PROVE  Good(f)'
<1> DEFINE S == {r \in Rows : Active(r) /\ rows[r].exp}
<1>1. rows' = [r \in Rows |-> IF r \in S THEN [rows[r] EXCEPT !.status = "expired"] ELSE rows[r]]
  BY DEF ExpireStale
<1>2. UniqueKey(rows') /\ \A r \in S : Exists(r)
  BY DEF ExpireStale, Exists, Active
<1>3. S \in SUBSET Rows
  OBVIOUS
<1> HIDE DEF S
<1>4. TableGood(rows', nextId, f) /\ Grows(rows, rows')
  BY <1>1, <1>2, <1>3, StatusFrame DEF Good
<1>5. ScalarsOK' /\ h' = h /\ dev' = dev /\ nextId' = nextId
  BY DEF ExpireStale, Good, ScalarsOK
<1> QED
  BY <1>4, <1>5, TableFrame

-----------------------------------------------------------------------------
(* refreshSubnet.                                                          *)

\* The snapshot of the active rows.
LEMMA RefreshBeginGood ==
  ASSUME NEW f \in Owners, Good(f), NEW w \in Workers, RefreshBegin(w)
  PROVE  Good(f)'
<1> DEFINE S == {q \in Rows : Active(q)}
<1>1. S \in SUBSET Rows /\ \A r \in S : Active(r)
  OBVIOUS
<1>2. Become(w, [Idle EXCEPT !.pc = "f_list", !.op = "refresh", !.todo = {SnapOf(r) : r \in S}])
  BY DEF RefreshBegin
<1>3. UNCHANGED <<rows, dev, nextId, cancels, gate, hookDue, pushOn>>
      /\ disturb' \in 0..MaxDisturb
  BY DEF RefreshBegin, Good, ScalarsOK
<1> HIDE DEF S
<1>4. HandlerGood(rows, nextId, f,
        [Idle EXCEPT !.pc = "f_list", !.op = "refresh", !.todo = {SnapOf(r) : r \in S}])
  BY <1>1, BatchGood
<1> QED
  BY <1>2, <1>3, <1>4, HandlerOnly

\* The device's view: its entries, and leases without an id.
LEMMA RefreshListGood ==
  ASSUME NEW f \in Owners, Good(f), NEW w \in Workers, RefreshList(w)
  PROVE  Good(f)'
<1>1. /\ h[w].pc = "f_list" /\ h[w] \in Handler /\ HandlerGood(rows, nextId, f, h[w])
  BY Mine DEF RefreshList
<1>2. UNCHANGED <<rows, dev, nextId, cancels, gate, hookDue, pushOn>>
      /\ disturb' \in 0..MaxDisturb
  BY Mine, DisturbBound DEF RefreshList
<1>3. CASE Finish(w)
  BY <1>2, <1>3, IdleGood, HandlerOnly DEF Finish
<1>4. ASSUME NEW L \in SUBSET Ips, NEW m \in Macs, NEW G \in SUBSET Rows,
             NEW F, F = {[ip |-> d.ip, mac |-> d.mac, entry |-> d.id] : d \in dev}
                          \cup {[ip |-> i, mac |-> m, entry |-> 0] : i \in L},
             Become(w, [h[w] EXCEPT !.pc = "f_write", !.fresh = F, !.gone = G])
      PROVE  Good(f)'
  <2>1. ASSUME NEW d \in dev
        PROVE  /\ [ip |-> d.ip, mac |-> d.mac, entry |-> d.id] \in Fresh
               /\ Claim(nextId, f, d.id, d.ip)
    <3>1. EntryGood(nextId, f, d)
      BY Mine
    <3> QED
      BY <3>1 DEF EntryGood, Entry, Fresh, Claim
  <2>2. \A i \in L : [ip |-> i, mac |-> m, entry |-> 0] \in Fresh
    BY DEF Fresh
  <2>3. F \in SUBSET Fresh /\ \A x \in F : Claim(nextId, f, x.entry, x.ip)
    <3>1. F \in SUBSET Fresh
      BY <1>4, <2>1, <2>2
    <3>2. ASSUME NEW x \in F PROVE Claim(nextId, f, x.entry, x.ip)
      <4>1. CASE \E d \in dev : x = [ip |-> d.ip, mac |-> d.mac, entry |-> d.id]
        BY <2>1, <4>1
      <4>2. CASE \E i \in L : x = [ip |-> i, mac |-> m, entry |-> 0]
        BY <4>2 DEF Claim
      <4> QED
        BY <1>4, <4>1, <4>2
    <3> QED
      BY <3>1, <3>2
  <2> DEFINE hw == [h[w] EXCEPT !.pc = "f_write", !.fresh = F, !.gone = G]
  <2>4. hw \in Handler
    <3>1. ASSUME NEW pc \in Pcs PROVE [h[w] EXCEPT !.pc = pc, !.fresh = F, !.gone = G] \in Handler
      BY <1>1, <2>3, Zenon DEF Handler
    <3> QED
      BY <3>1 DEF Pcs
  <2>5. /\ hw.row = h[w].row /\ hw.ip = h[w].ip /\ hw.mac = h[w].mac /\ hw.todo = h[w].todo
        /\ hw.fresh = F /\ hw.entry = h[w].entry /\ hw.pc = "f_write"
    BY <1>1 DEF Handler
  <2> HIDE DEF hw
  <2>6. HandlerGood(rows, nextId, f, hw)
    BY <1>1, <2>3, <2>4, <2>5 DEF HandlerGood, RowPcs, IpPcs
  <2> QED
    BY <1>2, <1>4, <2>6, HandlerOnly DEF hw
<1>5. CASE ~Finish(w)
  <2>1. PICK L \in SUBSET {i \in Ips : ~\E d \in dev : d.ip = i}, m \in Macs :
          LET cmdb == {[ip |-> d.ip, mac |-> d.mac, entry |-> d.id] : d \in dev}
              lease == {[ip |-> i, mac |-> m, entry |-> 0] : i \in L}
              seen == {x.ip : x \in cmdb \cup lease}
          IN Become(w, [h[w] EXCEPT !.pc = "f_write", !.fresh = cmdb \cup lease,
               !.gone = {s.row : s \in {x \in h[w].todo :
                           x.r.source # "manual" /\ x.r.ip \notin seen}}])
    BY <1>5 DEF RefreshList
  <2> DEFINE cmdb == {[ip |-> d.ip, mac |-> d.mac, entry |-> d.id] : d \in dev}
             lease == {[ip |-> i, mac |-> m, entry |-> 0] : i \in L}
             seen == {x.ip : x \in cmdb \cup lease}
             G == {s.row : s \in {x \in h[w].todo : x.r.source # "manual" /\ x.r.ip \notin seen}}
  <2>2. G \in SUBSET Rows
    BY ItemRow
  <2>3. L \in SUBSET Ips
    OBVIOUS
  <2>4. Become(w, [h[w] EXCEPT !.pc = "f_write", !.fresh = cmdb \cup lease, !.gone = G])
    BY <2>1
  <2> HIDE DEF G
  <2> QED
    BY <1>4, <2>2, <2>3, <2>4
<1> QED
  BY <1>3, <1>5

\* What a fresh line writes keeps the key and claims the line's own entry.
LEMMA UpsertedGood ==
  ASSUME NEW f \in Owners, Good(f), NEW w \in Workers, NEW s \in h[w].todo,
         NEW x \in h[w].fresh, s.r.ip = x.ip, Exists(s.row)
  PROVE  /\ Upserted(s, x) \in Row /\ Upserted(s, x).ip = rows[s.row].ip
         /\ Upserted(s, x).status = rows[s.row].status /\ Upserted(s, x).mac \in Macs
         /\ Claim(nextId, f, Upserted(s, x).entry, Upserted(s, x).ip)
<1> DEFINE row == rows[s.row]
           source == IF x.entry = 0 THEN "dhcp_lease" ELSE "dhcp_reservation"
<1>1. /\ s.row \in Rows /\ row \in Row /\ row.mac \in Macs /\ s.r.ip = row.ip
      /\ Claim(nextId, f, row.entry, row.ip)
  BY ItemRow, LiveRow DEF Good
<1>2. x \in Fresh /\ Claim(nextId, f, x.entry, x.ip) /\ x.mac \in Macs /\ x.entry \in Ids \cup {0}
  BY Mine DEF HandlerGood, Handler, Fresh
<1>3. CASE Upserted(s, x) = Synced(row, x.entry)
  BY <1>1, <1>2, <1>3, SyncedGood
<1>4. CASE Upserted(s, x) = [row EXCEPT !.push = "failed_permanent", !.tried = TRUE]
  BY <1>1, <1>4 DEF Row
<1>5. ASSUME NEW a \in {row.source, source}, NEW m \in Macs,
             Upserted(s, x) = [row EXCEPT !.source = a, !.mac = m]
      PROVE  /\ Upserted(s, x) \in Row /\ Upserted(s, x).ip = row.ip
             /\ Upserted(s, x).status = row.status /\ Upserted(s, x).mac \in Macs
             /\ Claim(nextId, f, Upserted(s, x).entry, Upserted(s, x).ip)
  BY <1>1, <1>5 DEF Row
<1> DEFINE a0 == IF s.r.source = source THEN row.source ELSE source
           m0 == IF s.r.mac = x.mac THEN row.mac ELSE x.mac
<1>6. a0 \in {row.source, source} /\ m0 \in Macs
  BY <1>1, <1>2
<1>7. \/ Upserted(s, x) = Synced(row, x.entry)
      \/ Upserted(s, x) = [row EXCEPT !.push = "failed_permanent", !.tried = TRUE]
      \/ Upserted(s, x) = [row EXCEPT !.source = a0, !.mac = m0]
  BY DEF Upserted
<1> HIDE DEF a0, m0
<1> QED
  BY <1>3, <1>4, <1>5, <1>6, <1>7

\* One line of the fresh view is applied.
LEMMA RefreshWriteGood ==
  ASSUME NEW f \in Owners, Good(f), NEW w \in Workers, RefreshWrite(w)
  PROVE  Good(f)'
<1>0. UNCHANGED <<dev, nextId, gate, hookDue, pushOn, disturb>> /\ cancels' \subseteq Rows
  BY DEF RefreshWrite, Good, ScalarsOK
<1>1. h[w].pc = "f_write" /\ TableGood(rows, nextId, f) /\ h[w] \in Handler
  BY Mine DEF RefreshWrite
<1>2. ASSUME NEW x \in h[w].fresh, RefreshInsert(w, x) PROVE Good(f)'
  <2>1. CASE Finish(w) /\ UNCHANGED rows
    BY <1>0, <2>1, SameTable, IdleGood, RowAndHandler DEF Finish
  <2>2. CASE ActiveAt(x.ip) = {}
    <3>1. PICK r \in Rows :
             /\ rows[r].status = "unborn"
             /\ rows' = [rows EXCEPT ![r] =
                  [Unborn EXCEPT !.ip = x.ip, !.mac = x.mac, !.status = "active",
                     !.source = IF x.entry = 0 THEN "dhcp_lease" ELSE "dhcp_reservation"]]
             /\ Become(w, [h[w] EXCEPT !.fresh = @ \ {x}])
      BY <1>2, <2>2 DEF RefreshInsert
    <3> DEFINE row == [Unborn EXCEPT !.ip = x.ip, !.mac = x.mac, !.status = "active",
                         !.source = IF x.entry = 0 THEN "dhcp_lease" ELSE "dhcp_reservation"]
    <3>2. x \in Fresh
      BY <1>1 DEF Handler
    <3>3. /\ row \in Row /\ row.ip \in Ips /\ row.mac \in Macs /\ row.status = "active"
          /\ row.entry = 0 /\ row.ip = x.ip
      BY <3>2 DEF Fresh, Unborn, Row
    <3>4. rows' = [rows EXCEPT ![r] = row]
      BY <3>1
    <3> HIDE DEF row
    <3>5. TableGood(rows', nextId, f) /\ Grows(rows, rows')
      BY <1>1, <2>2, <3>1, <3>3, <3>4, InsertFrame
    <3> QED
      BY <1>0, <3>1, <3>5, DropGood, RowAndHandler
  <2> QED
    BY <1>2, <2>1, <2>2 DEF RefreshInsert
<1>3. ASSUME NEW x \in h[w].fresh, NEW s \in h[w].todo, s.r.ip = x.ip,
             IF LeftAlone(s) THEN UNCHANGED rows ELSE Write(s.row, Upserted(s, x)),
             IF Exists(s.row) \/ LeftAlone(s)
               THEN Become(w, [h[w] EXCEPT !.fresh = @ \ {x}]) ELSE Finish(w)
      PROVE  Good(f)'
  <2>1. TableGood(rows', nextId, f) /\ Grows(rows, rows')
    <3>1. CASE UNCHANGED rows
      BY <3>1, SameTable
    <3>2. CASE Write(s.row, Upserted(s, x))
      <4> DEFINE row == Upserted(s, x)
      <4>1. Exists(s.row) => /\ s.row \in Rows /\ row \in Row /\ row.ip = rows[s.row].ip
                             /\ row.status = rows[s.row].status /\ row.mac \in Macs
                             /\ Claim(nextId, f, row.entry, row.ip)
        BY <1>3, UpsertedGood, ItemRow
      <4> HIDE DEF row
      <4> QED
        BY <1>1, <3>2, <4>1, WriteFrame DEF row
    <3> QED
      BY <1>3, <3>1, <3>2
  <2>2. PICK hw : Become(w, hw) /\ HandlerGood(rows, nextId, f, hw)
    BY <1>3, DropGood, IdleGood DEF Finish
  <2> QED
    BY <1>0, <2>1, <2>2, RowAndHandler
<1>4. CASE Become(w, [h[w] EXCEPT !.pc = "f_release"]) /\ UNCHANGED rows
  <2>1. /\ "f_release" \in Pcs /\ "f_release" \notin RowPcs /\ "f_release" \notin IpPcs
        /\ "none" \in Outs /\ h[w].entry \in Ids \cup {0}
        /\ Claim(nextId, f, h[w].entry, h[w].ip)
    BY <1>1, Mine DEF Pcs, RowPcs, IpPcs, Outs, Handler, HandlerGood
  <2>2. HandlerGood(rows, nextId, f, [h[w] EXCEPT !.pc = "f_release"])
    BY <2>1, MoveOn
  <2> QED
    BY <1>0, <1>4, <2>2, SameTable, RowAndHandler
<1> QED
  BY <1>2, <1>3, <1>4 DEF RefreshWrite

\* A discovered row the device no longer has is released.
LEMMA RefreshReleaseGood ==
  ASSUME NEW f \in Owners, Good(f), NEW w \in Workers, RefreshRelease(w)
  PROVE  Good(f)'
<1>0. UNCHANGED <<dev, nextId, gate, hookDue, pushOn, disturb>> /\ cancels' \subseteq Rows
  BY DEF RefreshRelease, Good, ScalarsOK
<1>1. TableGood(rows, nextId, f) /\ h[w] \in Handler
  BY Mine
<1>2. CASE UNCHANGED rows /\ Finish(w)
  BY <1>0, <1>2, SameTable, IdleGood, RowAndHandler DEF Finish
<1>3. ASSUME NEW r \in h[w].gone, Exists(r), UniqueKey([rows EXCEPT ![r].status = "released"]),
             rows' = [rows EXCEPT ![r].status = "released"],
             Become(w, [h[w] EXCEPT !.gone = @ \ {r}])
      PROVE  Good(f)'
  <2>1. r \in Rows
    BY <1>1 DEF Handler
  <2>2. rows' = [q \in Rows |-> IF q \in {r} THEN [rows[q] EXCEPT !.status = "released"] ELSE rows[q]]
    BY <1>1, <1>3, <2>1 DEF TableGood
  <2>3. TableGood(rows', nextId, f) /\ Grows(rows, rows')
    BY <1>1, <1>3, <2>1, <2>2, StatusFrame
  <2> QED
    BY <1>0, <1>3, <2>3, DropGood, RowAndHandler
<1> QED
  BY <1>2, <1>3 DEF RefreshRelease

-----------------------------------------------------------------------------
(* The environment, and the theorems.                                      *)

\* The steps of the environment that allocate no id.
LEMMA EnvironmentGood ==
  ASSUME NEW f \in Owners, Good(f),
         \/ \E g \in {"warning", "down"} : GateFall(g)
         \/ GateUp \/ TogglePush \/ Crash
         \/ \E d \in dev : AdminDelete(d)
  PROVE  Good(f)'
<1>1. nextId' = nextId /\ rows' = rows
  BY DEF GateFall, GateUp, TogglePush, Crash, AdminDelete
<1>2. disturb' \in 0..MaxDisturb
  BY DisturbBound DEF GateFall, GateUp, TogglePush, Crash, AdminDelete, Good, Calm
<1>3. ScalarsOK'
  <2>1. nextId' \in 1..(MaxEntry + 1) /\ cancels' \subseteq Rows /\ gate' \in GateStates
    BY <1>1 DEF GateFall, GateUp, TogglePush, Crash, AdminDelete, Good, ScalarsOK, GateStates
  <2>2. hookDue' \in BOOLEAN /\ pushOn' \in BOOLEAN
    BY DEF GateFall, GateUp, TogglePush, Crash, AdminDelete, Good, ScalarsOK
  <2> QED
    BY <1>2, <2>1, <2>2 DEF ScalarsOK
<1>4. \A d \in dev' : EntryGood(nextId', f, d)
  BY <1>1 DEF GateFall, GateUp, TogglePush, Crash, AdminDelete, Good
<1>5. TableGood(rows', nextId', f)
  BY <1>1 DEF Good
<1>6. /\ DOMAIN h' = Workers /\ h' = [w \in Workers |-> h'[w]]
      /\ \A w \in Workers : HandlerGood(rows', nextId', f, h'[w])
  <2>1. CASE h' = h
    BY <1>1, <2>1 DEF Good
  <2>2. CASE h' = [w \in Workers |-> Idle]
    BY <2>2, IdleGood
  <2> QED
    BY <2>1, <2>2 DEF GateFall, GateUp, TogglePush, Crash, AdminDelete
<1> QED
  BY <1>3, <1>4, <1>5, <1>6 DEF Good

\* The initial state is good.
LEMMA InitGood ==
  ASSUME Init
  PROVE  IInv
<1>1. rows \in [Rows -> Row] /\ \A r \in Rows : rows[r] = Unborn
  BY DEF Init, Unborn, Row
<1>2. TypeOK
  <2>1. h \in [Workers -> Handler]
    BY IdleGood DEF Init, HandlerGood
  <2>2. nextId \in 1..(MaxEntry + 1) /\ disturb \in 0..MaxDisturb
    BY BoundsAssumption DEF Init
  <2> QED
    BY <1>1, <2>1, <2>2 DEF Init, TypeOK, GateStates
<1>3. \A r \in Rows : rows[r].status = "unborn" /\ rows[r].entry = 0
  BY <1>1 DEF Unborn
<1>4. \A w \in Workers : /\ h[w].row = None /\ h[w].pc = "idle" /\ h[w].entry = 0
                         /\ h[w].todo = {} /\ h[w].fresh = {}
  BY DEF Init, Idle
<1>5. BornTyped /\ HandlerRow /\ SnapRow /\ Targeted /\ OneRowPerStatus
  BY <1>3, <1>4 DEF BornTyped, HandlerRow, SnapRow, Targeted, OneRowPerStatus, UniqueKey
<1>6. EntryOwner
  <2>1. Explains([e \in Ids |-> None])
    BY <1>3, <1>4 DEF Explains, Init
  <2> QED
    BY <2>1 DEF EntryOwner
<1> QED
  BY <1>2, <1>5, <1>6 DEF IInv

\* The same fact about the next state.
LEMMA GoodNext ==
  ASSUME NEW f \in Owners, Good(f)'
  PROVE  IInv'
<1>1. TypeOK'
  BY DEF Good, TableGood, EntryGood, HandlerGood, ScalarsOK, TypeOK
<1>2. BornTyped' /\ OneRowPerStatus'
  BY DEF Good, TableGood, RowGood, BornTyped, OneRowPerStatus
<1>3. HandlerRow' /\ SnapRow'
  BY DEF Good, HandlerGood, HandlerRow, SnapRow
<1>4. Targeted'
  BY DEF Good, HandlerGood, Targeted, RowPcs, IpPcs
<1>5. EntryOwner'
  BY DEF Good, TableGood, RowGood, HandlerGood, EntryGood, Claim, EntryOwner, Explains, Owners
<1> QED
  BY <1>1, <1>2, <1>3, <1>4, <1>5 DEF IInv

\* Every step keeps the invariant.
LEMMA NextGood ==
  ASSUME IInv, Next
  PROVE  IInv'
<1>1. PICK f \in Owners : Good(f)
  BY GoodIsIInv
<1>2. SUFFICES \E g \in Owners : Good(g)'
  BY GoodNext
<1>3. ASSUME NEW w \in Workers, Start(w) PROVE Good(f)'
  BY <1>1, <1>3, CreateBeginGood, UpdateBeginGood, ReleaseBeginGood, RetryNowBeginGood,
     HookBeginGood, RefreshBeginGood DEF Start, Expirable
<1>4. ASSUME NEW w \in Workers, Continue(w) PROVE \E g \in Owners : Good(g)'
  <2>1. CASE PushPost(w)
    BY <1>1, <2>1, PushPostGood
  <2>2. CASE CreateInsert(w) \/ CreatePreflight(w) \/ CreateEnd(w) \/ PushList(w) \/ PushVerify(w)
    BY <1>1, <2>2, CreateInsertGood, CreatePreflightGood, CreateEndGood, PushListGood,
       PushVerifyGood
  <2>3. CASE RetryNext(w) \/ RetryEnd(w)
    BY <1>1, <2>3, RetryNextGood, RetryEndGood
  <2>4. CASE UpdateList(w) \/ UpdatePut(w) \/ UpdateVerify(w) \/ UpdateWrite(w)
    BY <1>1, <2>4, UpdateListGood, UpdatePutGood, UpdateVerifyGood, UpdateWriteGood
  <2>5. CASE ReleaseRead(w) \/ ReleaseDelete(w) \/ ReleaseCommit(w)
    BY <1>1, <2>5, ReleaseReadGood, ReleaseDeleteGood, ReleaseCommitGood
  <2>6. CASE RefreshList(w) \/ RefreshWrite(w) \/ RefreshRelease(w)
    BY <1>1, <2>6, RefreshListGood, RefreshWriteGood, RefreshReleaseGood
  <2> QED
    BY <1>4, <2>1, <2>2, <2>3, <2>4, <2>5, <2>6 DEF Continue
<1>5. ASSUME TickBegin \/ ExpireStale \/ \E r \in Rows : CancelLand(r) PROVE Good(f)'
  BY <1>1, <1>5, TickBeginGood, ExpireStaleGood, CancelLandGood
<1>6. ASSUME Environment PROVE \E g \in Owners : Good(g)'
  BY <1>1, <1>6, EnvironmentGood, AdminAddGood DEF Environment
<1> QED
  BY <1>1, <1>3, <1>4, <1>5, <1>6 DEF Next, Step

\* A stuttering step keeps the invariant.
LEMMA StutterGood ==
  ASSUME IInv, UNCHANGED vars
  PROVE  IInv'
BY DEF IInv, vars, TypeOK, BornTyped, HandlerRow, SnapRow, Targeted, OneRowPerStatus,
   UniqueKey, EntryOwner, Explains

\* The inductive invariant holds in every reachable state.
THEOREM Inductive == Spec => []IInv
<1>1. Init => IInv
  BY InitGood
<1>2. IInv /\ [Next]_vars => IInv'
  BY NextGood, StutterGood
<1> QED
  BY <1>1, <1>2, PTL DEF Spec

\* Every variable keeps its type, however the handlers interleave.
THEOREM TypeCorrect == Spec => []TypeOK
BY Inductive, PTL DEF IInv

\* The unique key of the reservations table is never contradicted: the guards
\* of create, refresh and expiry and the release transaction's clean-up
\* suffice, for any number of rows, handlers and interleavings.
THEOREM KeyHolds == Spec => []OneRowPerStatus
BY Inductive, PTL DEF IInv

\* Two active rows never pin the same device entry.
THEOREM PinnedDistinctHolds == Spec => []PinnedDistinct
<1>1. IInv => PinnedDistinct
  <2> SUFFICES ASSUME IInv, NEW r \in Rows, NEW s \in Rows, r # s, Active(r), Active(s),
                      rows[r].entry # 0, rows[r].entry = rows[s].entry
               PROVE  FALSE
    BY DEF PinnedDistinct
  <2>1. rows[r].ip = rows[s].ip
    BY DEF IInv, EntryOwner, Explains
  <2> QED
    BY <2>1 DEF IInv, OneRowPerStatus, UniqueKey, Active
<1> QED
  BY <1>1, Inductive, PTL

\* A PUT or a DELETE only ever reaches an entry with the row's own address.
THEOREM AimedAtOwnIpHolds == Spec => []AimedAtOwnIp
<1>1. IInv => AimedAtOwnIp
  <2> SUFFICES ASSUME IInv, NEW w \in Workers, NEW d \in dev,
                      h[w].pc \in {"u_put", "r_delete"}, d.id = h[w].entry
               PROVE  d.ip = rows[h[w].row].ip
    BY DEF AimedAtOwnIp
  <2>1. d.id # 0
    BY BoundsAssumption DEF IInv, TypeOK, Entry, Ids
  <2>2. d.ip = h[w].ip
    BY <2>1 DEF IInv, EntryOwner, Explains
  <2>3. h[w].row # None
    BY NoneAssumption DEF IInv, Targeted
  <2> QED
    BY <2>2, <2>3 DEF IInv, HandlerRow
<1> QED
  BY <1>1, Inductive, PTL

-----------------------------------------------------------------------------
(* SyncedOnDevice.                                                         *)

\* What the first invariant says of ids and handlers.
LEMMA IdFacts ==
  ASSUME IInv
  PROVE  /\ nextId \in Nat \ {0} /\ h \in [Workers -> Handler] /\ rows \in [Rows -> Row]
         /\ \A d \in dev : d \in Entry /\ d.id \in Nat /\ d.id # 0 /\ d.id # nextId
         /\ \A r \in Rows : rows[r].entry # nextId
         /\ \A w \in Workers : h[w].entry # nextId
         /\ \A w \in Workers : h[w].pc \in RowPcs => h[w].row \in Rows /\ h[w].ip = rows[h[w].row].ip
<1>1. /\ nextId \in 1..(MaxEntry + 1) /\ h \in [Workers -> Handler] /\ rows \in [Rows -> Row]
      /\ dev \subseteq Entry
  BY DEF IInv, TypeOK
<1>2. PICK f : Explains(f)
  BY DEF IInv, EntryOwner
<1>3. nextId \in Nat \ {0}
  BY <1>1, BoundsAssumption
<1>4. ASSUME NEW d \in dev PROVE d \in Entry /\ d.id \in Nat /\ d.id # 0 /\ d.id # nextId
  BY <1>1, <1>2, BoundsAssumption DEF Explains, Entry, Ids
<1>5. ASSUME NEW e \in Ids \cup {0}, e # 0 => e < nextId PROVE e # nextId
  BY <1>3, <1>5, BoundsAssumption DEF Ids
<1>6. ASSUME NEW r \in Rows PROVE rows[r].entry # nextId
  BY <1>1, <1>2, <1>5 DEF Explains, Row
<1>7. ASSUME NEW w \in Workers PROVE h[w].entry # nextId
  BY <1>1, <1>2, <1>5 DEF Explains, Handler
<1>8. ASSUME NEW w \in Workers, h[w].pc \in RowPcs
      PROVE  h[w].row \in Rows /\ h[w].ip = rows[h[w].row].ip
  BY <1>8, NoneAssumption DEF IInv, Targeted, HandlerRow, RowPcs
<1> QED
  BY <1>1, <1>3, <1>4, <1>6, <1>7, <1>8

\* Where updates and refreshes are.
OtherPcs == {"u_list", "u_put", "u_verify", "u_write", "f_list", "f_write", "f_release"}

\* A step that leaves the device alone, points no row to an entry and moves a
\* handler to a place where it holds no entry of its own.
LEMMA WroteFrame ==
  ASSUME IInv, WroteInv, NEW w \in Workers, NEW hw, h' = [h EXCEPT ![w] = hw], dev' = dev,
         \A r \in Rows : rows'[r].entry \in {0, rows[r].entry},
         \A r \in Rows : IsSynced(r)' => /\ IsSynced(r) /\ rows'[r].entry = rows[r].entry
                                         /\ rows'[r].ip = rows[r].ip,
         \/ hw = h[w]
         \/ /\ ~Posted(hw) /\ (hw.op = "release" <=> Releasing(hw)) /\ hw.pc \notin OtherPcs
            /\ Releasing(hw) => \/ Releasing(h[w]) /\ hw.row = h[w].row /\ hw.entry = h[w].entry
                                \/ hw.row \in Rows /\ hw.entry = rows[hw.row].entry
            /\ h[w].pc = "r_commit" => hw.pc # "r_commit" /\ \A r \in Rows : r = h[w].row => ~IsSynced(r)'
  PROVE  WroteInv'
<1>0. DevKeys /\ PostedInv /\ OwnPointers /\ OpAtPc /\ SyncedOnDevice
  BY DEF WroteInv
<1>1. \A v \in Workers : h'[v] = IF v = w THEN hw ELSE h[v]
  BY IdFacts
<1>2. \A d \in dev : d.id # 0
  BY IdFacts
<1>3. ASSUME NEW v \in Workers, Posted(h'[v]) PROVE h'[v] = h[v]
  BY <1>1, <1>3
<1>4. ASSUME NEW v \in Workers, Releasing(h'[v])
      PROVE  \/ Releasing(h[v]) /\ h'[v].row = h[v].row /\ h'[v].entry = h[v].entry
             \/ h'[v].row \in Rows /\ h'[v].entry = rows[h'[v].row].entry
  BY <1>1, <1>4
<1>5. DevKeys'
  BY <1>0 DEF DevKeys
<1>6. PostedInv'
  <2>1. ASSUME NEW v \in Workers, Posted(h'[v])
        PROVE  \E d \in dev : Wrote(h'[v], d) /\ Unclaimed(d)'
    <3>1. PICK d \in dev : Wrote(h[v], d) /\ Unclaimed(d)
      BY <1>0, <1>3, <2>1 DEF PostedInv
    <3>2. Unclaimed(d)'
      BY <1>2, <1>4, <3>1 DEF Unclaimed
    <3> QED
      BY <1>3, <2>1, <3>1, <3>2
  <2>2. ASSUME NEW u \in Workers, NEW v \in Workers, u # v, Posted(h'[u]), Posted(h'[v])
        PROVE  h'[u].ip # h'[v].ip
    BY <1>0, <1>3, <2>2 DEF PostedInv
  <2> QED
    BY <2>1, <2>2 DEF PostedInv
<1>7. OwnPointers'
  BY <1>0, <1>2, <1>4 DEF OwnPointers
<1>8. OpAtPc'
  BY <1>0, <1>1 DEF OpAtPc, OtherPcs
<1>9. SyncedOnDevice'
  <2>1. ASSUME NEW r \in Rows, IsSynced(r)'
        PROVE  \/ \E d \in dev' : d.id = rows'[r].entry /\ d.ip = rows'[r].ip
               \/ \E v \in Workers : h'[v].op = "release" /\ h'[v].row = r /\ h'[v].pc = "r_commit"
    <3>1. CASE \E d \in dev : d.id = rows[r].entry /\ d.ip = rows[r].ip
      BY <2>1, <3>1
    <3>2. CASE \E v \in Workers : h[v].op = "release" /\ h[v].row = r /\ h[v].pc = "r_commit"
      BY <1>1, <2>1, <3>2
    <3> QED
      BY <1>0, <2>1, <3>1, <3>2 DEF SyncedOnDevice
  <2> QED
    BY <2>1 DEF SyncedOnDevice
<1> QED
  BY <1>5, <1>6, <1>7, <1>8, <1>9 DEF WroteInv

\* A step that leaves rows, handlers and the device alone, or changes rows only.
LEMMA WroteRows ==
  ASSUME IInv, WroteInv, h' = h, dev' = dev,
         \A r \in Rows : rows'[r].entry \in {0, rows[r].entry},
         \A r \in Rows : IsSynced(r)' => /\ IsSynced(r) /\ rows'[r].entry = rows[r].entry
                                         /\ rows'[r].ip = rows[r].ip
  PROVE  WroteInv'
<1>1. Tick \in Workers /\ h' = [h EXCEPT ![Tick] = h[Tick]]
  BY IdFacts DEF Workers
<1> QED
  BY <1>1, WroteFrame

\* A row that a step writes: it gets no entry, and becomes synced by no such write.
LEMMA MeekWrite ==
  ASSUME IInv, NEW r, NEW row, Write(r, row),
         Exists(r) => /\ r \in Rows /\ row.entry \in {0, rows[r].entry} /\ row.ip = rows[r].ip
                      /\ (row.status = "active" /\ row.push = "synced" =>
                            Active(r) /\ rows[r].push = "synced" /\ row.entry = rows[r].entry)
  PROVE  /\ \A q \in Rows : rows'[q].entry \in {0, rows[q].entry}
         /\ \A q \in Rows : IsSynced(q)' => /\ IsSynced(q) /\ rows'[q].entry = rows[q].entry
                                            /\ rows'[q].ip = rows[q].ip
<1>1. CASE ~Exists(r)
  BY <1>1 DEF Write, IsSynced, Active
<1>2. CASE Exists(r)
  <2>1. \A q \in Rows : rows'[q] = IF q = r THEN row ELSE rows[q]
    BY <1>2, IdFacts DEF Write
  <2> QED
    BY <1>2, <2>1 DEF IsSynced, Active
<1> QED
  BY <1>1, <1>2

\* Becoming idle, or moving on without an entry.
LEMMA IdleQuiet ==
  /\ ~Posted(Idle) /\ Idle.op # "release" /\ ~Releasing(Idle) /\ Idle.pc \notin OtherPcs
  /\ Idle.pc = "idle"
  BY DEF Idle, Posted, Releasing, OtherPcs

\* The steps of a create and of the queue that write no entry to a row.
LEMMA WroteQuiet ==
  ASSUME IInv, WroteInv, NEW w \in Workers, NEW hw, Become(w, hw), dev' = dev,
         \A r \in Rows : rows'[r].entry \in {0, rows[r].entry},
         \A r \in Rows : IsSynced(r)' => /\ IsSynced(r) /\ rows'[r].entry = rows[r].entry
                                         /\ rows'[r].ip = rows[r].ip,
         ~Posted(hw), ~Releasing(hw), hw.op # "release", hw.pc \notin OtherPcs,
         h[w].pc # "r_commit"
  PROVE  WroteInv'
<1>1. h' = [h EXCEPT ![w] = hw]
  BY DEF Become
<1> QED
  BY <1>1, WroteFrame

\* A table that is not written.
LEMMA SameRows ==
  ASSUME rows' = rows
  PROVE  /\ \A q \in Rows : rows'[q].entry \in {0, rows[q].entry}
         /\ \A q \in Rows : IsSynced(q)' => /\ IsSynced(q) /\ rows'[q].entry = rows[q].entry
                                            /\ rows'[q].ip = rows[q].ip
  BY DEF IsSynced, Active

\* A create up to its push, and the first list of a push.
LEMMA CreateWrote ==
  ASSUME IInv, WroteInv, NEW w \in Workers,
         \/ \E ip \in Ips, mac \in Macs, exp \in Expirable : CreateBegin(w, ip, mac, exp)
         \/ CreateInsert(w) \/ CreatePreflight(w) \/ PushList(w)
  PROVE  WroteInv'
<1>0. OpAtPc /\ h[w] \in Handler /\ rows \in [Rows -> Row]
  BY IdFacts DEF WroteInv
<1>1. ASSUME NEW ip \in Ips, NEW mac \in Macs, NEW exp \in Expirable, CreateBegin(w, ip, mac, exp)
      PROVE  WroteInv'
  <2> DEFINE hw == [Idle EXCEPT !.pc = "c_insert", !.op = "create", !.ip = ip,
                                !.mac = mac, !.exp = exp, !.on = pushOn]
  <2>1. Become(w, hw) /\ dev' = dev /\ rows' = rows /\ h[w].pc = "idle"
    BY <1>1 DEF CreateBegin, Begin
  <2>2. hw.pc = "c_insert" /\ hw.op = "create"
    BY DEF Idle
  <2> HIDE DEF hw
  <2> QED
    BY <2>1, <2>2, SameRows, WroteQuiet DEF Posted, Releasing, OtherPcs
<1>2. CASE CreateInsert(w)
  <2>0. dev' = dev /\ h[w].pc = "c_insert" /\ h[w].op # "release"
    BY <1>0, <1>2 DEF CreateInsert, OpAtPc, Releasing
  <2>1. CASE Finish(w) /\ UNCHANGED rows
    BY <2>0, <2>1, SameRows, IdleQuiet, WroteQuiet DEF Finish
  <2>2. ASSUME NEW r \in Rows, rows[r].status = "unborn",
               rows' = [rows EXCEPT ![r] =
                  [Unborn EXCEPT !.ip = h[w].ip, !.mac = h[w].mac, !.exp = h[w].exp,
                                 !.status = "active"]],
               IF h[w].on THEN Become(w, [h[w] EXCEPT !.pc = "c_preflight", !.row = r])
                          ELSE Finish(w)
        PROVE  WroteInv'
    <3>1. /\ \A q \in Rows : rows'[q].entry \in {0, rows[q].entry}
          /\ \A q \in Rows : IsSynced(q)' => /\ IsSynced(q) /\ rows'[q].entry = rows[q].entry
                                             /\ rows'[q].ip = rows[q].ip
      <4>1. rows'[r].entry = 0 /\ rows'[r].push = "null"
        BY <1>0, <2>2 DEF Unborn
      <4>2. \A q \in Rows : q # r => rows'[q] = rows[q]
        BY <1>0, <2>2
      <4> QED
        BY <4>1, <4>2 DEF IsSynced, Active
    <3>2. PICK hw : /\ Become(w, hw) /\ ~Posted(hw) /\ ~Releasing(hw) /\ hw.op # "release"
                    /\ hw.pc \notin OtherPcs
      <4> DEFINE hw == [h[w] EXCEPT !.pc = "c_preflight", !.row = r]
      <4>1. hw.pc = "c_preflight" /\ hw.op = h[w].op
        BY <1>0 DEF Handler
      <4> HIDE DEF hw
      <4>2. ~Posted(hw) /\ ~Releasing(hw) /\ hw.op # "release" /\ hw.pc \notin OtherPcs
        BY <2>0, <4>1 DEF Posted, Releasing, OtherPcs
      <4> QED
        BY <2>2, <4>2, IdleQuiet DEF hw, Finish
    <3> QED
      BY <2>0, <3>1, <3>2, WroteQuiet
  <2> QED
    BY <1>2, <2>1, <2>2 DEF CreateInsert
<1>3. CASE CreatePreflight(w)
  <2>0. dev' = dev /\ h[w].pc = "c_preflight" /\ h[w].op # "release" /\ h[w].row \in Rows
    BY <1>0, <1>3, IdFacts DEF CreatePreflight, OpAtPc, Releasing, RowPcs
  <2>1. CASE /\ Write(h[w].row, [rows[h[w].row] EXCEPT !.to = TRUE, !.push = "pending",
                                                       !.tried = FALSE])
             /\ Finish(w)
    <3> DEFINE row == [rows[h[w].row] EXCEPT !.to = TRUE, !.push = "pending", !.tried = FALSE]
    <3>1. row.entry = rows[h[w].row].entry /\ row.ip = rows[h[w].row].ip /\ row.push = "pending"
      BY <1>0, <2>0 DEF Row
    <3> HIDE DEF row
    <3>2. /\ \A q \in Rows : rows'[q].entry \in {0, rows[q].entry}
          /\ \A q \in Rows : IsSynced(q)' => /\ IsSynced(q) /\ rows'[q].entry = rows[q].entry
                                             /\ rows'[q].ip = rows[q].ip
      BY <2>0, <2>1, <3>1, MeekWrite DEF row
    <3> QED
      BY <2>0, <2>1, <3>2, IdleQuiet, WroteQuiet DEF Finish
  <2>2. CASE Become(w, [h[w] EXCEPT !.pc = "p_list"]) /\ UNCHANGED rows
    <3> DEFINE hw == [h[w] EXCEPT !.pc = "p_list"]
    <3>1. hw.pc = "p_list" /\ hw.op = h[w].op
      BY <1>0 DEF Handler
    <3> HIDE DEF hw
    <3> QED
      BY <2>0, <2>2, <3>1, SameRows, WroteQuiet DEF hw, Posted, Releasing, OtherPcs
  <2> QED
    BY <1>3, <2>1, <2>2 DEF CreatePreflight
<1>4. CASE PushList(w)
  <2>0. dev' = dev /\ rows' = rows /\ h[w].pc = "p_list" /\ h[w].op # "release"
    BY <1>0, <1>4 DEF PushList, OpAtPc, Releasing
  <2>1. ASSUME NEW out \in {"transient", "permanent"}, PushOut(w, out) PROVE WroteInv'
    <3> DEFINE hw == [h[w] EXCEPT !.pc = "p_end", !.out = out]
    <3>1. hw.pc = "p_end" /\ hw.op = h[w].op /\ hw.out = out
      BY <1>0 DEF Handler
    <3>2. Become(w, hw)
      BY <2>1 DEF PushOut
    <3> HIDE DEF hw
    <3> QED
      BY <2>0, <3>1, <3>2, SameRows, WroteQuiet DEF Posted, Releasing, OtherPcs
  <2>2. CASE Become(w, [h[w] EXCEPT !.pc = "p_post"])
    <3> DEFINE hw == [h[w] EXCEPT !.pc = "p_post"]
    <3>1. hw.pc = "p_post" /\ hw.op = h[w].op
      BY <1>0 DEF Handler
    <3> HIDE DEF hw
    <3> QED
      BY <2>0, <2>2, <3>1, SameRows, WroteQuiet DEF hw, Posted, Releasing, OtherPcs
  <2> QED
    BY <1>4, <2>1, <2>2 DEF PushList
<1> QED
  BY <1>1, <1>2, <1>3, <1>4

\* The POST: the new entry has an id nobody knows and an address no other
\* handler has written.
LEMMA PushPostWrote ==
  ASSUME IInv, WroteInv, NEW w \in Workers, PushPost(w)
  PROVE  WroteInv'
<1>0. /\ DevKeys /\ PostedInv /\ OwnPointers /\ OpAtPc /\ SyncedOnDevice
      /\ h[w] \in Handler /\ rows' = rows
      /\ h[w].pc = "p_post" /\ h[w].op # "release" /\ h[w].row \in Rows
  BY IdFacts DEF WroteInv, PushPost, OpAtPc, Releasing, RowPcs
<1>1. CASE PushOut(w, "transient") /\ dev' = dev
  <2> DEFINE hw == [h[w] EXCEPT !.pc = "p_end", !.out = "transient"]
  <2>1. hw.pc = "p_end" /\ hw.op = h[w].op /\ hw.out = "transient" /\ Become(w, hw)
    BY <1>0, <1>1 DEF Handler, PushOut
  <2> HIDE DEF hw
  <2> QED
    BY <1>0, <1>1, <2>1, SameRows, WroteQuiet DEF Posted, Releasing, OtherPcs
<1>2. ASSUME ~Duplicate(h[w].ip, h[w].mac), PostEntry(w),
             NEW hw, h' = [h EXCEPT ![w] = hw],
             hw.row = h[w].row /\ hw.ip = h[w].ip /\ hw.mac = h[w].mac /\ hw.op = h[w].op,
             \/ hw.pc = "p_end" /\ hw.out = "transient"
             \/ hw.pc = "p_verify" /\ hw.entry \in {0, nextId}
      PROVE  WroteInv'
  <2>1. PICK n : /\ dev' = dev \cup {n} /\ n.id = nextId /\ n.ip = h[w].ip
                 /\ n.mac = h[w].mac /\ n.by = h[w].row
    <3> DEFINE n == [id |-> nextId, ip |-> h[w].ip, mac |-> h[w].mac, by |-> h[w].row]
    <3>1. /\ dev' = dev \cup {n} /\ n.id = nextId /\ n.ip = h[w].ip
          /\ n.mac = h[w].mac /\ n.by = h[w].row
      BY <1>2 DEF PostEntry
    <3> HIDE DEF n
    <3> QED
      BY <3>1
  <2>2. \A v \in Workers : h'[v] = IF v = w THEN hw ELSE h[v]
    BY <1>2, IdFacts
  <2>3. /\ \A d \in dev : d.id # 0 /\ d.id # nextId
        /\ \A r \in Rows : rows[r].entry # nextId
        /\ \A v \in Workers : h[v].entry # nextId
    BY IdFacts
  <2>4. \A d \in dev : d.ip # n.ip
    BY <1>2, <2>1 DEF Duplicate
  <2>5. \A v \in Workers : Releasing(h'[v]) => v # w /\ h'[v] = h[v]
    BY <1>2, <2>2 DEF Releasing
  <2>6. DevKeys'
    BY <1>0, <2>1, <2>3, <2>4 DEF DevKeys
  <2>7. PostedInv'
    <3>1. ASSUME NEW v \in Workers, v # w, Posted(h'[v])
          PROVE  h'[v] = h[v] /\ \E d \in dev : Wrote(h[v], d) /\ Unclaimed(d) /\ Unclaimed(d)'
      <4>1. h'[v] = h[v]
        BY <2>2, <3>1
      <4>2. PICK d \in dev : Wrote(h[v], d) /\ Unclaimed(d)
        BY <1>0, <3>1, <4>1 DEF PostedInv
      <4>3. Unclaimed(d)'
        BY <1>0, <4>2, <2>5 DEF Unclaimed
      <4> QED
        BY <4>1, <4>2, <4>3
    <3>2. ASSUME Posted(h'[w]) PROVE Wrote(h'[w], n) /\ Unclaimed(n)'
      <4>1. h'[w] = hw /\ hw.pc = "p_verify" /\ hw.entry \in {0, nextId}
        BY <1>2, <2>2, <3>2 DEF Posted
      <4>2. Wrote(hw, n)
        BY <1>2, <2>1, <4>1 DEF Wrote
      <4>3. Unclaimed(n)'
        BY <1>0, <2>1, <2>3, <2>5 DEF Unclaimed
      <4> QED
        BY <4>1, <4>2, <4>3
    <3>3. ASSUME NEW v \in Workers, v # w, Posted(h'[v]) PROVE h'[v].ip # h'[w].ip
      <4>1. PICK d \in dev : Wrote(h[v], d)
        BY <3>1, <3>3
      <4> QED
        BY <1>2, <2>1, <2>2, <2>4, <3>1, <3>3, <4>1 DEF Wrote
    <3>4. \A u, v \in Workers : u # v /\ Posted(h'[u]) /\ Posted(h'[v]) => h'[u].ip # h'[v].ip
      BY <1>0, <2>2, <3>1, <3>3 DEF PostedInv
    <3>5. \A v \in Workers : Posted(h'[v]) => \E d \in dev' : Wrote(h'[v], d) /\ Unclaimed(d)'
      BY <2>1, <3>1, <3>2
    <3> QED
      BY <3>4, <3>5 DEF PostedInv
  <2>8. OwnPointers'
    BY <1>0, <2>1, <2>3, <2>5 DEF OwnPointers
  <2>9. OpAtPc'
    <3>1. hw.op # "release" /\ ~Releasing(hw) /\ hw.pc \notin OtherPcs
      BY <1>0, <1>2 DEF Releasing, OtherPcs
    <3> QED
      BY <1>0, <2>2, <3>1 DEF OpAtPc, OtherPcs
  <2>10. SyncedOnDevice'
    <3>1. \A r \in Rows : IsSynced(r)' => IsSynced(r)
      BY <1>0 DEF IsSynced, Active
    <3>2. \A v \in Workers : h[v].pc = "r_commit" => h'[v] = h[v]
      BY <1>0, <2>2
    <3> QED
      BY <1>0, <2>1, <3>1, <3>2 DEF SyncedOnDevice
  <2> QED
    BY <2>6, <2>7, <2>8, <2>9, <2>10 DEF WroteInv
<1>3. CASE ~Duplicate(h[w].ip, h[w].mac) /\ PostEntry(w) /\ PushOut(w, "transient")
  <2> DEFINE hw == [h[w] EXCEPT !.pc = "p_end", !.out = "transient"]
  <2>1. /\ hw.pc = "p_end" /\ hw.op = h[w].op /\ hw.out = "transient"
        /\ h' = [h EXCEPT ![w] = hw]
        /\ hw.row = h[w].row /\ hw.ip = h[w].ip /\ hw.mac = h[w].mac
    BY <1>0, <1>3 DEF Handler, PushOut, Become
  <2> HIDE DEF hw
  <2> QED
    BY <1>2, <1>3, <2>1
<1>4. ASSUME ~Duplicate(h[w].ip, h[w].mac), PostEntry(w), NEW e \in {0, nextId},
             Become(w, [h[w] EXCEPT !.pc = "p_verify", !.entry = e])
      PROVE  WroteInv'
  <2> DEFINE hw == [h[w] EXCEPT !.pc = "p_verify", !.entry = e]
  <2>1. /\ hw.pc = "p_verify" /\ hw.op = h[w].op /\ hw.entry = e
        /\ h' = [h EXCEPT ![w] = hw]
        /\ hw.row = h[w].row /\ hw.ip = h[w].ip /\ hw.mac = h[w].mac
    BY <1>0, <1>4 DEF Handler, Become
  <2> HIDE DEF hw
  <2> QED
    BY <1>2, <1>4, <2>1
<1> QED
  BY <1>1, <1>3, <1>4 DEF PushPost

\* The read-back accepts the entry this handler wrote, and no other.
LEMMA PushVerifyWrote ==
  ASSUME IInv, WroteInv, NEW w \in Workers, PushVerify(w)
  PROVE  WroteInv'
<1>0. /\ DevKeys /\ PostedInv /\ OwnPointers /\ OpAtPc /\ SyncedOnDevice
      /\ h[w] \in Handler /\ rows' = rows /\ dev' = dev
      /\ h[w].pc = "p_verify" /\ h[w].op # "release"
  BY IdFacts DEF WroteInv, PushVerify, OpAtPc, Releasing
<1>1. ASSUME NEW out \in {"transient", "permanent"}, PushOut(w, out) PROVE WroteInv'
  <2> DEFINE hw == [h[w] EXCEPT !.pc = "p_end", !.out = out]
  <2>1. hw.pc = "p_end" /\ hw.op = h[w].op /\ hw.out = out /\ Become(w, hw)
    BY <1>0, <1>1 DEF Handler, PushOut
  <2> HIDE DEF hw
  <2> QED
    BY <1>0, <1>1, <2>1, SameRows, WroteQuiet DEF Posted, Releasing, OtherPcs
<1>2. ASSUME NEW d \in ReadBack(h[w]), d.ip = h[w].ip,
             Become(w, [h[w] EXCEPT !.pc = "p_end", !.out = "ok",
                                    !.entry = IF @ = 0 THEN d.id ELSE @])
      PROVE  WroteInv'
  <2> DEFINE hw == [h[w] EXCEPT !.pc = "p_end", !.out = "ok",
                                !.entry = IF @ = 0 THEN d.id ELSE @]
  <2>1. /\ hw.pc = "p_end" /\ hw.op = h[w].op /\ hw.out = "ok" /\ h' = [h EXCEPT ![w] = hw]
        /\ hw.row = h[w].row /\ hw.ip = h[w].ip /\ hw.mac = h[w].mac
        /\ hw.entry = IF h[w].entry = 0 THEN d.id ELSE h[w].entry
    BY <1>0, <1>2 DEF Handler, Become
  <2> HIDE DEF hw
  <2>2. PICK o \in dev : Wrote(h[w], o) /\ Unclaimed(o)
    BY <1>0 DEF PostedInv, Posted
  <2>3. d = o /\ d \in dev
    BY <1>0, <1>2, <2>2 DEF ReadBack, DevKeys, Wrote
  <2>4. Wrote(hw, o)
    BY <2>1, <2>2, <2>3 DEF Wrote
  <2>5. \A v \in Workers : h'[v] = IF v = w THEN hw ELSE h[v]
    BY <2>1, IdFacts
  <2>6. \A v \in Workers : Releasing(h'[v]) => h'[v] = h[v]
    BY <2>1, <2>5 DEF Releasing
  <2>7. \A e : Unclaimed(e) => Unclaimed(e)'
    BY <1>0, <2>6 DEF Unclaimed
  <2>8. Posted(h[w]) /\ \A v \in Workers : h'[v].ip = h[v].ip /\ (Posted(h'[v]) => Posted(h[v]))
    BY <1>0, <2>1, <2>5 DEF Posted
  <2>9. PostedInv'
    <3>1. \A v \in Workers : Posted(h'[v]) => \E e \in dev' : Wrote(h'[v], e) /\ Unclaimed(e)'
      BY <1>0, <2>2, <2>4, <2>5, <2>7 DEF PostedInv
    <3>2. \A u, v \in Workers : u # v /\ Posted(h'[u]) /\ Posted(h'[v]) => h'[u].ip # h'[v].ip
      BY <1>0, <2>8 DEF PostedInv
    <3> QED
      BY <3>1, <3>2 DEF PostedInv
  <2>10. DevKeys' /\ OwnPointers'
    BY <1>0, <2>6 DEF DevKeys, OwnPointers
  <2>11. OpAtPc'
    BY <1>0, <2>1, <2>5 DEF OpAtPc, Releasing
  <2>12. SyncedOnDevice'
    <3>1. \A r \in Rows : IsSynced(r)' => IsSynced(r)
      BY <1>0 DEF IsSynced, Active
    <3>2. \A v \in Workers : h[v].pc = "r_commit" => h'[v] = h[v]
      BY <1>0, <2>5
    <3> QED
      BY <1>0, <3>1, <3>2 DEF SyncedOnDevice
  <2> QED
    BY <2>9, <2>10, <2>11, <2>12 DEF WroteInv
<1> QED
  BY <1>1, <1>2 DEF PushVerify

\* A push that landed is stamped on its row: the row now points to the entry
\* that was written for it, and no other handler's entry has that id.
LEMMA StampWrote ==
  ASSUME IInv, WroteInv, NEW w \in Workers, h[w].pc = "p_end", h[w].out = "ok",
         Write(h[w].row, Synced(rows[h[w].row], h[w].entry)), dev' = dev,
         NEW hw, Become(w, hw),
         ~Posted(hw), ~Releasing(hw), hw.op # "release", hw.pc \notin OtherPcs
  PROVE  WroteInv'
<1>0. /\ DevKeys /\ PostedInv /\ OwnPointers /\ OpAtPc /\ SyncedOnDevice
      /\ h[w].row \in Rows /\ h[w].ip = rows[h[w].row].ip /\ rows \in [Rows -> Row]
  BY IdFacts DEF WroteInv, RowPcs
<1>1. CASE ~Exists(h[w].row)
  <2>1. rows' = rows
    BY <1>1 DEF Write
  <2> QED
    BY <2>1, SameRows, WroteQuiet
<1>2. CASE Exists(h[w].row)
  <2>1. /\ \A q \in Rows : q # h[w].row => rows'[q] = rows[q]
        /\ rows'[h[w].row].entry = h[w].entry
        /\ rows'[h[w].row].ip = rows[h[w].row].ip
    BY <1>0, <1>2 DEF Write, Synced, Row
  <2>2. \A v \in Workers : h'[v] = IF v = w THEN hw ELSE h[v]
    BY IdFacts DEF Become
  <2>3. PICK o \in dev : Wrote(h[w], o) /\ h[w].entry = o.id
    BY <1>0 DEF PostedInv, Posted, Wrote
  <2>4. o.by = h[w].row /\ o.ip = h[w].ip
    BY <2>3 DEF Wrote
  <2>5. \A v \in Workers : Posted(h'[v]) \/ Releasing(h'[v]) => v # w /\ h'[v] = h[v]
    BY <2>2
  <2>6. Posted(h[w])
    BY DEF Posted
  <2>7. PostedInv'
    <3>1. ASSUME NEW v \in Workers, Posted(h'[v])
          PROVE  \E d \in dev' : Wrote(h'[v], d) /\ Unclaimed(d)'
      <4>1. PICK d \in dev : Wrote(h[v], d) /\ Unclaimed(d)
        BY <1>0, <2>5, <3>1 DEF PostedInv
      <4>2. d.ip # o.ip
        BY <1>0, <2>4, <2>5, <2>6, <3>1, <4>1 DEF PostedInv, Wrote
      <4>3. d.id # o.id
        BY <1>0, <4>2 DEF DevKeys
      <4>4. Unclaimed(d)'
        BY <2>1, <2>3, <2>5, <4>1, <4>3 DEF Unclaimed
      <4> QED
        BY <2>5, <3>1, <4>1, <4>4
    <3>2. \A u, v \in Workers : u # v /\ Posted(h'[u]) /\ Posted(h'[v]) => h'[u].ip # h'[v].ip
      BY <1>0, <2>5 DEF PostedInv
    <3> QED
      BY <3>1, <3>2 DEF PostedInv
  <2>8. OwnPointers'
    <3>1. ASSUME NEW r \in Rows, NEW d \in dev', d.id = rows'[r].entry PROVE d.by = r
      <4>1. CASE r = h[w].row
        BY <1>0, <2>1, <2>3, <2>4, <3>1, <4>1 DEF DevKeys
      <4>2. CASE r # h[w].row
        BY <1>0, <2>1, <3>1, <4>2 DEF OwnPointers
      <4> QED
        BY <4>1, <4>2
    <3> QED
      BY <1>0, <2>5, <3>1 DEF OwnPointers
  <2>9. DevKeys' /\ OpAtPc'
    BY <1>0, <2>2 DEF DevKeys, OpAtPc, OtherPcs
  <2>10. SyncedOnDevice'
    <3>1. ASSUME NEW r \in Rows, IsSynced(r)'
          PROVE  \/ \E d \in dev' : d.id = rows'[r].entry /\ d.ip = rows'[r].ip
                 \/ \E v \in Workers : h'[v].op = "release" /\ h'[v].row = r /\ h'[v].pc = "r_commit"
      <4>1. CASE r = h[w].row
        BY <1>0, <2>1, <2>3, <2>4, <4>1
      <4>2. CASE r # h[w].row
        <5>1. IsSynced(r) /\ rows'[r] = rows[r]
          BY <2>1, <3>1, <4>2 DEF IsSynced, Active
        <5>2. \A v \in Workers : h[v].pc = "r_commit" => h'[v] = h[v]
          BY <2>2
        <5> QED
          BY <1>0, <5>1, <5>2 DEF SyncedOnDevice
      <4> QED
        BY <4>1, <4>2
    <3> QED
      BY <3>1 DEF SyncedOnDevice
  <2> QED
    BY <2>7, <2>8, <2>9, <2>10 DEF WroteInv
<1> QED
  BY <1>1, <1>2

\* The end of a push, of a create and of the queue.
LEMMA EndWrote ==
  ASSUME IInv, WroteInv, NEW w \in Workers, CreateEnd(w) \/ RetryEnd(w)
  PROVE  WroteInv'
<1>0. /\ OpAtPc /\ h[w] \in Handler /\ rows \in [Rows -> Row] /\ dev' = dev
      /\ h[w].pc = "p_end" /\ h[w].op # "release" /\ h[w].row \in Rows
  BY IdFacts DEF WroteInv, CreateEnd, RetryEnd, OpAtPc, Releasing, RowPcs
<1>1. PICK hw : Become(w, hw) /\ ~Posted(hw) /\ ~Releasing(hw) /\ hw.op # "release"
                /\ hw.pc \notin OtherPcs
  <2> DEFINE n == [h[w] EXCEPT !.pc = "q_next"]
  <2>1. n.pc = "q_next" /\ n.op = h[w].op
    BY <1>0 DEF Handler
  <2> HIDE DEF n
  <2>2. Become(w, Idle) \/ Become(w, n)
    BY DEF CreateEnd, RetryEnd, Finish, n
  <2> QED
    BY <1>0, <2>1, <2>2, IdleQuiet DEF Posted, Releasing, OtherPcs
<1>2. CASE h[w].out = "ok"
  <2>1. Write(h[w].row, Synced(rows[h[w].row], h[w].entry))
    BY <1>2 DEF CreateEnd, RetryEnd
  <2> QED
    BY <1>0, <1>1, <1>2, <2>1, StampWrote
<1>3. CASE h[w].out # "ok"
  <2>1. PICK row : /\ Write(h[w].row, row)
                   /\ row \in {[rows[h[w].row] EXCEPT !.to = TRUE, !.push = "pending",
                                                      !.tried = TRUE],
                               [rows[h[w].row] EXCEPT !.push = "failed_permanent"],
                               [rows[h[w].row] EXCEPT !.status = "deleted"],
                               rows[h[w].row]}
    BY <1>3 DEF CreateEnd, RetryEnd
  <2>2. /\ row.entry = rows[h[w].row].entry /\ row.ip = rows[h[w].row].ip
        /\ \/ row.push # "synced" \/ row.status # "active"
           \/ row = rows[h[w].row]
    BY <1>0, <2>1 DEF Row
  <2>3. /\ \A q \in Rows : rows'[q].entry \in {0, rows[q].entry}
        /\ \A q \in Rows : IsSynced(q)' => /\ IsSynced(q) /\ rows'[q].entry = rows[q].entry
                                           /\ rows'[q].ip = rows[q].ip
    BY <1>0, <2>1, <2>2, MeekWrite DEF Active
  <2> QED
    BY <1>0, <1>1, <2>3, WroteQuiet
<1> QED
  BY <1>2, <1>3

\* The queue up to the transport.
LEMMA QueueWrote ==
  ASSUME IInv, WroteInv, NEW w \in Workers,
         \/ HookBegin(w) \/ RetryNext(w)
         \/ w = Tick /\ TickBegin
         \/ \E r \in Rows : RetryNowBegin(w, r)
  PROVE  WroteInv'
<1>0. OpAtPc /\ h[w] \in Handler /\ rows \in [Rows -> Row]
  BY IdFacts DEF WroteInv
<1>1. ASSUME NEW op \in {"tick", "hook", "now"}, NEW todo PROVE
        LET hw == [Idle EXCEPT !.pc = "q_next", !.op = op, !.todo = todo] IN
        ~Posted(hw) /\ ~Releasing(hw) /\ hw.op # "release" /\ hw.pc \notin OtherPcs
  BY DEF Idle, Posted, Releasing, OtherPcs
<1>2. ASSUME NEW op \in {"tick", "hook"}, Scan(w, op), h[w].pc = "idle", dev' = dev, rows' = rows
      PROVE  WroteInv'
  BY <1>1, <1>2, SameRows, WroteQuiet DEF Scan
<1>3. CASE HookBegin(w)
  <2>1. CASE Scan(w, "hook")
    BY <1>2, <1>3, <2>1 DEF HookBegin, Begin
  <2>2. CASE UNCHANGED h
    BY <1>3, <2>2, SameRows, WroteRows DEF HookBegin
  <2> QED
    BY <1>3, <2>1, <2>2 DEF HookBegin
<1>4. CASE w = Tick /\ TickBegin
  BY <1>2, <1>4 DEF TickBegin
<1>5. ASSUME NEW r \in Rows, RetryNowBegin(w, r) PROVE WroteInv'
  <2>1. /\ Become(w, [Idle EXCEPT !.pc = "q_next", !.op = "now", !.todo = {SnapOf(r)}])
        /\ h[w].pc = "idle" /\ dev' = dev /\ rows' = [rows EXCEPT ![r].push = "pending"]
    BY <1>5 DEF RetryNowBegin, Begin
  <2>2. rows'[r].entry = rows[r].entry /\ rows'[r].push = "pending"
    BY <1>0, <2>1 DEF Row
  <2>3. /\ \A q \in Rows : rows'[q].entry \in {0, rows[q].entry}
        /\ \A q \in Rows : IsSynced(q)' => /\ IsSynced(q) /\ rows'[q].entry = rows[q].entry
                                           /\ rows'[q].ip = rows[q].ip
    BY <1>0, <2>1, <2>2 DEF IsSynced, Active
  <2> QED
    BY <1>1, <2>1, <2>3, WroteQuiet
<1>6. CASE RetryNext(w)
  <2>0. dev' = dev /\ h[w].pc = "q_next" /\ h[w].op # "release"
    BY <1>0, <1>6 DEF RetryNext, OpAtPc, Releasing
  <2>1. CASE Finish(w) /\ rows' = rows
    BY <2>0, <2>1, SameRows, IdleQuiet, WroteQuiet DEF Finish
  <2>2. ASSUME NEW s \in h[w].todo
        PROVE  LET hw == [h[w] EXCEPT !.todo = @ \ {s}] IN
               ~Posted(hw) /\ ~Releasing(hw) /\ hw.op # "release" /\ hw.pc \notin OtherPcs
    <3> DEFINE hw == [h[w] EXCEPT !.todo = @ \ {s}]
    <3>1. hw.pc = h[w].pc /\ hw.op = h[w].op
      BY <1>0 DEF Handler
    <3> HIDE DEF hw
    <3> QED
      BY <2>0, <3>1 DEF hw, Posted, Releasing, OtherPcs
  <2>3. ASSUME NEW s \in h[w].todo, QueueCancel(w, s) \/ QueueSkip(w, s) PROVE WroteInv'
    BY <2>0, <2>2, <2>3, SameRows, WroteQuiet DEF QueueCancel, QueueSkip
  <2>4. ASSUME NEW s \in h[w].todo, QueueCollide(w, s) \/ QueueTry(w, s) PROVE WroteInv'
    <3>1. s.row \in Rows
      BY <1>0 DEF Handler, Snap
    <3>2. PICK row : /\ Write(s.row, row)
                     /\ row \in {[rows[s.row] EXCEPT !.push = "failed_permanent", !.tried = TRUE],
                                 [rows[s.row] EXCEPT !.tried = TRUE]}
      BY <2>4 DEF QueueCollide, QueueTry
    <3>3. /\ row.entry = rows[s.row].entry /\ row.ip = rows[s.row].ip
          /\ row.status = rows[s.row].status
          /\ row.push \in {"failed_permanent", rows[s.row].push}
      BY <1>0, <3>1, <3>2 DEF Row
    <3>4. /\ \A q \in Rows : rows'[q].entry \in {0, rows[q].entry}
          /\ \A q \in Rows : IsSynced(q)' => /\ IsSynced(q) /\ rows'[q].entry = rows[q].entry
                                             /\ rows'[q].ip = rows[q].ip
      BY <3>1, <3>2, <3>3, MeekWrite DEF Active
    <3>5. PICK hw : /\ Become(w, hw) /\ ~Posted(hw) /\ ~Releasing(hw) /\ hw.op # "release"
                    /\ hw.pc \notin OtherPcs
      <4> DEFINE n == [h[w] EXCEPT !.pc = "p_list", !.row = s.row, !.ip = s.r.ip,
                                   !.mac = s.r.mac, !.entry = 0, !.out = "none",
                                   !.todo = @ \ {s}]
      <4>1. n.pc = "p_list" /\ n.op = h[w].op
        BY <1>0 DEF Handler
      <4> HIDE DEF n
      <4>2. \/ Become(w, Idle) \/ Become(w, n) \/ Become(w, [h[w] EXCEPT !.todo = @ \ {s}])
        BY <2>4 DEF QueueCollide, QueueTry, Finish, n
      <4> QED
        BY <2>0, <2>2, <4>1, <4>2, IdleQuiet DEF Posted, Releasing, OtherPcs
    <3> QED
      BY <2>0, <3>4, <3>5, WroteQuiet
  <2> QED
    BY <1>6, <2>1, <2>3, <2>4 DEF RetryNext
<1> QED
  BY <1>3, <1>4, <1>5, <1>6

\* A release: it deletes the entry of its own row and of no other, and the row
\* is no longer shown as synced once the release is done.
LEMMA ReleaseWrote ==
  ASSUME IInv, WroteInv, NEW w \in Workers,
         \/ \E r \in Rows : ReleaseBegin(w, r)
         \/ ReleaseRead(w) \/ ReleaseDelete(w) \/ ReleaseCommit(w)
  PROVE  WroteInv'
<1>0. /\ DevKeys /\ PostedInv /\ OwnPointers /\ OpAtPc /\ SyncedOnDevice
      /\ h[w] \in Handler /\ rows \in [Rows -> Row]
  BY IdFacts DEF WroteInv
<1>1. ASSUME NEW r \in Rows, ReleaseBegin(w, r) PROVE WroteInv'
  <2> DEFINE hw == [Idle EXCEPT !.op = "release", !.row = r, !.ip = rows[r].ip,
                       !.entry = rows[r].entry, !.pc = ReleasePath(rows[r])]
  <2>1. /\ hw.op = "release" /\ hw.row = r /\ hw.entry = rows[r].entry
        /\ hw.pc \in {"r_read", "r_commit"}
    BY DEF Idle, ReleasePath
  <2>2. h' = [h EXCEPT ![w] = hw] /\ dev' = dev /\ rows' = rows /\ h[w].pc = "idle"
    BY <1>1 DEF ReleaseBegin, Begin, Become
  <2> HIDE DEF hw
  <2>3. ~Posted(hw) /\ Releasing(hw) /\ hw.pc \notin OtherPcs
    BY <2>1 DEF Posted, Releasing, OtherPcs
  <2> QED
    BY <2>1, <2>2, <2>3, SameRows, WroteFrame
<1>2. ASSUME Releasing(h[w]), h[w].pc # "r_commit", dev' = dev, rows' = rows,
             NEW hw, h' = [h EXCEPT ![w] = hw],
             hw.op = h[w].op /\ hw.row = h[w].row /\ hw.entry = h[w].entry,
             hw.pc \in {"r_delete", "r_commit"}
      PROVE  WroteInv'
  <2>1. ~Posted(hw) /\ Releasing(hw) /\ hw.pc \notin OtherPcs /\ hw.op = "release"
    BY <1>0, <1>2 DEF Posted, Releasing, OtherPcs, OpAtPc
  <2> QED
    BY <1>2, <2>1, SameRows, WroteFrame
<1>3. CASE ReleaseRead(w)
  <2>1. PICK hw \in {[h[w] EXCEPT !.pc = "r_delete"],
                     [h[w] EXCEPT !.pc = "r_commit", !.out = "absent"]} : Become(w, hw)
    BY <1>3 DEF ReleaseRead, UnpushReadLost
  <2>2. /\ hw.op = h[w].op /\ hw.row = h[w].row /\ hw.entry = h[w].entry
        /\ hw.pc \in {"r_delete", "r_commit"}
    BY <1>0, <2>1 DEF Handler
  <2>3. h[w].pc = "r_read" /\ dev' = dev /\ rows' = rows
    BY <1>3 DEF ReleaseRead
  <2> QED
    BY <1>2, <2>1, <2>2, <2>3 DEF Become, Releasing
<1>4. CASE ReleaseDelete(w)
  <2>1. PICK out : Become(w, [h[w] EXCEPT !.pc = "r_commit", !.out = out])
    BY <1>4 DEF ReleaseDelete
  <2> DEFINE hw == [h[w] EXCEPT !.pc = "r_commit", !.out = out]
  <2>2. /\ hw.op = h[w].op /\ hw.row = h[w].row /\ hw.entry = h[w].entry /\ hw.pc = "r_commit"
        /\ h' = [h EXCEPT ![w] = hw]
    BY <1>0, <2>1 DEF Handler, Become
  <2> HIDE DEF hw
  <2>3. h[w].pc = "r_delete" /\ rows' = rows /\ Releasing(h[w])
    BY <1>4 DEF ReleaseDelete, Releasing
  <2>4. CASE dev' = dev
    BY <1>2, <2>2, <2>3, <2>4
  <2>5. CASE dev' = {d \in dev : d.id # h[w].entry}
    <3>1. \A v \in Workers : h'[v] = IF v = w THEN hw ELSE h[v]
      BY <2>2, IdFacts
    <3>2. hw.op = "release" /\ Releasing(hw) /\ ~Posted(hw) /\ hw.pc \notin OtherPcs
      BY <1>0, <2>2, <2>3 DEF OpAtPc, Releasing, Posted, OtherPcs
    <3>3. \A v \in Workers : Posted(h'[v]) => h'[v] = h[v]
      BY <3>1, <3>2
    <3>4. \A v \in Workers : Releasing(h'[v]) =>
            Releasing(h[v]) /\ h'[v].row = h[v].row /\ h'[v].entry = h[v].entry
      BY <2>2, <2>3, <3>1
    <3>5. PostedInv'
      <4>1. ASSUME NEW v \in Workers, Posted(h'[v])
            PROVE  \E d \in dev' : Wrote(h'[v], d) /\ Unclaimed(d)'
        <5>1. PICK d \in dev : Wrote(h[v], d) /\ Unclaimed(d)
          BY <1>0, <3>3, <4>1 DEF PostedInv
        <5>2. d \in dev'
          BY <2>3, <2>5, <5>1 DEF Unclaimed
        <5>3. Unclaimed(d)'
          BY <2>3, <3>4, <5>1 DEF Unclaimed
        <5> QED
          BY <3>3, <4>1, <5>1, <5>2, <5>3
      <4>2. \A u, v \in Workers : u # v /\ Posted(h'[u]) /\ Posted(h'[v]) => h'[u].ip # h'[v].ip
        BY <1>0, <3>3 DEF PostedInv
      <4> QED
        BY <4>1, <4>2 DEF PostedInv
    <3>6. DevKeys' /\ OwnPointers'
      BY <1>0, <2>3, <2>5, <3>4 DEF DevKeys, OwnPointers
    <3>7. OpAtPc'
      BY <1>0, <3>1, <3>2 DEF OpAtPc, OtherPcs
    <3>8. SyncedOnDevice'
      <4>1. ASSUME NEW r \in Rows, IsSynced(r)'
            PROVE  \/ \E d \in dev' : d.id = rows'[r].entry /\ d.ip = rows'[r].ip
                   \/ \E v \in Workers : h'[v].op = "release" /\ h'[v].row = r /\ h'[v].pc = "r_commit"
        <5>1. IsSynced(r)
          BY <2>3, <4>1 DEF IsSynced, Active
        <5>2. CASE \E v \in Workers : h[v].op = "release" /\ h[v].row = r /\ h[v].pc = "r_commit"
          BY <2>3, <3>1, <5>2
        <5>3. ASSUME NEW d \in dev, d.id = rows[r].entry, d.ip = rows[r].ip, d \notin dev'
              PROVE  \E v \in Workers : h'[v].op = "release" /\ h'[v].row = r /\ h'[v].pc = "r_commit"
          <6>1. d.by = r /\ d.by = h[w].row
            BY <1>0, <2>3, <2>5, <5>3 DEF OwnPointers
          <6> QED
            BY <2>2, <3>1, <3>2, <6>1
        <5> QED
          BY <1>0, <2>3, <5>1, <5>2, <5>3 DEF SyncedOnDevice
      <4> QED
        BY <4>1 DEF SyncedOnDevice
    <3> QED
      BY <3>5, <3>6, <3>7, <3>8 DEF WroteInv
  <2> QED
    BY <1>4, <2>4, <2>5 DEF ReleaseDelete
<1>5. CASE ReleaseCommit(w)
  <2>1. /\ h[w].pc = "r_commit" /\ h' = [h EXCEPT ![w] = Idle] /\ dev' = dev
        /\ rows' = IF Exists(h[w].row) THEN AfterRelease(h[w].row, h[w].ip) ELSE rows
    BY <1>5 DEF ReleaseCommit, Finish, Become
  <2>2. /\ \A q \in Rows : rows'[q].entry \in {0, rows[q].entry}
        /\ \A q \in Rows : IsSynced(q)' => /\ IsSynced(q) /\ rows'[q].entry = rows[q].entry
                                           /\ rows'[q].ip = rows[q].ip
        /\ \A q \in Rows : q = h[w].row => ~IsSynced(q)'
    <3>1. CASE ~Exists(h[w].row)
      BY <2>1, <3>1 DEF IsSynced, Active, Exists
    <3>2. CASE Exists(h[w].row)
      <4>1. ASSUME NEW q \in Rows
            PROVE  \/ rows'[q] = rows[q] /\ q # h[w].row
                   \/ rows'[q].entry \in {0, rows[q].entry} /\ rows'[q].status # "active"
        <5>1. rows'[q] = IF q = h[w].row THEN Released(rows[q])
                         ELSE IF rows[q].status = "released" /\ rows[q].ip = h[w].ip
                              THEN [rows[q] EXCEPT !.status = "deleted"] ELSE rows[q]
          BY <2>1, <3>2 DEF AfterRelease
        <5>2. Released(rows[q]).entry = 0 /\ Released(rows[q]).status = "released"
          BY <1>0 DEF Released, Row
        <5>3. /\ [rows[q] EXCEPT !.status = "deleted"].entry = rows[q].entry
              /\ [rows[q] EXCEPT !.status = "deleted"].status = "deleted"
          BY <1>0 DEF Row
        <5> QED
          BY <5>1, <5>2, <5>3
      <4> QED
        BY <4>1 DEF IsSynced, Active
    <3> QED
      BY <3>1, <3>2
  <2> QED
    BY <2>1, <2>2, IdleQuiet, WroteFrame
<1> QED
  BY <1>1, <1>3, <1>4, <1>5

\* The expiry job and a cancel that lands.
LEMMA JobWrote ==
  ASSUME IInv, WroteInv, ExpireStale \/ \E r \in Rows : CancelLand(r)
  PROVE  WroteInv'
<1>0. rows \in [Rows -> Row]
  BY IdFacts
<1>1. CASE ExpireStale
  <2>1. /\ \A q \in Rows : rows'[q] = IF Active(q) /\ rows[q].exp
                                      THEN [rows[q] EXCEPT !.status = "expired"] ELSE rows[q]
        /\ h' = h /\ dev' = dev
    BY <1>1 DEF ExpireStale
  <2>2. \A q \in Rows : \/ rows'[q] = rows[q]
                        \/ rows'[q].status = "expired" /\ rows'[q].entry = rows[q].entry
    BY <1>0, <2>1 DEF Row
  <2> QED
    BY <2>1, <2>2, WroteRows DEF IsSynced, Active
<1>2. ASSUME NEW r \in Rows, CancelLand(r) PROVE WroteInv'
  <2> DEFINE row == [rows[r] EXCEPT !.push = "null", !.to = FALSE, !.tried = FALSE]
  <2>1. row.entry = rows[r].entry /\ row.ip = rows[r].ip /\ row.push = "null"
    BY <1>0 DEF Row
  <2>2. Write(r, row) /\ h' = h /\ dev' = dev
    BY <1>2 DEF CancelLand
  <2> HIDE DEF row
  <2>3. /\ \A q \in Rows : rows'[q].entry \in {0, rows[q].entry}
        /\ \A q \in Rows : IsSynced(q)' => /\ IsSynced(q) /\ rows'[q].entry = rows[q].entry
                                           /\ rows'[q].ip = rows[q].ip
    BY <2>1, <2>2, MeekWrite
  <2> QED
    BY <2>2, <2>3, WroteRows
<1> QED
  BY <1>1, <1>2

\* The operations of which SyncedOnDevice makes no promise.
Rewriters == {"update", "refresh", "admin", "crash"}

\* Every step of a load without them keeps the invariant.
LEMMA NextWrote ==
  ASSUME IInv, WroteInv, mix.does \cap Rewriters = {}, Next
  PROVE  WroteInv'
<1>0. OpAtPc /\ \A op \in Rewriters : op \notin mix.does
  BY DEF WroteInv
<1>1. ASSUME NEW w \in Workers, Start(w) PROVE WroteInv'
  <2>1. ~\E r \in Rows, mac \in Macs : UpdateBegin(w, r, mac)
    BY <1>0 DEF UpdateBegin, Begin, Rewriters
  <2>2. ~RefreshBegin(w)
    BY <1>0 DEF RefreshBegin, Begin, Rewriters
  <2> QED
    BY <1>1, <2>1, <2>2, CreateWrote, ReleaseWrote, QueueWrote DEF Start
<1>2. ASSUME NEW w \in Workers, Continue(w) PROVE WroteInv'
  <2>1. ~(UpdateList(w) \/ UpdatePut(w) \/ UpdateVerify(w) \/ UpdateWrite(w))
    BY <1>0 DEF OpAtPc, UpdateList, UpdatePut, UpdateVerify, UpdateWrite
  <2>2. ~(RefreshList(w) \/ RefreshWrite(w) \/ RefreshRelease(w))
    BY <1>0 DEF OpAtPc, RefreshList, RefreshWrite, RefreshRelease
  <2> QED
    BY <1>2, <2>1, <2>2, CreateWrote, PushPostWrote, PushVerifyWrote, EndWrote, QueueWrote,
       ReleaseWrote DEF Continue
<1>3. CASE TickBegin
  <2>1. Tick \in Workers
    BY DEF Workers
  <2> QED
    BY <1>3, <2>1, QueueWrote
<1>4. CASE ExpireStale \/ \E r \in Rows : CancelLand(r)
  BY <1>4, JobWrote
<1>5. CASE Environment
  <2>1. rows' = rows /\ dev' = dev /\ h' = h
    BY <1>0, <1>5 DEF Environment, GateFall, GateUp, TogglePush, Crash, AdminAdd, AdminDelete,
       Disturb, Rewriters
  <2> QED
    BY <2>1, SameRows, WroteRows
<1> QED
  BY <1>1, <1>2, <1>3, <1>4, <1>5 DEF Next, Step

\* Nothing is written in the beginning.
LEMMA InitWrote == Init => WroteInv
<1> SUFFICES ASSUME Init PROVE WroteInv
  OBVIOUS
<1>1. dev = {} /\ \A w \in Workers : h[w] = Idle
  BY DEF Init
<1>2. \A r \in Rows : rows[r].push = "null"
  BY DEF Init, Unborn
<1>3. SyncedOnDevice
  BY <1>2 DEF SyncedOnDevice, IsSynced
<1> QED
  BY <1>1, <1>3, IdleQuiet DEF WroteInv, DevKeys, PostedInv, OwnPointers, OpAtPc, OtherPcs

\* A row shown as synced has its entry on the device, at its address, unless
\* a release of that row has been to the device: for any number of requests,
\* passes of the queue, lost and refused calls, expiries and toggles in any
\* interleaving, when nobody updates, refreshes, restarts Polaris or edits the
\* device by hand.
THEOREM SyncedOnDeviceHolds ==
  ASSUME \A m \in Mixes : m.does \cap Rewriters = {}
  PROVE  Spec => []SyncedOnDevice
<1> DEFINE J == WroteInv /\ mix.does \cap Rewriters = {}
<1>1. Init => J
  BY InitWrote DEF Init
<1>2. IInv /\ J /\ [Next]_vars => J'
  <2>1. ASSUME IInv, J, Next PROVE J'
    BY <2>1, NextWrote DEF Next
  <2>2. ASSUME IInv, J, UNCHANGED vars PROVE J'
    <3>1. rows' = rows /\ dev' = dev /\ h' = h /\ mix' = mix
      BY <2>2 DEF vars
    <3> QED
      BY <2>2, <3>1, SameRows, WroteRows
  <2> QED
    BY <2>1, <2>2
<1>3. J => SyncedOnDevice
  BY DEF WroteInv
<1> HIDE DEF J
<1> QED
  BY <1>1, <1>2, <1>3, Inductive, PTL DEF Spec

-----------------------------------------------------------------------------
(* SyncedMacMatches and NoOrphan.                                          *)

\* Entries of the first invariant: their ids are not 0, and who points to one
\* knows its address.
LEMMA PointerFacts ==
  ASSUME IInv
  PROVE  /\ \A d \in dev : d.id # 0
         /\ \A d \in dev, r \in Rows : d.id = rows[r].entry => d.ip = rows[r].ip
         /\ \A d \in dev, w \in Workers : d.id = h[w].entry => d.ip = h[w].ip
<1>1. \A d \in dev : d.id # 0
  BY IdFacts
<1>2. PICK f : Explains(f)
  BY DEF IInv, EntryOwner
<1> QED
  BY <1>1, <1>2 DEF Explains

\* A handler that has posted, put or deleted nothing stands in for any other.
LEMMA AgreeAny ==
  ASSUME NEW t, NEW D, NEW hw, NEW hx, Agree(t, D, hw), ~Posted(hw), ~Ahead(hw)
  PROVE  Agree(t, D, hx)
BY DEF Agree

\* The tables of an idle handler.
LEMMA IdleStands ==
  ASSUME NEW t, NEW D, Agree(t, D, Idle)
  PROVE  Standing(t, D, Idle)
<1>1. Idle.pc = "idle" /\ ~Put(Idle) /\ ~Posted(Idle)
  BY DEF Idle, Put, Posted
<1> QED
  BY <1>1 DEF Standing, OnlyClaim, PushHolds, UpdateHolds, ReleaseHolds, QueueHolds, RefreshHolds,
     PushPcs, UpdatePcs, ReleasePcs

\* A handler that gives up, having changed nothing.
LEMMA GivesUp ==
  ASSUME NEW t, NEW D, NEW hw, Standing(t, D, hw), ~Posted(hw), ~Ahead(hw)
  PROVE  Standing(t, D, Idle)
BY AgreeAny, IdleStands DEF Standing

\* A row that is not synced is written and stays so; it pinned nothing.
LEMMA AgreeWrite ==
  ASSUME IInv, NEW hw, Agree(rows, dev, hw), ~Posted(hw), ~Ahead(hw),
         NEW r, NEW row, Write(r, row), dev' = dev,
         Exists(r) => /\ r \in Rows /\ rows[r].push # "synced" /\ row.push # "synced"
                      /\ row.entry = rows[r].entry /\ (Live(row) => Live(rows[r])),
         NEW hx
  PROVE  Agree(rows', dev', hx)
<1>1. CASE ~Exists(r)
  <2>1. rows' = rows
    BY <1>1 DEF Write
  <2> QED
    BY <2>1, AgreeAny
<1>2. CASE Exists(r)
  <2>1. \A q \in Rows : rows'[q] = IF q = r THEN row ELSE rows[q]
    BY <1>2, IdFacts DEF Write
  <2>2. \A q \in Rows : Live(rows'[q]) => Paired(rows'[q])
    BY <1>2, <2>1 DEF Agree, Paired
  <2>3. ASSUME NEW d \in dev PROVE \E q \in Rows : Live(rows'[q]) /\ rows'[q].entry = d.id
    <3>1. PICK q \in Rows : Live(rows[q]) /\ rows[q].entry = d.id
      BY DEF Agree
    <3>2. q # r
      BY <1>2, <3>1, PointerFacts DEF Agree, Paired
    <3> QED
      BY <2>1, <3>1, <3>2
  <2>4. ASSUME NEW q \in Rows, rows'[q].status = "active", rows'[q].push = "synced"
        PROVE  \E d \in dev : Shown(rows'[q], d)
    BY <1>2, <2>1, <2>4 DEF Agree
  <2> QED
    BY <2>2, <2>3, <2>4 DEF Agree
<1> QED
  BY <1>1, <1>2

\* A row that is not synced is born.
LEMMA AgreeInsert ==
  ASSUME NEW hw, Agree(rows, dev, hw), ~Posted(hw), ~Ahead(hw), NEW r \in Rows, dev' = dev,
         rows[r].status = "unborn", rows'[r].entry = 0, rows'[r].push = "null",
         \A q \in Rows : q # r => rows'[q] = rows[q],
         NEW hx
  PROVE  Agree(rows', dev', hx)
<1>1. \A q \in Rows : Live(rows'[q]) => Paired(rows'[q])
  BY DEF Agree, Paired
<1>2. \A d \in dev : \E q \in Rows : Live(rows'[q]) /\ rows'[q].entry = d.id
  <2>1. ~Live(rows[r])
    BY DEF Live
  <2> QED
    BY <2>1 DEF Agree
<1>3. \A q \in Rows : rows'[q].status = "active" /\ rows'[q].push = "synced" =>
        \E d \in dev : Shown(rows'[q], d)
  BY DEF Agree
<1> QED
  BY <1>1, <1>2, <1>3 DEF Agree

\* A row is written in columns that say nothing about the device.
LEMMA AgreeKeep ==
  ASSUME IInv, NEW hw, Agree(rows, dev, hw), ~Posted(hw), ~Ahead(hw),
         NEW r \in Rows, NEW row, Write(r, row), dev' = dev,
         row.status = rows[r].status, row.entry = rows[r].entry, row.push = rows[r].push,
         row.ip = rows[r].ip, row.to = rows[r].to,
         row.status = "active" /\ row.push = "synced" => row.mac = rows[r].mac,
         NEW hx
  PROVE  Agree(rows', dev', hx)
<1>1. \A q \in Rows : \/ rows'[q] = rows[q]
                      \/ q = r /\ rows'[q] = row
  BY IdFacts DEF Write
<1>2. \A q \in Rows : /\ Live(rows'[q]) <=> Live(rows[q])
                      /\ rows'[q].entry = rows[q].entry
                      /\ Paired(rows'[q]) <=> Paired(rows[q])
  BY <1>1 DEF Live, Paired
<1>3. \A q \in Rows : rows'[q].status = "active" /\ rows'[q].push = "synced" =>
        /\ rows[q].status = "active" /\ rows[q].push = "synced"
        /\ rows'[q].ip = rows[q].ip /\ rows'[q].mac = rows[q].mac
  BY <1>1
<1> QED
  BY <1>2, <1>3 DEF Agree, Shown

\* A row is stamped with the entry that is on the device for it.
LEMMA AgreeStamp ==
  ASSUME IInv, NEW hw, Agree(rows, dev, hw), NEW r \in Rows, NEW row, NEW o \in dev,
         Ahead(hw) => r = hw.row, Write(r, row), dev' = dev,
         Live(rows[r]), \A d \in dev : d.id = rows[r].entry => d.id = row.entry,
         row.status = rows[r].status, row.push = "synced", row.to, Shown(row, o),
         Posted(hw) => \A d \in dev : Wrote(hw, d) => d.id = o.id,
         NEW hx
  PROVE  Agree(rows', dev', hx)
<1>1. \A q \in Rows : rows'[q] = IF q = r THEN row ELSE rows[q]
  BY IdFacts DEF Write, Exists, Live
<1>2. \A q \in Rows : Live(rows'[q]) => Paired(rows'[q])
  BY <1>1, PointerFacts DEF Agree, Paired, Shown
<1>3. ASSUME NEW d \in dev PROVE \E q \in Rows : Live(rows'[q]) /\ rows'[q].entry = d.id
  <2>1. Live(row) /\ row.entry = o.id
    BY DEF Live, Shown
  <2>2. CASE d.id = o.id
    BY <1>1, <2>1, <2>2
  <2>3. CASE d.id # o.id
    <3>1. PICK q \in Rows : Live(rows[q]) /\ rows[q].entry = d.id
      BY <2>3 DEF Agree
    <3>2. q # r
      BY <2>1, <2>3, <3>1
    <3> QED
      BY <1>1, <3>1, <3>2
  <2> QED
    BY <2>2, <2>3
<1>4. ASSUME NEW q \in Rows, rows'[q].status = "active", rows'[q].push = "synced"
      PROVE  \E d \in dev : Shown(rows'[q], d)
  BY <1>1, <1>4 DEF Agree
<1> QED
  BY <1>2, <1>3, <1>4 DEF Agree

\* Every call is answered, the process keeps running, nobody else is there.
Answered == mix.does \cap {"tick", "lose", "crash", "admin", "toggle"} = {}

\* In such a load no call is lost.
LEMMA NoDisturb ==
  ASSUME Answered
  PROVE  ~Disturb("lose") /\ ~Disturb("crash") /\ ~Disturb("admin") /\ ~Disturb("toggle")
BY DEF Answered, Disturb

\* What a handler becomes.
LEMMA NowIs ==
  ASSUME IInv, NEW w \in Workers, NEW hw, Become(w, hw)
  PROVE  h'[w] = hw
BY IdFacts DEF Become

\* A handler that becomes one that stands.
LEMMA StandsStill ==
  ASSUME IInv, NEW w \in Workers, NEW hw, Become(w, hw), Standing(rows', dev', hw)
  PROVE  Standing(rows, dev, h[w])'
BY NowIs

\* A create up to its push.
LEMMA CreateStands ==
  ASSUME IInv, NEW w \in Workers, Standing(rows, dev, h[w]), Answered,
         \/ \E ip \in Ips, mac \in Macs, exp \in Expirable : CreateBegin(w, ip, mac, exp)
         \/ CreateInsert(w) \/ CreatePreflight(w)
  PROVE  Standing(rows, dev, h[w])'
<1>0. h[w] \in Handler /\ rows \in [Rows -> Row] /\ Agree(rows, dev, h[w])
  BY IdFacts DEF Standing
<1>1. ASSUME NEW ip \in Ips, NEW mac \in Macs, NEW exp \in Expirable, CreateBegin(w, ip, mac, exp)
      PROVE  Standing(rows, dev, h[w])'
  <2> DEFINE hw == [Idle EXCEPT !.pc = "c_insert", !.op = "create", !.ip = ip,
                                !.mac = mac, !.exp = exp, !.on = pushOn]
  <2>1. Become(w, hw) /\ dev' = dev /\ rows' = rows /\ h[w].pc = "idle"
    BY <1>1 DEF CreateBegin, Begin
  <2>2. hw.pc = "c_insert" /\ hw.todo = {}
    BY DEF Idle
  <2> HIDE DEF hw
  <2>3. Agree(rows, dev, hw)
    BY <1>0, <2>1, AgreeAny DEF Posted, Ahead, Put
  <2>4. Standing(rows, dev, hw)
    BY <2>2, <2>3 DEF Standing, OnlyClaim, PushHolds, UpdateHolds, ReleaseHolds, QueueHolds,
       RefreshHolds, PushPcs, UpdatePcs, ReleasePcs, Posted, Put
  <2> QED
    BY <2>1, <2>4, StandsStill
<1>2. CASE CreateInsert(w)
  <2>0. dev' = dev /\ h[w].pc = "c_insert" /\ h[w].todo = {} /\ ~Posted(h[w]) /\ ~Ahead(h[w])
    BY <1>2 DEF CreateInsert, Standing, QueueHolds, Posted, Ahead, Put
  <2>1. CASE Finish(w) /\ UNCHANGED rows
    BY <2>0, <2>1, GivesUp, StandsStill DEF Finish
  <2>2. ASSUME ActiveAt(h[w].ip) = {}, NEW r \in Rows, rows[r].status = "unborn",
               rows' = [rows EXCEPT ![r] =
                  [Unborn EXCEPT !.ip = h[w].ip, !.mac = h[w].mac, !.exp = h[w].exp,
                                 !.status = "active"]],
               IF h[w].on THEN Become(w, [h[w] EXCEPT !.pc = "c_preflight", !.row = r])
                          ELSE Finish(w)
        PROVE  Standing(rows, dev, h[w])'
    <3>1. /\ rows'[r].entry = 0 /\ rows'[r].push = "null" /\ rows'[r].status = "active"
          /\ rows'[r].mac = h[w].mac
      BY <1>0, <2>2 DEF Unborn
    <3>2. \A q \in Rows : q # r => rows'[q] = rows[q]
      BY <1>0, <2>2
    <3>3. ASSUME NEW hx PROVE Agree(rows', dev', hx)
      BY <1>0, <2>0, <2>2, <3>1, <3>2, AgreeInsert
    <3>4. CASE Become(w, [h[w] EXCEPT !.pc = "c_preflight", !.row = r])
      <4> DEFINE hw == [h[w] EXCEPT !.pc = "c_preflight", !.row = r]
      <4>1. /\ hw.pc = "c_preflight" /\ hw.row = r /\ hw.ip = h[w].ip /\ hw.mac = h[w].mac
            /\ hw.todo = {}
        BY <1>0, <2>0 DEF Handler
      <4> HIDE DEF hw
      <4>2. OnlyClaim(rows', hw)
        BY <2>2, <3>1, <3>2, <4>1 DEF OnlyClaim, Live, ActiveAt, Active
      <4>3. PushHolds(rows', dev', hw)
        BY <3>1, <4>1 DEF PushHolds, Posted
      <4>4. Standing(rows', dev', hw)
        BY <3>3, <4>1, <4>2, <4>3 DEF Standing, UpdateHolds, ReleaseHolds, QueueHolds,
           RefreshHolds, UpdatePcs, ReleasePcs, Put
      <4> QED
        BY <3>4, <4>4, StandsStill DEF hw
    <3>5. CASE Finish(w)
      BY <3>3, <3>5, IdleStands, StandsStill DEF Finish
    <3> QED
      BY <2>2, <3>4, <3>5
  <2> QED
    BY <1>2, <2>1, <2>2 DEF CreateInsert
<1>3. CASE CreatePreflight(w)
  <2>0. /\ dev' = dev /\ h[w].pc = "c_preflight" /\ h[w].row \in Rows
        /\ ~Posted(h[w]) /\ ~Ahead(h[w]) /\ rows[h[w].row].push # "synced"
    BY <1>3, IdFacts DEF CreatePreflight, RowPcs, Posted, Ahead, Put, Standing, PushHolds, PushPcs
  <2>1. CASE /\ Write(h[w].row, [rows[h[w].row] EXCEPT !.to = TRUE, !.push = "pending",
                                                       !.tried = FALSE])
             /\ Finish(w)
    <3> DEFINE row == [rows[h[w].row] EXCEPT !.to = TRUE, !.push = "pending", !.tried = FALSE]
    <3>1. row.entry = rows[h[w].row].entry /\ row.status = rows[h[w].row].status
          /\ row.push = "pending"
      BY <1>0, <2>0 DEF Row
    <3> HIDE DEF row
    <3>2. Agree(rows', dev', Idle)
      BY <1>0, <2>0, <2>1, <3>1, AgreeWrite DEF row, Live
    <3> QED
      BY <2>1, <3>2, IdleStands, StandsStill DEF Finish
  <2>2. CASE Become(w, [h[w] EXCEPT !.pc = "p_list"]) /\ UNCHANGED rows
    <3> DEFINE hw == [h[w] EXCEPT !.pc = "p_list"]
    <3>1. /\ hw.pc = "p_list" /\ hw.row = h[w].row /\ hw.ip = h[w].ip /\ hw.mac = h[w].mac
          /\ hw.todo = h[w].todo
      BY <1>0 DEF Handler
    <3> HIDE DEF hw
    <3>2. Agree(rows, dev, hw)
      BY <1>0, <2>0, AgreeAny
    <3>3. Standing(rows, dev, hw)
      BY <2>0, <3>1, <3>2 DEF Standing, OnlyClaim, PushHolds, UpdateHolds, ReleaseHolds,
         QueueHolds, RefreshHolds, PushPcs, UpdatePcs, ReleasePcs, Posted, Put
    <3> QED
      BY <2>0, <2>2, <3>3, StandsStill DEF hw
  <2> QED
    BY <1>3, <2>1, <2>2 DEF CreatePreflight
<1> QED
  BY <1>1, <1>2, <1>3

\* The push: one handler alone posts one entry, finds it again, and says so.
LEMMA PushStands ==
  ASSUME IInv, NEW w \in Workers, Standing(rows, dev, h[w]), Answered,
         PushList(w) \/ PushPost(w) \/ PushVerify(w)
  PROVE  Standing(rows, dev, h[w])'
<1>0. /\ h[w] \in Handler /\ rows \in [Rows -> Row] /\ Agree(rows, dev, h[w]) /\ rows' = rows
      /\ OnlyClaim(rows, h[w]) /\ PushHolds(rows, dev, h[w]) /\ QueueHolds(rows, h[w])
      /\ h[w].pc \in {"p_list", "p_post", "p_verify"} /\ h[w].row \in Rows
  BY IdFacts DEF Standing, PushList, PushPost, PushVerify, RowPcs
<1>1. ASSUME NEW hw, hw.row = h[w].row, hw.ip = h[w].ip, hw.mac = h[w].mac, hw.todo = h[w].todo,
             hw.pc \in {"p_post", "p_verify", "p_end"}, Become(w, hw),
             Agree(rows', dev', hw), Posted(hw) => \E d \in dev' : Wrote(hw, d)
      PROVE  Standing(rows, dev, h[w])'
  <2>1. OnlyClaim(rows', hw)
    BY <1>0, <1>1 DEF OnlyClaim, PushPcs
  <2>2. PushHolds(rows', dev', hw)
    BY <1>0, <1>1 DEF PushHolds, PushPcs
  <2>3. QueueHolds(rows', hw)
    BY <1>0, <1>1 DEF QueueHolds, PushPcs
  <2>4. UpdateHolds(rows', dev', hw) /\ ReleaseHolds(rows', dev', hw) /\ RefreshHolds(rows', dev', hw)
    BY <1>1 DEF UpdateHolds, ReleaseHolds, RefreshHolds, Put
  <2> QED
    BY <1>1, <2>1, <2>2, <2>3, <2>4, StandsStill DEF Standing
<1>2. ASSUME ~Posted(h[w]), dev' = dev, NEW out \in {"transient", "permanent"}, PushOut(w, out)
      PROVE  Standing(rows, dev, h[w])'
  <2> DEFINE hw == [h[w] EXCEPT !.pc = "p_end", !.out = out]
  <2>1. /\ hw.row = h[w].row /\ hw.ip = h[w].ip /\ hw.mac = h[w].mac /\ hw.todo = h[w].todo
        /\ hw.pc = "p_end" /\ hw.out = out
    BY <1>0 DEF Handler
  <2>2. Become(w, hw)
    BY <1>2 DEF PushOut
  <2> HIDE DEF hw
  <2>3. Agree(rows', dev', hw)
    BY <1>0, <1>2, AgreeAny DEF Ahead, Put
  <2> QED
    BY <1>1, <2>1, <2>2, <2>3 DEF Posted
<1>3. CASE PushList(w)
  <2>1. dev' = dev /\ ~Posted(h[w]) /\ ~Ahead(h[w])
    BY <1>3 DEF PushList, Posted, Ahead, Put
  <2>2. CASE Become(w, [h[w] EXCEPT !.pc = "p_post"])
    <3> DEFINE hw == [h[w] EXCEPT !.pc = "p_post"]
    <3>1. /\ hw.row = h[w].row /\ hw.ip = h[w].ip /\ hw.mac = h[w].mac /\ hw.todo = h[w].todo
          /\ hw.pc = "p_post"
      BY <1>0 DEF Handler
    <3> HIDE DEF hw
    <3>2. Agree(rows', dev', hw)
      BY <1>0, <2>1, AgreeAny
    <3> QED
      BY <1>1, <2>2, <3>1, <3>2 DEF Posted, hw
  <2>3. ASSUME NEW out \in {"transient", "permanent"}, PushOut(w, out)
        PROVE  Standing(rows, dev, h[w])'
    BY <1>2, <2>1, <2>3
  <2> QED
    BY <1>3, <2>2, <2>3 DEF PushList
<1>4. CASE PushPost(w)
  <2>1. h[w].pc = "p_post" /\ ~Posted(h[w]) /\ ~Ahead(h[w])
    BY <1>4 DEF PushPost, Posted, Ahead, Put
  <2>2. CASE dev' = dev /\ PushOut(w, "transient")
    BY <1>2, <2>1, <2>2
  <2>3. ASSUME ~Duplicate(h[w].ip, h[w].mac), PostEntry(w), NEW e \in {0, nextId},
               Become(w, [h[w] EXCEPT !.pc = "p_verify", !.entry = e])
        PROVE  Standing(rows, dev, h[w])'
    <3> DEFINE hw == [h[w] EXCEPT !.pc = "p_verify", !.entry = e]
    <3>1. /\ hw.row = h[w].row /\ hw.ip = h[w].ip /\ hw.mac = h[w].mac /\ hw.todo = h[w].todo
          /\ hw.pc = "p_verify" /\ hw.entry = e /\ Become(w, hw)
      BY <1>0, <2>3 DEF Handler
    <3> HIDE DEF hw
    <3>2. PICK n : /\ dev' = dev \cup {n} /\ n.id = nextId /\ n.ip = h[w].ip
                   /\ n.mac = h[w].mac /\ n.by = h[w].row
      <4> DEFINE n == [id |-> nextId, ip |-> h[w].ip, mac |-> h[w].mac, by |-> h[w].row]
      <4>1. /\ dev' = dev \cup {n} /\ n.id = nextId /\ n.ip = h[w].ip
            /\ n.mac = h[w].mac /\ n.by = h[w].row
        BY <2>3 DEF PostEntry
      <4> HIDE DEF n
      <4> QED
        BY <4>1
    <3>3. Posted(hw) /\ Wrote(hw, n)
      BY <3>1, <3>2 DEF Posted, Wrote
    <3>4. \A d \in dev : d.id # n.id /\ d.ip # n.ip
      BY <2>3, <3>2, IdFacts DEF Duplicate
    <3>5. Agree(rows', dev', hw)
      <4>1. \A d, x \in dev' : d.id = x.id \/ d.ip = x.ip => d = x
        BY <1>0, <3>2, <3>4 DEF Agree
      <4>2. \A d \in dev' : \/ \E q \in Rows : Live(rows[q]) /\ rows[q].entry = d.id
                            \/ Posted(hw) /\ Wrote(hw, d)
        BY <1>0, <2>1, <3>2, <3>3 DEF Agree
      <4>3. \A q \in Rows : rows[q].status = "active" /\ rows[q].push = "synced" =>
              \E d \in dev' : Shown(rows[q], d)
        BY <1>0, <2>1, <3>2 DEF Agree
      <4> QED
        BY <1>0, <4>1, <4>2, <4>3 DEF Agree
    <3> QED
      BY <1>1, <3>1, <3>2, <3>3, <3>5
  <2> QED
    BY <1>4, <2>2, <2>3, NoDisturb DEF PushPost
<1>5. CASE PushVerify(w)
  <2>1. dev' = dev /\ h[w].pc = "p_verify" /\ Posted(h[w]) /\ ~Ahead(h[w])
    BY <1>5 DEF PushVerify, Posted, Ahead, Put
  <2>2. PICK o \in dev : Wrote(h[w], o)
    BY <1>0, <2>1 DEF PushHolds
  <2>3. o \in ReadBack(h[w]) /\ \A d \in ReadBack(h[w]) : d = o
    <3>1. \A d \in dev : d.id # 0
      BY PointerFacts
    <3> QED
      BY <1>0, <2>1, <2>2, <3>1 DEF ReadBack, Wrote, Agree
  <2>4. Become(w, [h[w] EXCEPT !.pc = "p_end", !.out = "ok", !.entry = IF @ = 0 THEN o.id ELSE @])
    <3>1. o.ip = h[w].ip /\ o.mac = h[w].mac
      BY <2>2 DEF Wrote
    <3> QED
      BY <1>5, <2>3, <3>1, NoDisturb DEF PushVerify
  <2> DEFINE hw == [h[w] EXCEPT !.pc = "p_end", !.out = "ok", !.entry = IF @ = 0 THEN o.id ELSE @]
  <2>5. /\ hw.row = h[w].row /\ hw.ip = h[w].ip /\ hw.mac = h[w].mac /\ hw.todo = h[w].todo
        /\ hw.pc = "p_end" /\ hw.out = "ok" /\ hw.entry = IF h[w].entry = 0 THEN o.id ELSE h[w].entry
    BY <1>0 DEF Handler
  <2>6. Become(w, hw)
    BY <2>4
  <2> HIDE DEF hw
  <2>7. Posted(hw) /\ Wrote(hw, o) /\ ~Ahead(hw)
    BY <2>2, <2>5 DEF Posted, Wrote, Ahead, Put
  <2>8. \A d \in dev : Wrote(h[w], d) => d = o
    BY <1>0, <2>2 DEF Agree, Wrote
  <2>9. Agree(rows', dev', hw)
    BY <1>0, <2>1, <2>7, <2>8 DEF Agree
  <2> QED
    BY <1>1, <2>1, <2>5, <2>6, <2>7, <2>9
<1> QED
  BY <1>3, <1>4, <1>5

\* A write changes one row.
LEMMA WriteOthers ==
  ASSUME IInv, NEW r, NEW row, Write(r, row)
  PROVE  \A q \in Rows : q # r => rows'[q] = rows[q]
BY IdFacts DEF Write

\* A batch that goes on to its next row.
LEMMA QueueStands ==
  ASSUME NEW t, NEW D, NEW hw, hw.pc = "q_next", Agree(t, D, hw),
         \A s \in hw.todo : /\ s.on /\ Live(t[s.row])
                            /\ t[s.row].mac = s.r.mac /\ t[s.row].push # "synced",
         \A s, x \in hw.todo : s.row = x.row => s = x
  PROVE  Standing(t, D, hw)
BY DEF Standing, OnlyClaim, PushHolds, UpdateHolds, ReleaseHolds, QueueHolds, RefreshHolds,
   PushPcs, UpdatePcs, ReleasePcs, Posted, Put

\* The end of a push.
LEMMA EndStands ==
  ASSUME IInv, NEW w \in Workers, Standing(rows, dev, h[w]), CreateEnd(w) \/ RetryEnd(w)
  PROVE  Standing(rows, dev, h[w])'
<1>0. /\ h[w] \in Handler /\ rows \in [Rows -> Row] /\ Agree(rows, dev, h[w]) /\ dev' = dev
      /\ OnlyClaim(rows, h[w]) /\ PushHolds(rows, dev, h[w]) /\ QueueHolds(rows, h[w])
      /\ h[w].pc = "p_end" /\ h[w].row \in Rows /\ h[w].ip = rows[h[w].row].ip
  BY IdFacts DEF Standing, CreateEnd, RetryEnd, RowPcs
<1>1. /\ Live(rows[h[w].row]) /\ rows[h[w].row].mac = h[w].mac /\ rows[h[w].row].push # "synced"
      /\ ~Ahead(h[w])
  BY <1>0 DEF OnlyClaim, PushHolds, PushPcs, Ahead, Put
<1>2. PICK row : /\ Write(h[w].row, row) /\ \A hx : Agree(rows', dev', hx)
  <2>1. CASE h[w].out = "ok"
    <3> DEFINE row == Synced(rows[h[w].row], h[w].entry)
    <3>1. Write(h[w].row, row)
      BY <2>1 DEF CreateEnd, RetryEnd
    <3>2. /\ row.status = rows[h[w].row].status /\ row.push = "synced" /\ row.to
          /\ row.entry = h[w].entry /\ row.ip = h[w].ip /\ row.mac = h[w].mac
      BY <1>0, <1>1 DEF Synced, Row
    <3> HIDE DEF row
    <3>3. Posted(h[w])
      BY <1>0, <2>1 DEF Posted
    <3>4. PICK o \in dev : Wrote(h[w], o)
      BY <1>0, <3>3 DEF PushHolds
    <3>5. Shown(row, o) /\ \A d \in dev : Wrote(h[w], d) => d.id = o.id
      BY <1>0, <3>2, <3>4 DEF Shown, Wrote
    <3>6. \A d \in dev : d.id # rows[h[w].row].entry
      BY <1>0, <1>1, PointerFacts DEF Agree, Paired
    <3>7. ASSUME NEW hx PROVE Agree(rows', dev', hx)
      BY <1>0, <1>1, <3>1, <3>2, <3>5, <3>6, AgreeStamp
    <3> QED
      BY <3>1, <3>7
  <2>2. CASE h[w].out # "ok"
    <3>1. PICK row : /\ Write(h[w].row, row)
                     /\ row \in {[rows[h[w].row] EXCEPT !.to = TRUE, !.push = "pending",
                                                        !.tried = TRUE],
                                 [rows[h[w].row] EXCEPT !.push = "failed_permanent"],
                                 [rows[h[w].row] EXCEPT !.status = "deleted"],
                                 rows[h[w].row]}
      BY <2>2 DEF CreateEnd, RetryEnd
    <3>2. row.entry = rows[h[w].row].entry /\ row.push # "synced" /\ ~Posted(h[w])
      BY <1>0, <1>1, <2>2, <3>1 DEF Row, Posted
    <3>3. ASSUME NEW hx PROVE Agree(rows', dev', hx)
      BY <1>0, <1>1, <3>1, <3>2, AgreeWrite
    <3> QED
      BY <3>1, <3>3
  <2> QED
    BY <2>1, <2>2
<1>3. CASE Finish(w)
  BY <1>2, <1>3, IdleStands, StandsStill DEF Finish
<1>4. CASE Become(w, [h[w] EXCEPT !.pc = "q_next"])
  <2> DEFINE hw == [h[w] EXCEPT !.pc = "q_next"]
  <2>1. hw.pc = "q_next" /\ hw.todo = h[w].todo
    BY <1>0 DEF Handler
  <2> HIDE DEF hw
  <2>2. \A s \in h[w].todo : s.row \in Rows /\ rows'[s.row] = rows[s.row]
    BY <1>0, <1>2, WriteOthers DEF QueueHolds, PushPcs, Handler, Snap
  <2>3. Standing(rows', dev', hw)
    <3>1. \A s \in hw.todo : /\ s.on /\ Live(rows'[s.row])
                             /\ rows'[s.row].mac = s.r.mac /\ rows'[s.row].push # "synced"
      BY <1>0, <2>1, <2>2 DEF QueueHolds, PushPcs
    <3>2. \A s, x \in hw.todo : s.row = x.row => s = x
      BY <1>0, <2>1 DEF QueueHolds, PushPcs
    <3> QED
      BY <1>2, <2>1, <3>1, <3>2, QueueStands
  <2> QED
    BY <1>4, <2>3, StandsStill DEF hw
<1> QED
  BY <1>3, <1>4 DEF CreateEnd, RetryEnd

\* The snapshots a batch takes.
LEMMA SnapsStand ==
  ASSUME IInv, pushOn, NEW S \in SUBSET Rows, NEW t, \A r \in S : Live(t[r]),
         \A r \in S : t[r].mac = rows[r].mac /\ t[r].push # "synced",
         NEW D, NEW op, NEW hw, hw = [Idle EXCEPT !.pc = "q_next", !.op = op, !.todo = {SnapOf(r) : r \in S}],
         Agree(t, D, hw)
  PROVE  Standing(t, D, hw)
<1>1. hw.pc = "q_next" /\ hw.todo = {SnapOf(r) : r \in S}
  BY DEF Idle
<1>2. \A s \in hw.todo : s.row \in S /\ s = SnapOf(s.row) /\ s.on /\ s.r = rows[s.row]
  BY <1>1 DEF SnapOf
<1>3. \A s, x \in hw.todo : s.row = x.row => s = x
  BY <1>2
<1>4. \A s \in hw.todo : /\ s.on /\ Live(t[s.row])
                         /\ t[s.row].mac = s.r.mac /\ t[s.row].push # "synced"
  BY <1>2
<1> QED
  BY <1>1, <1>3, <1>4, QueueStands

\* The up-hook and retry-now.
LEMMA RetryBeginStands ==
  ASSUME IInv, NEW w \in Workers, pushOn, Standing(rows, dev, h[w]),
         HookBegin(w) \/ \E r \in Rows : RetryNowBegin(w, r)
  PROVE  Standing(rows, dev, h[w])'
<1>0. /\ rows \in [Rows -> Row] /\ Agree(rows, dev, h[w]) /\ dev' = dev
      /\ ~Posted(h[w]) /\ ~Ahead(h[w])
  BY IdFacts DEF Standing, HookBegin, RetryNowBegin, Begin, Posted, Ahead, Put
<1>1. CASE HookBegin(w)
  <2>1. rows' = rows
    BY <1>1 DEF HookBegin
  <2>2. CASE Scan(w, "hook")
    <3> DEFINE S == {q \in Rows : Queued(q)}
               hw == [Idle EXCEPT !.pc = "q_next", !.op = "hook", !.todo = {SnapOf(r) : r \in S}]
    <3>1. Become(w, hw)
      BY <2>2 DEF Scan
    <3>2. S \in SUBSET Rows /\ \A r \in S : Live(rows[r]) /\ rows[r].push # "synced"
      BY DEF Queued, Active, Live
    <3>3. Agree(rows, dev, hw)
      BY <1>0, AgreeAny
    <3>4. Standing(rows, dev, hw)
      <4> HIDE DEF S
      <4> QED
        BY <3>2, <3>3, SnapsStand
    <3> HIDE DEF hw
    <3> QED
      BY <1>0, <2>1, <3>1, <3>4, StandsStill
  <2>3. CASE UNCHANGED h
    BY <1>0, <2>1, <2>3
  <2> QED
    BY <1>1, <2>2, <2>3 DEF HookBegin
<1>2. ASSUME NEW r \in Rows, RetryNowBegin(w, r) PROVE Standing(rows, dev, h[w])'
  <2>1. /\ Become(w, [Idle EXCEPT !.pc = "q_next", !.op = "now", !.todo = {SnapOf(r)}])
        /\ rows' = [rows EXCEPT ![r].push = "pending"] /\ Active(r) /\ rows[r].push # "synced"
    BY <1>2 DEF RetryNowBegin
  <2> DEFINE hw == [Idle EXCEPT !.pc = "q_next", !.op = "now", !.todo = {SnapOf(q) : q \in {r}}]
             row == [rows[r] EXCEPT !.push = "pending"]
  <2>2. row.entry = rows[r].entry /\ row.push = "pending" /\ row.status = "active"
        /\ row.mac = rows[r].mac
    BY <1>0, <2>1 DEF Row, Active
  <2>3. Write(r, row) /\ rows'[r] = row
    BY <1>0, <2>1 DEF Write, Exists, Active
  <2>4. {SnapOf(q) : q \in {r}} = {SnapOf(r)}
    OBVIOUS
  <2>5. Become(w, hw)
    BY <2>1, <2>4
  <2> HIDE DEF row
  <2>6. Agree(rows', dev', hw)
    BY <1>0, <2>1, <2>2, <2>3, AgreeWrite DEF Live, Active
  <2>7. Standing(rows', dev', hw)
    BY <2>2, <2>3, <2>6, SnapsStand DEF Live
  <2> HIDE DEF hw
  <2> QED
    BY <2>5, <2>7, StandsStill
<1> QED
  BY <1>1, <1>2

\* A batch takes its next row.
LEMMA RetryNextStands ==
  ASSUME IInv, NEW w \in Workers, Standing(rows, dev, h[w]), RetryNext(w)
  PROVE  Standing(rows, dev, h[w])' /\ cancels' = cancels
<1>0. /\ h[w] \in Handler /\ rows \in [Rows -> Row] /\ Agree(rows, dev, h[w]) /\ dev' = dev
      /\ QueueHolds(rows, h[w])
      /\ h[w].pc = "q_next" /\ ~Posted(h[w]) /\ ~Ahead(h[w])
  BY IdFacts DEF Standing, RetryNext, Posted, Ahead, Put
<1>1. CASE Finish(w) /\ UNCHANGED <<rows, cancels>>
  BY <1>0, <1>1, GivesUp, StandsStill DEF Finish
<1>2. ASSUME NEW s \in h[w].todo,
             QueueCancel(w, s) \/ QueueCollide(w, s) \/ QueueSkip(w, s) \/ QueueTry(w, s)
      PROVE  Standing(rows, dev, h[w])' /\ cancels' = cancels
  <2>1. /\ s.row \in Rows /\ s.on /\ Live(rows[s.row]) /\ Exists(s.row)
        /\ rows[s.row].mac = s.r.mac /\ rows[s.row].push # "synced"
        /\ s.r.ip = rows[s.row].ip
    BY <1>0 DEF QueueHolds, Handler, Snap, Live, Exists, IInv, SnapRow
  <2>2. /\ \A x \in h[w].todo \ {s} : x.row # s.row /\ x.row \in Rows
        /\ \A x, y \in h[w].todo \ {s} : x.row = y.row => x = y
    BY <1>0 DEF QueueHolds, Handler, Snap
  <2>3. cancels' = cancels
    BY <1>2, <2>1 DEF QueueCancel, QueueCollide, QueueSkip, QueueTry
  <2>4. ASSUME \A q \in Rows : q # s.row => rows'[q] = rows[q]
        PROVE  \A x \in h[w].todo \ {s} :
                 /\ x.on /\ Live(rows'[x.row])
                 /\ rows'[x.row].mac = x.r.mac /\ rows'[x.row].push # "synced"
    BY <1>0, <2>2, <2>4 DEF QueueHolds
  <2>5. ASSUME Become(w, [h[w] EXCEPT !.todo = @ \ {s}]), \A hx : Agree(rows', dev', hx),
               \A q \in Rows : q # s.row => rows'[q] = rows[q]
        PROVE  Standing(rows, dev, h[w])'
    <3> DEFINE hw == [h[w] EXCEPT !.todo = @ \ {s}]
    <3>1. hw.pc = "q_next" /\ hw.todo = h[w].todo \ {s}
      BY <1>0 DEF Handler
    <3> HIDE DEF hw
    <3>2. Standing(rows', dev', hw)
      BY <2>2, <2>4, <2>5, <3>1, QueueStands
    <3> QED
      BY <2>5, <3>2, StandsStill DEF hw
  <2>6. CASE QueueSkip(w, s)
    <3>1. rows' = rows /\ Become(w, [h[w] EXCEPT !.todo = @ \ {s}])
      BY <2>6 DEF QueueSkip
    <3>2. \A hx : Agree(rows', dev', hx)
      BY <1>0, <3>1, AgreeAny
    <3> QED
      BY <2>3, <2>5, <3>1, <3>2
  <2>7. CASE QueueCollide(w, s)
    <3> DEFINE row == [rows[s.row] EXCEPT !.push = "failed_permanent", !.tried = TRUE]
    <3>1. row.entry = rows[s.row].entry /\ row.push # "synced"
      BY <1>0, <2>1 DEF Row
    <3>2. Write(s.row, row) /\ Become(w, [h[w] EXCEPT !.todo = @ \ {s}])
      BY <2>1, <2>7 DEF QueueCollide
    <3> HIDE DEF row
    <3>3. ASSUME NEW hx PROVE Agree(rows', dev', hx)
      BY <1>0, <2>1, <3>1, <3>2, AgreeWrite
    <3>4. \A q \in Rows : q # s.row => rows'[q] = rows[q]
      BY <3>2, WriteOthers
    <3> QED
      BY <2>3, <2>5, <3>2, <3>3, <3>4
  <2>8. CASE QueueTry(w, s)
    <3> DEFINE row == [rows[s.row] EXCEPT !.tried = TRUE]
               hw == [h[w] EXCEPT !.pc = "p_list", !.row = s.row, !.ip = s.r.ip,
                                  !.mac = s.r.mac, !.entry = 0, !.out = "none",
                                  !.todo = @ \ {s}]
    <3>1. /\ row.entry = rows[s.row].entry /\ row.push = rows[s.row].push
          /\ row.status = rows[s.row].status /\ row.mac = rows[s.row].mac
          /\ row.ip = rows[s.row].ip
      BY <1>0, <2>1 DEF Row
    <3>2. Write(s.row, row) /\ Become(w, hw) /\ ~Collider(s)
      BY <2>1, <2>8 DEF QueueTry
    <3>3. /\ hw.pc = "p_list" /\ hw.row = s.row /\ hw.ip = s.r.ip /\ hw.mac = s.r.mac
          /\ hw.todo = h[w].todo \ {s}
      BY <1>0 DEF Handler
    <3>4. rows'[s.row] = row
      BY <1>0, <2>1, <3>2 DEF Write
    <3> HIDE DEF row, hw
    <3>5. Agree(rows', dev', hw)
      BY <1>0, <2>1, <3>1, <3>2, AgreeWrite
    <3>6. \A q \in Rows : q # s.row => rows'[q] = rows[q]
      BY <3>2, WriteOthers
    <3>7. OnlyClaim(rows', hw)
      BY <2>1, <3>1, <3>2, <3>3, <3>4, <3>6 DEF OnlyClaim, Live, Collider, ActiveAt, Active
    <3>8. PushHolds(rows', dev', hw)
      BY <2>1, <3>1, <3>3, <3>4 DEF PushHolds, Posted
    <3>9. QueueHolds(rows', hw)
      BY <2>2, <2>4, <3>3, <3>6 DEF QueueHolds
    <3>10. Standing(rows', dev', hw)
      BY <3>3, <3>5, <3>7, <3>8, <3>9 DEF Standing, UpdateHolds, ReleaseHolds, RefreshHolds, Put
    <3> QED
      BY <2>3, <3>2, <3>10, StandsStill
  <2>9. CASE QueueCancel(w, s)
    BY <2>1, <2>9 DEF QueueCancel
  <2> QED
    BY <1>2, <2>6, <2>7, <2>8, <2>9
<1> QED
  BY <1>1, <1>2 DEF RetryNext

\* One row of an address is active.
LEMMA OneActive ==
  ASSUME IInv, NEW r \in Rows, Active(r)
  PROVE  \A q \in Rows : q # r /\ rows[q].ip = rows[r].ip => rows[q].status # "active"
BY DEF IInv, OneRowPerStatus, UniqueKey, Active

\* An update changes the entry of its own row only.
LEMMA UpdateStands ==
  ASSUME IInv, NEW w \in Workers, Standing(rows, dev, h[w]), Answered, pushOn,
         \/ \E r \in Rows, mac \in Macs : UpdateBegin(w, r, mac)
         \/ UpdateList(w) \/ UpdatePut(w) \/ UpdateVerify(w) \/ UpdateWrite(w)
  PROVE  Standing(rows, dev, h[w])'
<1>0. /\ h[w] \in Handler /\ rows \in [Rows -> Row] /\ Agree(rows, dev, h[w])
      /\ OnlyClaim(rows, h[w]) /\ UpdateHolds(rows, dev, h[w])
  BY IdFacts DEF Standing
<1>1. ASSUME NEW r \in Rows, NEW mac \in Macs, UpdateBegin(w, r, mac)
      PROVE  Standing(rows, dev, h[w])'
  <2> DEFINE hw == [Idle EXCEPT !.op = "update", !.row = r, !.ip = rows[r].ip,
                      !.mac = mac, !.entry = rows[r].entry, !.pc = UpdatePath(r)]
  <2>1. /\ hw.row = r /\ hw.ip = rows[r].ip /\ hw.entry = rows[r].entry /\ hw.out = "none"
        /\ hw.pc = UpdatePath(r)
    BY DEF Idle
  <2>2. Become(w, hw) /\ rows' = rows /\ dev' = dev /\ Active(r) /\ h[w].pc = "idle"
    BY <1>1 DEF UpdateBegin, Begin
  <2> HIDE DEF hw
  <2>3. hw.pc = "u_list" \/ (hw.pc = "u_write" /\ rows[r].push = "pending")
    BY <2>1 DEF UpdatePath, Queued
  <2>4. Agree(rows, dev, hw)
    BY <1>0, <2>2, AgreeAny DEF Posted, Ahead, Put
  <2>5. OnlyClaim(rows, hw)
    BY <2>1, <2>2, OneActive DEF OnlyClaim, Live, Active
  <2>6. UpdateHolds(rows, dev, hw)
    BY <2>1, <2>3 DEF UpdateHolds, Put
  <2>7. Standing(rows, dev, hw)
    BY <2>3, <2>4, <2>5, <2>6 DEF Standing, PushHolds, ReleaseHolds, QueueHolds, RefreshHolds,
       PushPcs, Posted
  <2> QED
    BY <2>2, <2>7, StandsStill
<1>2. CASE UpdateList(w)
  <2>1. /\ h[w].pc = "u_list" /\ rows' = rows /\ dev' = dev /\ ~Posted(h[w]) /\ ~Ahead(h[w])
        /\ h[w].entry = rows[h[w].row].entry
    BY <1>0, <1>2 DEF UpdateList, UpdateHolds, Posted, Ahead, Put
  <2>2. CASE Finish(w)
    BY <2>1, <2>2, GivesUp, StandsStill DEF Finish
  <2>3. ASSUME NEW d \in Located(h[w]), Become(w, [h[w] EXCEPT !.pc = "u_put", !.entry = d.id])
        PROVE  Standing(rows, dev, h[w])'
    <3> DEFINE hw == [h[w] EXCEPT !.pc = "u_put", !.entry = d.id]
    <3>1. hw.pc = "u_put" /\ hw.row = h[w].row /\ hw.ip = h[w].ip /\ hw.entry = d.id
      BY <1>0 DEF Handler
    <3> HIDE DEF hw
    <3>2. \A x \in dev : x.id = rows[h[w].row].entry => x.id = d.id
      BY <2>1 DEF Located
    <3>3. Agree(rows, dev, hw)
      BY <1>0, <2>1, AgreeAny
    <3>4. OnlyClaim(rows, hw) /\ UpdateHolds(rows, dev, hw)
      BY <1>0, <2>1, <3>1, <3>2 DEF OnlyClaim, UpdateHolds, Put, UpdatePcs
    <3>5. Standing(rows, dev, hw)
      BY <3>1, <3>3, <3>4 DEF Standing, PushHolds, ReleaseHolds, QueueHolds, RefreshHolds,
         PushPcs, Posted
    <3> QED
      BY <2>1, <2>3, <3>5, StandsStill DEF hw
  <2> QED
    BY <1>2, <2>2, <2>3 DEF UpdateList
<1>3. CASE UpdatePut(w)
  <2>1. /\ h[w].pc = "u_put" /\ rows' = rows /\ ~Posted(h[w]) /\ ~Ahead(h[w]) /\ h[w].row \in Rows
        /\ h[w].ip = rows[h[w].row].ip
        /\ \A d \in dev : d.id = rows[h[w].row].entry => d.id = h[w].entry
    BY <1>0, <1>3, IdFacts DEF UpdatePut, UpdateHolds, Posted, Ahead, Put, RowPcs
  <2>2. CASE Finish(w) /\ UNCHANGED dev
    BY <2>1, <2>2, GivesUp, StandsStill DEF Finish
  <2>3. CASE PutAccepted(h[w]) /\ PutEntry(h[w]) /\ Become(w, [h[w] EXCEPT !.pc = "u_verify"])
    <3> DEFINE hw == [h[w] EXCEPT !.pc = "u_verify"]
               New(d) == IF d.id = h[w].entry THEN [d EXCEPT !.mac = h[w].mac] ELSE d
    <3>1. /\ hw.pc = "u_verify" /\ hw.row = h[w].row /\ hw.ip = h[w].ip /\ hw.mac = h[w].mac
          /\ hw.entry = h[w].entry
      BY <1>0 DEF Handler
    <3> HIDE DEF hw
    <3>2. dev' = {New(d) : d \in dev}
      BY <2>3 DEF PutEntry
    <3>3. ASSUME NEW d \in dev
          PROVE  /\ New(d).id = d.id /\ New(d).ip = d.ip
                 /\ d.id = h[w].entry => New(d).mac = h[w].mac
                 /\ d.id # h[w].entry => New(d) = d
      BY IdFacts DEF Entry
    <3> HIDE DEF New
    <3>4. \A d, e \in dev' : d.id = e.id \/ d.ip = e.ip => d = e
      BY <1>0, <3>2, <3>3 DEF Agree
    <3>5. \A d \in dev' : \E r \in Rows : Live(rows[r]) /\ rows[r].entry = d.id
      BY <1>0, <2>1, <3>2, <3>3 DEF Agree
    <3>6. ASSUME NEW r \in Rows, rows[r].status = "active", rows[r].push = "synced", r # h[w].row
          PROVE  \E d \in dev' : Shown(rows[r], d)
      <4>1. PICK d \in dev : Shown(rows[r], d)
        BY <1>0, <2>1, <3>6 DEF Agree
      <4>2. rows[r].ip # h[w].ip
        BY <1>0, <2>1, <3>6 DEF OnlyClaim, UpdatePcs
      <4>3. d.id # h[w].entry
        BY <4>1, <4>2, PointerFacts DEF Shown
      <4> QED
        BY <3>2, <3>3, <4>1, <4>3
    <3>7. Ahead(hw) /\ Put(hw)
      BY <3>1 DEF Ahead, Put
    <3>8. Agree(rows', dev', hw)
      BY <1>0, <2>1, <3>1, <3>4, <3>5, <3>6, <3>7 DEF Agree
    <3>9. \A d \in dev' : d.id = rows[h[w].row].entry => d.id = h[w].entry
      BY <2>1, <3>2, <3>3
    <3>10. \E d \in dev' : d.id = h[w].entry /\ d.ip = h[w].ip /\ d.mac = h[w].mac
      <4>1. PICK d \in dev : d.id = h[w].entry
        BY <2>3 DEF PutAccepted
      <4>2. d.ip = h[w].ip
        BY <4>1, PointerFacts
      <4> QED
        BY <3>2, <3>3, <4>1, <4>2
    <3>11. UpdateHolds(rows', dev', hw)
      BY <2>1, <3>1, <3>9, <3>10 DEF UpdateHolds
    <3>12. OnlyClaim(rows', hw)
      BY <1>0, <2>1, <3>1 DEF OnlyClaim, UpdatePcs
    <3>13. Standing(rows', dev', hw)
      BY <3>1, <3>8, <3>11, <3>12 DEF Standing, PushHolds, ReleaseHolds, QueueHolds, RefreshHolds,
         PushPcs, Posted
    <3> QED
      BY <2>3, <3>13, StandsStill DEF hw
  <2> QED
    BY <1>3, <2>2, <2>3, NoDisturb DEF UpdatePut
<1>4. CASE UpdateVerify(w)
  <2>1. h[w].pc = "u_verify" /\ rows' = rows /\ dev' = dev /\ ~Posted(h[w]) /\ Ahead(h[w]) /\ Put(h[w])
    BY <1>4 DEF UpdateVerify, Posted, Ahead, Put
  <2>2. Become(w, [h[w] EXCEPT !.pc = "u_write", !.out = "ok"])
    BY <1>0, <1>4, <2>1, NoDisturb DEF UpdateVerify, UpdateHolds
  <2> DEFINE hw == [h[w] EXCEPT !.pc = "u_write", !.out = "ok"]
  <2>3. /\ hw.pc = "u_write" /\ hw.row = h[w].row /\ hw.ip = h[w].ip /\ hw.mac = h[w].mac
        /\ hw.entry = h[w].entry /\ hw.out = "ok" /\ Become(w, hw)
    BY <1>0, <2>2 DEF Handler
  <2> HIDE DEF hw
  <2>4. Agree(rows, dev, hw)
    BY <1>0, <2>1, <2>3 DEF Agree, Ahead, Put
  <2>5. OnlyClaim(rows, hw) /\ UpdateHolds(rows, dev, hw)
    BY <1>0, <2>1, <2>3 DEF OnlyClaim, UpdatePcs, UpdateHolds, Put
  <2>6. Standing(rows, dev, hw)
    BY <2>3, <2>4, <2>5 DEF Standing, PushHolds, ReleaseHolds, QueueHolds, RefreshHolds,
       PushPcs, Posted
  <2> QED
    BY <2>1, <2>3, <2>6, StandsStill
<1>5. CASE UpdateWrite(w)
  <2>1. /\ h[w].pc = "u_write" /\ Finish(w) /\ dev' = dev /\ ~Posted(h[w]) /\ h[w].row \in Rows
        /\ h[w].ip = rows[h[w].row].ip /\ Live(rows[h[w].row])
    BY <1>0, <1>5, IdFacts DEF UpdateWrite, RowPcs, Posted, OnlyClaim, UpdatePcs
  <2>2. CASE h[w].out = "ok"
    <3> DEFINE row == [[rows[h[w].row] EXCEPT !.mac = h[w].mac]
                         EXCEPT !.to = TRUE, !.entry = h[w].entry, !.push = "synced"]
    <3>1. /\ row.status = rows[h[w].row].status /\ row.push = "synced" /\ row.to
          /\ row.entry = h[w].entry /\ row.ip = h[w].ip /\ row.mac = h[w].mac
      BY <1>0, <2>1 DEF Row
    <3>2. Write(h[w].row, row)
      BY <1>5, <2>2 DEF UpdateWrite
    <3> HIDE DEF row
    <3>3. Put(h[w])
      BY <2>1, <2>2 DEF Put
    <3>4. PICK o \in dev : Shown(row, o)
      BY <1>0, <3>1, <3>3 DEF UpdateHolds, Shown
    <3>5. \A d \in dev : d.id = rows[h[w].row].entry => d.id = row.entry
      BY <1>0, <3>1, <3>3 DEF UpdateHolds
    <3>6. Agree(rows', dev', Idle)
      BY <1>0, <2>1, <3>1, <3>2, <3>4, <3>5, AgreeStamp
    <3> QED
      BY <2>1, <3>6, IdleStands, StandsStill DEF Finish
  <2>3. CASE h[w].out # "ok"
    <3> DEFINE row == [rows[h[w].row] EXCEPT !.mac = h[w].mac]
    <3>1. /\ row.status = rows[h[w].row].status /\ row.push = rows[h[w].row].push
          /\ row.entry = rows[h[w].row].entry
      BY <1>0, <2>1 DEF Row
    <3>2. Write(h[w].row, row)
      BY <1>5, <2>3 DEF UpdateWrite
    <3> HIDE DEF row
    <3>3. rows[h[w].row].push # "synced" /\ ~Ahead(h[w])
      BY <1>0, <2>1, <2>3 DEF UpdateHolds, Ahead, Put
    <3>4. Agree(rows', dev', Idle)
      BY <1>0, <2>1, <3>1, <3>2, <3>3, AgreeWrite
    <3> QED
      BY <2>1, <3>4, IdleStands, StandsStill DEF Finish
  <2> QED
    BY <2>2, <2>3
<1> QED
  BY <1>1, <1>2, <1>3, <1>4, <1>5

\* A release deletes the entry of its row, then the row's claim to it.
LEMMA ReleaseStands ==
  ASSUME IInv, NEW w \in Workers, Standing(rows, dev, h[w]), Answered,
         \/ \E r \in Rows : ReleaseBegin(w, r)
         \/ ReleaseRead(w) \/ ReleaseDelete(w) \/ ReleaseCommit(w)
  PROVE  Standing(rows, dev, h[w])'
<1>0. /\ h[w] \in Handler /\ rows \in [Rows -> Row] /\ Agree(rows, dev, h[w])
      /\ OnlyClaim(rows, h[w]) /\ ReleaseHolds(rows, dev, h[w])
  BY IdFacts DEF Standing
<1>1. ASSUME NEW hw, Become(w, hw), hw.pc \in ReleasePcs, rows' = rows,
             Agree(rows, dev', hw), OnlyClaim(rows, hw), ReleaseHolds(rows, dev', hw)
      PROVE  Standing(rows, dev, h[w])'
  <2>1. Standing(rows', dev', hw)
    BY <1>1 DEF Standing, PushHolds, UpdateHolds, QueueHolds, RefreshHolds, PushPcs, ReleasePcs,
       Posted, Put
  <2> QED
    BY <1>1, <2>1, StandsStill
<1>2. ASSUME NEW r \in Rows, ReleaseBegin(w, r) PROVE Standing(rows, dev, h[w])'
  <2> DEFINE hw == [Idle EXCEPT !.op = "release", !.row = r, !.ip = rows[r].ip,
                       !.entry = rows[r].entry, !.pc = ReleasePath(rows[r])]
  <2>1. /\ hw.row = r /\ hw.ip = rows[r].ip /\ hw.entry = rows[r].entry
        /\ hw.pc = ReleasePath(rows[r])
    BY DEF Idle
  <2>2. Become(w, hw) /\ dev' = dev /\ rows' = rows /\ h[w].pc = "idle" /\ Active(r)
    BY <1>2 DEF ReleaseBegin, Begin
  <2> HIDE DEF hw
  <2>3. Agree(rows, dev, hw)
    BY <1>0, <2>2, AgreeAny DEF Posted, Ahead, Put
  <2>4. OnlyClaim(rows, hw)
    BY <2>1, <2>2, OneActive DEF OnlyClaim, Live, Active
  <2>5. hw.pc = "r_read" \/ (hw.pc = "r_commit" /\ rows[r].entry = 0)
    <3>1. Paired(rows[r])
      BY <1>0, <2>2 DEF Agree, Live, Active
    <3> QED
      BY <2>1, <3>1 DEF ReleasePath, Paired
  <2>6. ReleaseHolds(rows, dev, hw)
    BY <2>1, <2>5, PointerFacts DEF ReleaseHolds
  <2> QED
    BY <1>1, <2>2, <2>3, <2>4, <2>5, <2>6 DEF ReleasePcs
<1>3. CASE ReleaseRead(w)
  <2>1. /\ h[w].pc = "r_read" /\ rows' = rows /\ dev' = dev /\ ~Posted(h[w]) /\ ~Ahead(h[w])
        /\ h[w].entry = rows[h[w].row].entry
    BY <1>0, <1>3 DEF ReleaseRead, ReleaseHolds, Posted, Ahead, Put
  <2>2. PICK hw : /\ Become(w, hw)
                  /\ \/ hw = [h[w] EXCEPT !.pc = "r_delete"]
                     \/ /\ hw = [h[w] EXCEPT !.pc = "r_commit", !.out = "absent"]
                        /\ \A d \in dev : d.id # h[w].entry
    BY <1>3, NoDisturb DEF ReleaseRead, UnpushReadLost
  <2>3. /\ hw.row = h[w].row /\ hw.ip = h[w].ip /\ hw.entry = h[w].entry
        /\ hw.pc = "r_delete" \/ (hw.pc = "r_commit" /\ \A d \in dev : d.id # h[w].entry)
    BY <1>0, <2>2 DEF Handler
  <2>4. Agree(rows, dev, hw)
    BY <1>0, <2>1, AgreeAny
  <2>5. OnlyClaim(rows, hw) /\ ReleaseHolds(rows, dev, hw)
    BY <1>0, <2>1, <2>3 DEF OnlyClaim, ReleaseHolds, ReleasePcs
  <2> QED
    BY <1>1, <2>1, <2>2, <2>3, <2>4, <2>5 DEF ReleasePcs
<1>4. CASE ReleaseDelete(w)
  <2>1. /\ h[w].pc = "r_delete" /\ rows' = rows /\ ~Posted(h[w]) /\ ~Ahead(h[w])
        /\ h[w].entry = rows[h[w].row].entry
    BY <1>0, <1>4 DEF ReleaseDelete, ReleaseHolds, Posted, Ahead, Put
  <2>2. PICK out : Become(w, [h[w] EXCEPT !.pc = "r_commit", !.out = out])
    BY <1>4 DEF ReleaseDelete
  <2> DEFINE hw == [h[w] EXCEPT !.pc = "r_commit", !.out = out]
  <2>3. hw.row = h[w].row /\ hw.ip = h[w].ip /\ hw.pc = "r_commit" /\ Become(w, hw)
    BY <1>0, <2>2 DEF Handler
  <2> HIDE DEF hw
  <2>4. dev' = {d \in dev : d.id # h[w].entry}
    BY <1>4, NoDisturb DEF ReleaseDelete
  <2>5. ReleaseHolds(rows, dev', hw) /\ OnlyClaim(rows, hw)
    BY <1>0, <2>1, <2>3, <2>4 DEF ReleaseHolds, OnlyClaim, ReleasePcs
  <2>6. Agree(rows, dev', hw)
    <3>1. ASSUME NEW r \in Rows, rows[r].status = "active", rows[r].push = "synced", r # h[w].row
          PROVE  \E d \in dev' : Shown(rows[r], d)
      <4>1. PICK d \in dev : Shown(rows[r], d)
        BY <1>0, <2>1, <3>1 DEF Agree
      <4>2. rows[r].ip # h[w].ip
        BY <1>0, <2>1, <3>1 DEF OnlyClaim, ReleasePcs
      <4>3. d.id # h[w].entry
        BY <4>1, <4>2, PointerFacts DEF Shown
      <4> QED
        BY <2>4, <4>1, <4>3
    <3>2. Ahead(hw)
      BY <2>3 DEF Ahead
    <3>3. \A d \in dev' : d \in dev
      BY <2>4
    <3> QED
      BY <1>0, <2>1, <2>3, <3>1, <3>2, <3>3 DEF Agree
  <2> QED
    BY <1>1, <2>1, <2>3, <2>5, <2>6 DEF ReleasePcs
<1>5. CASE ReleaseCommit(w)
  <2>1. /\ h[w].pc = "r_commit" /\ Finish(w) /\ dev' = dev /\ h[w].row \in Rows
        /\ Live(rows[h[w].row]) /\ \A d \in dev : d.id # rows[h[w].row].entry
    BY <1>0, <1>5, IdFacts DEF ReleaseCommit, RowPcs, OnlyClaim, ReleasePcs, ReleaseHolds
  <2>2. rows' = AfterRelease(h[w].row, h[w].ip)
    BY <1>5, <2>1 DEF ReleaseCommit, Live, Exists
  <2>3. ASSUME NEW q \in Rows
        PROVE  \/ rows'[q] = rows[q] /\ q # h[w].row
               \/ ~Live(rows'[q]) /\ (q = h[w].row \/ ~Live(rows[q]))
    <3>1. rows'[q] = IF q = h[w].row THEN Released(rows[q])
                     ELSE IF rows[q].status = "released" /\ rows[q].ip = h[w].ip
                          THEN [rows[q] EXCEPT !.status = "deleted"] ELSE rows[q]
      BY <2>2 DEF AfterRelease
    <3>2. Released(rows[q]).status = "released" /\ [rows[q] EXCEPT !.status = "deleted"].status = "deleted"
      BY <1>0 DEF Released, Row
    <3> QED
      BY <3>1, <3>2 DEF Live
  <2>4. Agree(rows', dev', Idle)
    <3>1. ~Posted(h[w])
      BY <2>1 DEF Posted
    <3>2. \A q \in Rows : Live(rows'[q]) => rows'[q] = rows[q] /\ q # h[w].row
      BY <2>3
    <3>3. \A q \in Rows : Live(rows'[q]) => Paired(rows'[q])
      BY <1>0, <3>2 DEF Agree
    <3>4. \A d \in dev : \E q \in Rows : Live(rows'[q]) /\ rows'[q].entry = d.id
      BY <1>0, <2>1, <2>3, <3>1 DEF Agree
    <3>5. \A q \in Rows : rows'[q].status = "active" /\ rows'[q].push = "synced" =>
            \E d \in dev : Shown(rows'[q], d)
      BY <1>0, <3>2 DEF Agree, Live
    <3> QED
      BY <1>0, <2>1, <3>3, <3>4, <3>5 DEF Agree
  <2> QED
    BY <2>1, <2>4, IdleStands, StandsStill DEF Finish
<1> QED
  BY <1>2, <1>3, <1>4, <1>5

\* A refresh that has its fresh view, or is done with it.
LEMMA RefreshOn ==
  ASSUME NEW t, NEW D, NEW hw, hw.pc \in {"f_list", "f_write", "f_release"}, Agree(t, D, hw),
         RefreshHolds(t, D, hw)
  PROVE  Standing(t, D, hw)
BY DEF Standing, OnlyClaim, PushHolds, UpdateHolds, ReleaseHolds, QueueHolds, PushPcs, UpdatePcs,
   ReleasePcs, Posted, Put

\* What a fresh line writes to its row agrees with the device.
LEMMA UpsertAgrees ==
  ASSUME IInv, NEW w \in Workers, Standing(rows, dev, h[w]), h[w].pc = "f_write", dev' = dev,
         NEW f \in h[w].fresh, NEW s \in h[w].todo, s.r.ip = f.ip, Write(s.row, Upserted(s, f)),
         NEW hx
  PROVE  /\ Agree(rows', dev', hx)
         /\ \A q \in Rows : rows'[q].ip = rows[q].ip /\ rows'[q].status = rows[q].status
<1>0. /\ rows \in [Rows -> Row] /\ h[w] \in Handler /\ Agree(rows, dev, h[w])
      /\ ~Posted(h[w]) /\ ~Ahead(h[w])
  BY IdFacts DEF Standing, Posted, Ahead, Put
<1>1. s.row \in Rows /\ rows[s.row].ip = f.ip /\ rows[s.row] \in Row
  BY <1>0 DEF Handler, Snap, IInv, SnapRow
<1>2. /\ Live(rows[s.row]) /\ rows[s.row].mac = s.r.mac /\ rows[s.row].push = s.r.push
      /\ IF f.entry = 0 THEN \A d \in dev : d.ip # f.ip
         ELSE \E d \in dev : d.id = f.entry /\ d.ip = f.ip /\ d.mac = f.mac
  BY DEF Standing, RefreshHolds, Unread
<1>3. Upserted(s, f).ip = rows[s.row].ip /\ Upserted(s, f).status = rows[s.row].status
  BY <1>1 DEF Upserted, Synced, Row
<1>4. \A q \in Rows : rows'[q].ip = rows[q].ip /\ rows'[q].status = rows[q].status
  BY <1>0, <1>3 DEF Write
<1>5. CASE s.r.push = "pending" /\ f.entry # 0 /\ s.r.mac = f.mac
  <2> DEFINE row == Synced(rows[s.row], f.entry)
  <2>1. Write(s.row, row)
    BY <1>5 DEF Upserted
  <2>2. /\ row.status = rows[s.row].status /\ row.push = "synced" /\ row.to
        /\ row.entry = f.entry /\ row.ip = f.ip /\ row.mac = f.mac
    BY <1>1, <1>2, <1>5 DEF Synced, Row
  <2> HIDE DEF row
  <2>3. PICK o \in dev : Shown(row, o)
    BY <1>2, <1>5, <2>2 DEF Shown
  <2>4. \A d \in dev : d.id # rows[s.row].entry
    BY <1>0, <1>1, <1>2, <1>5, PointerFacts DEF Agree, Paired
  <2>5. Agree(rows', dev', hx)
    BY <1>0, <1>1, <1>2, <2>1, <2>2, <2>3, <2>4, AgreeStamp
  <2> QED
    BY <1>4, <2>5
<1>6. CASE s.r.push = "pending" /\ ~(f.entry # 0 /\ s.r.mac = f.mac)
  <2> DEFINE row == [rows[s.row] EXCEPT !.push = "failed_permanent", !.tried = TRUE]
  <2>1. Write(s.row, row)
    BY <1>6 DEF Upserted
  <2>2. row.entry = rows[s.row].entry /\ row.push = "failed_permanent"
    BY <1>1 DEF Row
  <2> HIDE DEF row
  <2>3. Agree(rows', dev', hx)
    BY <1>0, <1>1, <1>2, <1>6, <2>1, <2>2, AgreeWrite
  <2> QED
    BY <1>4, <2>3
<1>7. CASE s.r.push # "pending"
  <2>1. PICK source, mac : /\ Upserted(s, f) = [rows[s.row] EXCEPT !.source = source, !.mac = mac]
                           /\ mac = IF s.r.mac = f.mac THEN rows[s.row].mac ELSE f.mac
    BY <1>7 DEF Upserted
  <2> DEFINE row == [rows[s.row] EXCEPT !.source = source, !.mac = mac]
  <2>2. /\ row.status = rows[s.row].status /\ row.entry = rows[s.row].entry
        /\ row.push = rows[s.row].push /\ row.ip = rows[s.row].ip /\ row.to = rows[s.row].to
        /\ row.mac = mac
    BY <1>1 DEF Row
  <2>3. Write(s.row, row)
    BY <2>1
  <2> HIDE DEF row
  <2>4. ASSUME rows[s.row].status = "active", rows[s.row].push = "synced"
        PROVE  mac = rows[s.row].mac
    <3>1. PICK d \in dev : Shown(rows[s.row], d)
      BY <1>0, <1>1, <2>4 DEF Agree
    <3>2. f.entry # 0
      BY <1>1, <1>2, <3>1 DEF Shown
    <3>3. PICK e \in dev : e.ip = f.ip /\ e.mac = f.mac
      BY <1>2, <3>2
    <3>4. d = e
      BY <1>0, <1>1, <3>1, <3>3 DEF Agree, Shown
    <3> QED
      BY <1>2, <2>1, <3>1, <3>3, <3>4 DEF Shown
  <2>5. Agree(rows', dev', hx)
    BY <1>0, <1>1, <2>2, <2>3, <2>4, AgreeKeep
  <2> QED
    BY <1>4, <2>5
<1> QED
  BY <1>5, <1>6, <1>7

\* A refresh that runs alone.
LEMMA RefreshStands ==
  ASSUME IInv, NEW w \in Workers, Standing(rows, dev, h[w]), Answered,
         RefreshBegin(w) \/ RefreshList(w) \/ RefreshWrite(w) \/ RefreshRelease(w)
  PROVE  Standing(rows, dev, h[w])'
<1>0. /\ rows \in [Rows -> Row] /\ h[w] \in Handler /\ Agree(rows, dev, h[w]) /\ dev' = dev
      /\ ~Posted(h[w]) /\ ~Ahead(h[w]) /\ RefreshHolds(rows, dev, h[w])
  BY IdFacts DEF Standing, RefreshBegin, RefreshList, RefreshWrite, RefreshRelease, Begin,
     Posted, Ahead, Put
<1>1. CASE RefreshBegin(w)
  <2> DEFINE T == {SnapOf(r) : r \in {q \in Rows : Active(q)}}
             hw == [Idle EXCEPT !.pc = "f_list", !.op = "refresh", !.todo = T]
  <2>1. rows' = rows /\ Become(w, hw)
    BY <1>1 DEF RefreshBegin
  <2>2. \A s \in T : Unread(rows, s)
    BY DEF SnapOf, Unread, Live, Active
  <2> HIDE DEF T
  <2>3. hw.pc = "f_list" /\ hw.todo = T
    BY DEF Idle
  <2> HIDE DEF hw
  <2>4. Agree(rows, dev, hw) /\ RefreshHolds(rows, dev, hw)
    BY <1>0, <2>2, <2>3, AgreeAny DEF RefreshHolds
  <2> QED
    BY <1>0, <2>1, <2>3, <2>4, RefreshOn, StandsStill
<1>2. CASE RefreshList(w)
  <2>1. h[w].pc = "f_list" /\ rows' = rows
    BY <1>2 DEF RefreshList
  <2> DEFINE cmdb == {[ip |-> d.ip, mac |-> d.mac, entry |-> d.id] : d \in dev}
             lease(L, m) == {[ip |-> i, mac |-> m, entry |-> 0] : i \in L}
             seen(L, m) == {f.ip : f \in cmdb \cup lease(L, m)}
             lost(L, m) == {s.row : s \in {x \in h[w].todo :
                              x.r.source # "manual" /\ x.r.ip \notin seen(L, m)}}
  <2>2. PICK L \in SUBSET {i \in Ips : ~\E d \in dev : d.ip = i}, m \in Macs :
          Become(w, [h[w] EXCEPT !.pc = "f_write", !.fresh = cmdb \cup lease(L, m),
                                 !.gone = lost(L, m)])
    BY <1>2, NoDisturb DEF RefreshList
  <2>3. PICK F, G : F = cmdb \cup lease(L, m) /\ G = lost(L, m)
    OBVIOUS
  <2>4. \A f \in F : \/ \E d \in dev : f.ip = d.ip /\ f.mac = d.mac /\ f.entry = d.id
                     \/ f.entry = 0 /\ f.mac = m /\ f.ip \in L
    BY <2>3
  <2>5. \A d \in dev : \E f \in F : f.ip = d.ip
    <3>1. ASSUME NEW d \in dev PROVE \E f \in F : f.ip = d.ip
      <4> DEFINE f == [ip |-> d.ip, mac |-> d.mac, entry |-> d.id]
      <4>1. f \in F
        BY <2>3
      <4>2. f.ip = d.ip
        OBVIOUS
      <4> QED
        BY <4>1, <4>2
    <3> QED
      BY <3>1
  <2>6. \A r \in G : \E s \in h[w].todo : r = s.row /\ \A f \in F : f.ip # s.r.ip
    BY <2>3
  <2>7. Become(w, [h[w] EXCEPT !.pc = "f_write", !.fresh = F, !.gone = G])
    BY <2>2, <2>3
  <2>8. \A f, g \in F : f.ip = g.ip => f = g
    <3>1. \A f \in F : f = [ip |-> f.ip, mac |-> f.mac, entry |-> f.entry]
      BY <2>3
    <3>2. \A f, g \in F : f.ip = g.ip => f.mac = g.mac /\ f.entry = g.entry
      BY <1>0, <2>4 DEF Agree
    <3> QED
      BY <3>1, <3>2
  <2> DEFINE hw == [h[w] EXCEPT !.pc = "f_write", !.fresh = F, !.gone = G]
  <2>9. hw.pc = "f_write" /\ hw.fresh = F /\ hw.gone = G /\ hw.todo = h[w].todo
    BY <1>0 DEF Handler
  <2>10. Become(w, hw)
    BY <2>7
  <2> HIDE DEF hw, cmdb, lease, seen, lost
  <2>11. \A f \in F : IF f.entry = 0 THEN \A d \in dev : d.ip # f.ip
                      ELSE \E d \in dev : d.id = f.entry /\ d.ip = f.ip /\ d.mac = f.mac
    BY <2>4, PointerFacts
  <2>12. \A r \in G : rows[r].status # "unborn" /\ \A d \in dev : d.ip # rows[r].ip
    BY <2>5, <2>6 DEF IInv, SnapRow
  <2>13. RefreshHolds(rows, dev, hw)
    BY <1>0, <2>1, <2>8, <2>9, <2>11, <2>12 DEF RefreshHolds
  <2>14. Agree(rows, dev, hw)
    BY <1>0, AgreeAny
  <2> QED
    BY <1>0, <2>1, <2>9, <2>10, <2>13, <2>14, RefreshOn, StandsStill
<1>3. CASE RefreshWrite(w)
  <2>1. h[w].pc = "f_write"
    BY <1>3 DEF RefreshWrite
  <2>2. CASE rows' = rows /\ Finish(w)
    BY <1>0, <2>2, GivesUp, StandsStill DEF Finish
  <2>3. ASSUME NEW f \in h[w].fresh, Become(w, [h[w] EXCEPT !.fresh = @ \ {f}]),
               \A hx : Agree(rows', dev', hx),
               \A q \in Rows : rows[q].status # "unborn" =>
                 rows'[q].ip = rows[q].ip /\ rows'[q].status = rows[q].status,
               \A q \in Rows : rows[q].status # "unborn" /\ rows[q].ip # f.ip => rows'[q] = rows[q]
        PROVE  Standing(rows, dev, h[w])'
    <3> DEFINE hw == [h[w] EXCEPT !.fresh = @ \ {f}]
    <3>1. /\ hw.pc = "f_write" /\ hw.fresh = h[w].fresh \ {f} /\ hw.gone = h[w].gone
          /\ hw.todo = h[w].todo
      BY <1>0, <2>1 DEF Handler
    <3> HIDE DEF hw
    <3>2. ASSUME NEW s \in hw.todo, NEW g \in hw.fresh, g.ip = s.r.ip PROVE Unread(rows', s)
      <4>1. Unread(rows, s) /\ g.ip # f.ip
        BY <1>0, <2>1, <2>3, <3>1, <3>2 DEF RefreshHolds
      <4>2. s.row \in Rows /\ rows[s.row].status # "unborn" /\ rows[s.row].ip = s.r.ip
        BY <1>0, <3>1 DEF Handler, Snap, IInv, SnapRow
      <4> QED
        BY <2>3, <3>2, <4>1, <4>2 DEF Unread
    <3>3. \A r \in hw.gone : rows'[r].status # "unborn" /\ \A d \in dev' : d.ip # rows'[r].ip
      BY <1>0, <2>1, <2>3, <3>1 DEF RefreshHolds, Handler
    <3>4. RefreshHolds(rows', dev', hw)
      BY <1>0, <2>1, <3>1, <3>2, <3>3 DEF RefreshHolds
    <3>5. Standing(rows', dev', hw)
      BY <2>3, <3>1, <3>4, RefreshOn
    <3> QED
      BY <2>3, <3>5, StandsStill DEF hw
  <2>4. ASSUME NEW f \in h[w].fresh, RefreshInsert(w, f) PROVE Standing(rows, dev, h[w])'
    <3>1. CASE ActiveAt(f.ip) # {}
      BY <2>2, <2>4, <3>1 DEF RefreshInsert
    <3>2. CASE ActiveAt(f.ip) = {}
      <4>1. PICK r \in Rows, source \in {"dhcp_lease", "dhcp_reservation"} :
              /\ rows[r].status = "unborn"
              /\ rows' = [rows EXCEPT ![r] = [Unborn EXCEPT !.ip = f.ip, !.mac = f.mac,
                                                !.status = "active", !.source = source]]
              /\ Become(w, [h[w] EXCEPT !.fresh = @ \ {f}])
        BY <2>4, <3>2 DEF RefreshInsert
      <4>2. rows'[r].entry = 0 /\ rows'[r].push = "null"
        BY <1>0, <4>1 DEF Unborn
      <4>3. \A q \in Rows : q # r => rows'[q] = rows[q]
        BY <1>0, <4>1
      <4>4. ASSUME NEW hx PROVE Agree(rows', dev', hx)
        BY <1>0, <4>1, <4>2, <4>3, AgreeInsert
      <4> QED
        BY <2>3, <4>1, <4>3, <4>4
    <3> QED
      BY <3>1, <3>2
  <2>5. ASSUME NEW f \in h[w].fresh, NEW s \in h[w].todo, s.r.ip = f.ip,
               IF LeftAlone(s) THEN UNCHANGED rows ELSE Write(s.row, Upserted(s, f)),
               IF Exists(s.row) \/ LeftAlone(s)
                 THEN Become(w, [h[w] EXCEPT !.fresh = @ \ {f}])
                 ELSE Finish(w)
        PROVE  Standing(rows, dev, h[w])'
    <3>1. s.row \in Rows /\ rows[s.row].ip = f.ip /\ Unread(rows, s)
      BY <1>0, <2>1, <2>5 DEF Handler, Snap, IInv, SnapRow, RefreshHolds
    <3>2. Become(w, [h[w] EXCEPT !.fresh = @ \ {f}])
      BY <2>5, <3>1 DEF Unread, Live, Exists
    <3>3. CASE rows' = rows
      <4>1. \A hx : Agree(rows', dev', hx)
        BY <1>0, <3>3, AgreeAny
      <4> QED
        BY <2>3, <3>2, <3>3, <4>1
    <3>4. CASE Write(s.row, Upserted(s, f))
      <4>1. ASSUME NEW hx
            PROVE  /\ Agree(rows', dev', hx)
                   /\ \A q \in Rows : rows'[q].ip = rows[q].ip /\ rows'[q].status = rows[q].status
        BY <1>0, <2>1, <2>5, <3>4, UpsertAgrees
      <4>2. \A q \in Rows : rows[q].ip # f.ip => rows'[q] = rows[q]
        BY <3>1, <3>4, WriteOthers
      <4> QED
        BY <2>3, <3>2, <4>1, <4>2
    <3> QED
      BY <2>5, <3>3, <3>4
  <2>6. CASE Become(w, [h[w] EXCEPT !.pc = "f_release"]) /\ rows' = rows
    <3> DEFINE hw == [h[w] EXCEPT !.pc = "f_release"]
    <3>1. hw.pc = "f_release" /\ hw.gone = h[w].gone
      BY <1>0 DEF Handler
    <3> HIDE DEF hw
    <3>2. RefreshHolds(rows, dev, hw) /\ Agree(rows, dev, hw)
      BY <1>0, <2>1, <3>1, AgreeAny DEF RefreshHolds
    <3>3. Standing(rows, dev, hw)
      BY <3>1, <3>2, RefreshOn
    <3> QED
      BY <1>0, <2>6, <3>3, StandsStill DEF hw
  <2> QED
    BY <1>3, <2>4, <2>5, <2>6 DEF RefreshWrite
<1>4. CASE RefreshRelease(w)
  <2>1. h[w].pc = "f_release"
    BY <1>4 DEF RefreshRelease
  <2>2. CASE rows' = rows /\ Finish(w)
    BY <1>0, <2>2, GivesUp, StandsStill DEF Finish
  <2>3. ASSUME NEW r \in h[w].gone, rows' = [rows EXCEPT ![r].status = "released"],
               Become(w, [h[w] EXCEPT !.gone = @ \ {r}])
        PROVE  Standing(rows, dev, h[w])'
    <3> DEFINE hw == [h[w] EXCEPT !.gone = @ \ {r}]
    <3>1. hw.pc = "f_release" /\ hw.gone = h[w].gone \ {r} /\ r \in Rows
      BY <1>0, <2>1 DEF Handler
    <3> HIDE DEF hw
    <3>2. \A q \in Rows : q # r => rows'[q] = rows[q]
      BY <1>0, <2>3
    <3>3. rows'[r].status = "released"
      BY <1>0, <2>3, <3>1 DEF Row
    <3>4. \A d \in dev : d.id # rows[r].entry
      BY <1>0, <2>1, <3>1, PointerFacts DEF RefreshHolds
    <3>5. Agree(rows', dev', hw)
      <4>1. \A q \in Rows : Live(rows'[q]) => rows'[q] = rows[q]
        BY <3>2, <3>3 DEF Live
      <4>2. \A d \in dev : \E q \in Rows : Live(rows'[q]) /\ rows'[q].entry = d.id
        BY <1>0, <3>2, <3>4 DEF Agree
      <4>3. \A q \in Rows : rows'[q].status = "active" => Live(rows'[q])
        BY DEF Live
      <4> QED
        BY <1>0, <4>1, <4>2, <4>3 DEF Agree
    <3>6. RefreshHolds(rows', dev', hw)
      BY <1>0, <2>1, <3>1, <3>2 DEF RefreshHolds, Handler
    <3>7. Standing(rows', dev', hw)
      BY <3>1, <3>5, <3>6, RefreshOn
    <3> QED
      BY <2>3, <3>7, StandsStill DEF hw
  <2> QED
    BY <1>4, <2>2, <2>3 DEF RefreshRelease
<1> QED
  BY <1>1, <1>2, <1>3, <1>4

\* The expiry job, at any moment.
LEMMA ExpireStands ==
  ASSUME IInv, NEW w \in Workers, Standing(rows, dev, h[w]), ExpireStale
  PROVE  Standing(rows, dev, h[w])'
<1>0. rows \in [Rows -> Row] /\ h[w] \in Handler /\ h' = h /\ dev' = dev
  BY IdFacts DEF ExpireStale
<1>1. \A q \in Rows : rows'[q] = IF Active(q) /\ rows[q].exp
                                 THEN [rows[q] EXCEPT !.status = "expired"] ELSE rows[q]
  BY DEF ExpireStale
<1>2. ASSUME NEW q \in Rows
      PROVE  /\ rows'[q].ip = rows[q].ip /\ rows'[q].mac = rows[q].mac
             /\ rows'[q].push = rows[q].push /\ rows'[q].to = rows[q].to
             /\ rows'[q].entry = rows[q].entry
             /\ rows'[q].status = rows[q].status
                \/ (rows[q].status = "active" /\ rows'[q].status = "expired")
  BY <1>0, <1>1 DEF Row, Active
<1>3. \A q \in Rows : /\ Live(rows'[q]) <=> Live(rows[q])
                      /\ Paired(rows'[q]) <=> Paired(rows[q])
                      /\ rows'[q].status = "active" => rows[q].status = "active"
                      /\ rows'[q].status = "unborn" <=> rows[q].status = "unborn"
  BY <1>2 DEF Live, Paired
<1>4. Agree(rows', dev, h[w])
  BY <1>2, <1>3 DEF Standing, Agree, Shown
<1>5. h[w].pc \in PushPcs \cup UpdatePcs \cup ReleasePcs => h[w].row \in Rows
  BY IdFacts DEF PushPcs, UpdatePcs, ReleasePcs, RowPcs
<1>6. \A s \in h[w].todo : s.row \in Rows
  BY <1>0 DEF Handler, Snap
<1>7. OnlyClaim(rows', h[w]) /\ PushHolds(rows', dev, h[w])
  BY <1>2, <1>3, <1>5 DEF Standing, OnlyClaim, PushHolds
<1>8. UpdateHolds(rows', dev, h[w]) /\ ReleaseHolds(rows', dev, h[w])
  BY <1>2, <1>5 DEF Standing, UpdateHolds, ReleaseHolds, UpdatePcs, ReleasePcs, Put
<1>9. QueueHolds(rows', h[w])
  BY <1>2, <1>3, <1>6 DEF Standing, QueueHolds
<1>10. RefreshHolds(rows', dev, h[w])
  <2>1. \A s \in h[w].todo : Unread(rows, s) => Unread(rows', s)
    BY <1>2, <1>3, <1>6 DEF Unread
  <2>2. h[w].gone \in SUBSET Rows
    BY <1>0 DEF Handler
  <2> QED
    BY <1>2, <1>3, <2>1, <2>2 DEF Standing, RefreshHolds
<1> QED
  BY <1>0, <1>4, <1>7, <1>8, <1>9, <1>10 DEF Standing

\* A handler's step is its own.
LEMMA OwnStep ==
  ASSUME IInv, NEW w \in Workers, Start(w) \/ Continue(w)
  PROVE  /\ \A v \in Workers : v # w => h'[v] = h[v]
         /\ pushOn' = pushOn /\ (cancels' = cancels \/ RetryNext(w))
<1>1. ASSUME \E hw : Become(w, hw) PROVE \A v \in Workers : v # w => h'[v] = h[v]
  BY <1>1, IdFacts DEF Become
<1>2. CASE \E ip \in Ips, mac \in Macs, exp \in Expirable : CreateBegin(w, ip, mac, exp)
  BY <1>1, <1>2 DEF CreateBegin
<1>3. CASE \E r \in Rows, mac \in Macs : UpdateBegin(w, r, mac)
  BY <1>1, <1>3 DEF UpdateBegin
<1>4. CASE \E r \in Rows : ReleaseBegin(w, r) \/ RetryNowBegin(w, r)
  BY <1>1, <1>4 DEF ReleaseBegin, RetryNowBegin
<1>5. CASE HookBegin(w)
  BY <1>1, <1>5 DEF HookBegin, Scan
<1>6. CASE RefreshBegin(w)
  BY <1>1, <1>6 DEF RefreshBegin
<1>7. CASE CreateInsert(w)
  BY <1>1, <1>7 DEF CreateInsert, Finish
<1>8. CASE CreatePreflight(w) \/ CreateEnd(w)
  BY <1>1, <1>8 DEF CreatePreflight, CreateEnd, Finish
<1>9. CASE PushList(w)
  BY <1>1, <1>9 DEF PushList, PushOut
<1>10. CASE PushPost(w)
  BY <1>1, <1>10 DEF PushPost, PushOut
<1>11. CASE PushVerify(w)
  BY <1>1, <1>11 DEF PushVerify, PushOut
<1>12. CASE RetryNext(w)
  BY <1>1, <1>12 DEF RetryNext, QueueCancel, QueueCollide, QueueSkip, QueueTry, Finish
<1>13. CASE RetryEnd(w)
  BY <1>1, <1>13 DEF RetryEnd, Finish
<1>14. CASE UpdateList(w)
  BY <1>1, <1>14 DEF UpdateList, Finish
<1>15. CASE UpdatePut(w)
  BY <1>1, <1>15 DEF UpdatePut, Finish
<1>16. CASE UpdateVerify(w) \/ UpdateWrite(w)
  BY <1>1, <1>16 DEF UpdateVerify, UpdateWrite, Finish
<1>17. CASE ReleaseRead(w)
  BY <1>1, <1>17 DEF ReleaseRead, UnpushReadLost
<1>18. CASE ReleaseDelete(w)
  BY <1>1, <1>18 DEF ReleaseDelete
<1>19. CASE ReleaseCommit(w)
  BY <1>1, <1>19 DEF ReleaseCommit, Finish
<1>20. CASE RefreshList(w)
  BY <1>1, <1>20 DEF RefreshList, Finish
<1>21. CASE RefreshWrite(w)
  BY <1>1, <1>21 DEF RefreshWrite, RefreshInsert, Finish
<1>22. CASE RefreshRelease(w)
  BY <1>1, <1>22 DEF RefreshRelease, Finish
<1> QED
  BY <1>2, <1>3, <1>4, <1>5, <1>6, <1>7, <1>8, <1>9, <1>10, <1>11, <1>12, <1>13, <1>14, <1>15,
     <1>16, <1>17, <1>18, <1>19, <1>20, <1>21, <1>22 DEF Start, Continue

\* An idle handler has no next step, and outside the slots none begins.
LEMMA OthersRest ==
  ASSUME NEW v \in Workers, h[v] = Idle, v \notin mix.slots
  PROVE  ~Start(v) /\ ~Continue(v)
<1>1. h[v].pc = "idle"
  BY DEF Idle
<1>2. ~Start(v)
  BY DEF Start, CreateBegin, UpdateBegin, ReleaseBegin, RetryNowBegin, HookBegin, RefreshBegin,
     Begin
<1>3. ~Continue(v)
  BY <1>1 DEF Continue, CreateInsert, CreatePreflight, CreateEnd, PushList, PushPost, PushVerify,
     RetryNext, RetryEnd, UpdateList, UpdatePut, UpdateVerify, UpdateWrite, ReleaseRead,
     ReleaseDelete, ReleaseCommit, RefreshList, RefreshWrite, RefreshRelease
<1> QED
  BY <1>2, <1>3

\* Every step of one handler alone keeps what it stands for.
LEMMA AloneNext ==
  ASSUME IInv, NEW w \in Requests, mix.slots = {w}, Answered, Alone(w),
         Standing(rows, dev, h[w]), Next
  PROVE  Alone(w)' /\ Standing(rows, dev, h[w])'
<1>0. w \in Workers /\ pushOn /\ cancels = {} /\ \A v \in Workers : v # w => h[v] = Idle
  BY DEF Workers, Alone
<1>1. ASSUME Start(w) \/ Continue(w) PROVE Alone(w)' /\ Standing(rows, dev, h[w])'
  <2>1. Standing(rows, dev, h[w])' /\ (RetryNext(w) => cancels' = cancels)
    <3>1. CASE Start(w)
      <4>1. ~RetryNext(w)
        BY <3>1 DEF Start, CreateBegin, UpdateBegin, ReleaseBegin, RetryNowBegin, HookBegin,
           RefreshBegin, Begin, RetryNext
      <4> QED
        BY <1>0, <3>1, <4>1, CreateStands, UpdateStands, ReleaseStands, RetryBeginStands,
           RefreshStands DEF Start
    <3>2. CASE Continue(w)
      <4>1. RetryNext(w) => Standing(rows, dev, h[w])' /\ cancels' = cancels
        BY <1>0, RetryNextStands
      <4> QED
        BY <1>0, <3>2, <4>1, CreateStands, PushStands, EndStands, UpdateStands, ReleaseStands,
           RefreshStands DEF Continue
    <3> QED
      BY <1>1, <3>1, <3>2
  <2>2. Alone(w)'
    BY <1>0, <1>1, <2>1, OwnStep DEF Alone
  <2> QED
    BY <2>1, <2>2
<1>2. ASSUME NEW v \in Workers, v # w PROVE ~(Start(v) \/ Continue(v))
  BY <1>0, <1>2, OthersRest
<1>3. ~TickBegin
  BY DEF Answered, TickBegin
<1>4. CASE ExpireStale
  BY <1>0, <1>4, ExpireStands DEF ExpireStale, Alone
<1>5. ~\E r \in Rows : CancelLand(r)
  BY <1>0 DEF CancelLand
<1>6. CASE Environment
  <2>1. UNCHANGED <<rows, dev, h, cancels, pushOn>>
    BY <1>6, NoDisturb DEF Environment, GateFall, GateUp, TogglePush, Crash, AdminAdd, AdminDelete
  <2> QED
    BY <2>1 DEF Alone
<1> QED
  BY <1>1, <1>2, <1>3, <1>4, <1>5, <1>6 DEF Next, Step

\* The invariant of sequential loads.
THEOREM SequentialHolds == Spec => []SequentialInv
<1>1. ASSUME Init PROVE SequentialInv
  <2>1. ASSUME NEW w \in Workers PROVE Alone(w) /\ Standing(rows, dev, h[w])
    <3>1. Agree(rows, dev, Idle)
      BY <1>1 DEF Init, Agree, Unborn, Live
    <3> QED
      BY <1>1, <3>1, IdleStands DEF Init, Alone
  <2> QED
    BY <2>1 DEF SequentialInv, Sequential, Workers
<1>2. ASSUME IInv, SequentialInv, [Next]_vars PROVE SequentialInv'
  <2> SUFFICES ASSUME Sequential' PROVE \A w \in mix'.slots : Alone(w)' /\ Standing(rows, dev, h[w])'
    BY DEF SequentialInv
  <2>1. mix' = mix
    BY <1>2 DEF Next, vars
  <2>2. PICK w \in Requests : mix.slots = {w}
    BY <2>1 DEF Sequential
  <2>3. Answered /\ Alone(w) /\ Standing(rows, dev, h[w])
    BY <1>2, <2>1, <2>2 DEF SequentialInv, Sequential, Answered
  <2>4. Alone(w)' /\ Standing(rows, dev, h[w])'
    <3>1. CASE UNCHANGED vars
      BY <2>3, <3>1 DEF vars, Alone
    <3> QED
      BY <1>2, <2>2, <2>3, <3>1, AloneNext
  <2> QED
    BY <2>1, <2>2, <2>4
<1> QED
  BY <1>1, <1>2, Inductive, PTL DEF Spec

\* At rest, after requests one at a time, a synced row and the device have
\* the same MAC: for any number of rows, addresses and requests of every kind,
\* refused pushes, expiries and gate flaps included.
THEOREM SyncedMacMatchesHolds == Spec => []SyncedMacMatches
<1>1. SequentialInv => SyncedMacMatches
  <2> SUFFICES ASSUME SequentialInv, Sequential, Quiescent, NEW r \in Rows, IsSynced(r)
               PROVE  \E d \in dev : d.id = rows[r].entry /\ d.ip = rows[r].ip /\ d.mac = rows[r].mac
    BY DEF SyncedMacMatches
  <2>1. PICK w \in Requests : mix.slots = {w}
    BY DEF Sequential
  <2>2. Agree(rows, dev, h[w]) /\ h[w].pc = "idle"
    BY <2>1 DEF SequentialInv, Standing, Quiescent, Workers
  <2> QED
    BY <2>2 DEF Agree, Ahead, Put, IsSynced, Active, Shown
<1> QED
  BY <1>1, SequentialHolds, PTL

\* At rest, likewise, no entry Polaris wrote has been forgotten: a row that a
\* release can find points to it.
THEOREM NoOrphanHolds == Spec => []NoOrphan
<1>1. SequentialInv => NoOrphan
  <2> SUFFICES ASSUME SequentialInv, Sequential, Quiescent, NEW d \in dev
               PROVE  \E r \in Rows : rows[r].status \in {"active", "expired"} /\ rows[r].entry = d.id
    BY DEF NoOrphan
  <2>1. PICK w \in Requests : mix.slots = {w}
    BY DEF Sequential
  <2>2. Agree(rows, dev, h[w]) /\ h[w].pc = "idle"
    BY <2>1 DEF SequentialInv, Standing, Quiescent, Workers
  <2> QED
    BY <2>2 DEF Agree, Posted, Live
<1> QED
  BY <1>1, SequentialHolds, PTL

=============================================================================
