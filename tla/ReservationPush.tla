--------------------------- MODULE ReservationPush ---------------------------
(***************************************************************************)
(* IP reservations of one subnet and the DHCP reserved-address table of    *)
(* the FortiGate that serves it.                                           *)
(*                                                                         *)
(* Polaris keeps a reservation row per claimed IP and, when the subnet's   *)
(* integration has pushReservations=true, writes the claim to the          *)
(* FortiGate.  The handlers (create, update, release, the 60 s retry tick, *)
(* the monitor's up-hook, retry-now, refreshSubnet) are asynchronous       *)
(* functions of one Node process: they interleave at every await, nothing  *)
(* serialises them, and every write to a row is an unconditional update by *)
(* row id.  A handler is therefore a slot h[w] that remembers what it has  *)
(* read; each action is the code between two awaits.                       *)
(*                                                                         *)
(* Time (pushLastAttemptAt, pushQueuedAt, expiresAt) is abstracted to      *)
(* Booleans, hostname/notes/description and the audit log are left out,    *)
(* one DHCP scope stands for findScopeIdForCidr's answer.                  *)
(***************************************************************************)
EXTENDS Naturals, FiniteSets

CONSTANTS
  Rows,        \* reservation ids; an id is used once, as a uuid is
  Ips,         \* addresses of the subnet
  Macs,        \* normalised MAC addresses
  Requests,    \* slots for handlers that run at the same time as the tick
  Tick,        \* the slot of the retry tick: its running flag allows one pass
  Mixes,       \* the loads: which operations happen, in which slots
  Monitored,   \* is the firewall Asset monitored?
  MaxEntry,    \* bound on the device entries ever created
  MaxDisturb,  \* bound on lost calls, crashes, admin edits, gate flaps, toggles
  None,        \* no row, no address, no MAC
  Admin        \* author of entries that Polaris did not write

Workers == Requests \cup {Tick}

AllHandlers == {"create", "update", "release", "expire", "tick", "hook", "now",
                "refresh", "lose", "refuse", "crash", "admin", "gate", "toggle"}

ASSUME SlotsAssumption == Tick \notin Requests
ASSUME MixesAssumption ==
  Mixes \subseteq [does : SUBSET AllHandlers, slots : SUBSET Requests]
ASSUME MonitoredAssumption == Monitored \in BOOLEAN
ASSUME BoundsAssumption == MaxEntry \in Nat /\ MaxDisturb \in Nat
ASSUME AdminAssumption == Admin \notin Rows
ASSUME NoneAssumption == None \notin Rows \cup Ips \cup Macs

VARIABLES
  mix,       \* the load of this behaviour; no step changes it
  rows,      \* the reservations table
  dev,       \* the FortiGate's reserved-address entries for the scope
  nextId,    \* the id FortiOS gives the next entry
  h,         \* the handler in each slot
  cancels,   \* fire-and-forget cancel writes that have not reached the database
  gate,      \* Asset.monitorStatus of the firewall
  hookDue,   \* an up-transition whose retry hook has not run yet
  pushOn,    \* the integration's pushReservations flag
  disturb    \* how many disturbances have happened (bound MaxDisturb)

vars == <<mix, rows, dev, nextId, h, cancels, gate, hookDue, pushOn, disturb>>

-----------------------------------------------------------------------------
(* State.                                                                  *)

Ids == 1..MaxEntry

Row == [ip: Ips \cup {None}, mac: Macs \cup {None}, exp: BOOLEAN,
        status: {"unborn", "active", "released", "expired", "deleted"},
        source: {"manual", "dhcp_reservation", "dhcp_lease"},
        push: {"null", "pending", "synced", "failed_permanent"},
        to: BOOLEAN, entry: Ids \cup {0}, tried: BOOLEAN]

Entry == [id: Ids, ip: Ips, mac: Macs, by: Rows \cup {Admin}]

\* What a handler read of a row: the row, its id and the push toggle.
Snap == [row: Rows, r: Row, on: BOOLEAN]

\* One line of refreshSubnet's fresh view; entry 0 is a lease (no CMDB id).
Fresh == [ip: Ips, mac: Macs, entry: Ids \cup {0}]

\* monitorStatus: "warning" stands for every state that is neither up nor down.
GateStates == {"up", "warning", "down"}

Unborn == [ip |-> None, mac |-> None, exp |-> FALSE, status |-> "unborn",
           source |-> "manual", push |-> "null", to |-> FALSE, entry |-> 0,
           tried |-> FALSE]

Idle == [pc |-> "idle", op |-> "none", row |-> None, ip |-> None,
         mac |-> None, on |-> FALSE, exp |-> FALSE, entry |-> 0, out |-> "none",
         todo |-> {}, fresh |-> {}, gone |-> {}]

Pcs == {"idle", "c_insert", "c_preflight", "p_list", "p_post", "p_verify", "p_end",
        "q_next", "u_list", "u_put", "u_verify", "u_write", "r_read", "r_delete",
        "r_commit", "f_list", "f_write", "f_release"}

Handler == [pc: Pcs,
            op: {"none", "create", "update", "release", "tick", "hook", "now", "refresh"},
            row: Rows \cup {None}, ip: Ips \cup {None}, mac: Macs \cup {None},
            on: BOOLEAN, exp: BOOLEAN,
            entry: Ids \cup {0},
            out: {"none", "ok", "transient", "permanent", "absent", "removed", "failed"},
            todo: SUBSET Snap, fresh: SUBSET Fresh, gone: SUBSET Rows]

TypeOK ==
  /\ rows \in [Rows -> Row]
  /\ dev \subseteq Entry
  /\ nextId \in 1..(MaxEntry + 1)
  /\ h \in [Workers -> Handler]
  /\ cancels \subseteq Rows
  /\ gate \in GateStates
  /\ hookDue \in BOOLEAN
  /\ pushOn \in BOOLEAN
  /\ disturb \in 0..MaxDisturb

Init ==
  /\ mix \in Mixes
  /\ rows = [r \in Rows |-> Unborn]
  /\ dev = {}
  /\ nextId = 1
  /\ h = [w \in Workers |-> Idle]
  /\ cancels = {}
  /\ gate = "up"
  /\ hookDue = FALSE
  /\ pushOn = TRUE
  /\ disturb = 0

-----------------------------------------------------------------------------
(* Rows and the database.                                                  *)

Exists(r) == rows[r].status \notin {"unborn", "deleted"}
Active(r) == rows[r].status = "active"
ActiveAt(ip) == {r \in Rows : Active(r) /\ rows[r].ip = ip}
Queued(r) == Active(r) /\ rows[r].push = "pending"

\* @@unique([subnetId, ipAddress, status])
UniqueKey(t) ==
  \A r, s \in Rows :
    (r # s /\ t[r].ip = t[s].ip /\ t[r].status = t[s].status)
      => t[r].status \in {"unborn", "deleted"}

Mut_SyncedNoPointer(row, e) ==
  [row EXCEPT !.source = "dhcp_reservation", !.to = TRUE, !.push = "synced",
              !.tried = FALSE]

\* The columns a push that landed stamps, and the ones a release clears.
Synced(row, e) == [row EXCEPT !.source = "dhcp_reservation", !.to = TRUE,
                              !.entry = e, !.push = "synced", !.tried = FALSE]
Released(row) == [row EXCEPT !.status = "released", !.to = FALSE, !.entry = 0,
                             !.push = "null", !.tried = FALSE]

SnapOf(r) == [row |-> r, r |-> rows[r], on |-> pushOn]

\* prisma.reservation.update by id: rejects (P2025) when the row is gone.
Write(r, row) == rows' = IF Exists(r) THEN [rows EXCEPT ![r] = row] ELSE rows

(* Disturbances: what the environment does to a call or to the process.    *)
Disturb(kind) ==
  /\ kind \in mix.does
  /\ disturb < MaxDisturb
  /\ disturb' = disturb + 1
Calm == UNCHANGED disturb

Become(w, hw) == h' = [h EXCEPT ![w] = hw]
Finish(w) == Become(w, Idle)
Begin(w, op) == op \in mix.does /\ w \in mix.slots /\ h[w].pc = "idle"

-----------------------------------------------------------------------------
(* createReservation.                                                      *)

\* The collision check and push eligibility, on what is read now.
CreateBegin(w, ip, mac, exp) ==
  /\ Begin(w, "create")
  /\ ActiveAt(ip) = {}
  /\ Become(w, [Idle EXCEPT !.pc = "c_insert", !.op = "create", !.ip = ip,
                            !.mac = mac, !.exp = exp, !.on = pushOn])
  /\ UNCHANGED <<rows, dev, nextId, cancels, gate, hookDue, pushOn, disturb>>

\* The insert; the unique key rejects it when another create won the address.
CreateInsert(w) ==
  LET hw == h[w] IN
  /\ hw.pc = "c_insert"
  /\ \/ /\ ActiveAt(hw.ip) # {}
        /\ Finish(w)
        /\ UNCHANGED rows
     \/ /\ ActiveAt(hw.ip) = {}
        /\ \E r \in Rows :
             /\ rows[r].status = "unborn"
             /\ rows' = [rows EXCEPT ![r] =
                  [Unborn EXCEPT !.ip = hw.ip, !.mac = hw.mac, !.exp = hw.exp,
                                 !.status = "active"]]
             /\ IF hw.on THEN Become(w, [hw EXCEPT !.pc = "c_preflight", !.row = r])
                         ELSE Finish(w)
  /\ UNCHANGED <<dev, nextId, cancels, gate, hookDue, pushOn, disturb>>

\* firewallKnownDown queues the row without a transport attempt.
CreatePreflight(w) ==
  LET hw == h[w] IN
  /\ hw.pc = "c_preflight"
  /\ IF Monitored /\ gate = "down"
       THEN /\ Write(hw.row, [rows[hw.row] EXCEPT !.to = TRUE, !.push = "pending",
                                                  !.tried = FALSE])
            /\ Finish(w)
       ELSE /\ Become(w, [hw EXCEPT !.pc = "p_list"])
            /\ UNCHANGED rows
  /\ UNCHANGED <<dev, nextId, cancels, gate, hookDue, pushOn, disturb>>

\* The three outcomes of the create-time push.
CreateEnd(w) ==
  LET hw == h[w]
      row == rows[hw.row]
  IN
  /\ hw.pc = "p_end" /\ hw.op = "create"
  /\ Write(hw.row,
       CASE hw.out = "ok"        -> Synced(row, hw.entry)
         [] hw.out = "transient" -> [row EXCEPT !.to = TRUE, !.push = "pending",
                                                !.tried = TRUE]
         [] hw.out = "permanent" -> [row EXCEPT !.status = "deleted"]
         [] OTHER                -> row)
  /\ Finish(w)
  /\ UNCHANGED <<dev, nextId, cancels, gate, hookDue, pushOn, disturb>>

-----------------------------------------------------------------------------
(* pushReservation: list, POST, list again.                                *)

PushOut(w, out) == Become(w, [h[w] EXCEPT !.pc = "p_end", !.out = out])

\* Resolving the transport and the scope, then the collision pre-check.
PushList(w) ==
  LET hw == h[w] IN
  /\ hw.pc = "p_list"
  /\ \/ Disturb("lose") /\ PushOut(w, "transient")
     \/ Disturb("refuse") /\ PushOut(w, "permanent")
     \/ /\ Calm
        /\ IF \E d \in dev : d.ip = hw.ip \/ d.mac = hw.mac
             THEN PushOut(w, "permanent")
             ELSE Become(w, [hw EXCEPT !.pc = "p_post"])
  /\ UNCHANGED <<rows, dev, nextId, cancels, gate, hookDue, pushOn>>

\* FortiOS refuses a second entry with the IP or the MAC (a plain 502).
Duplicate(ip, mac) == \E d \in dev : d.ip = ip \/ d.mac = mac

PostEntry(w) ==
  /\ nextId <= MaxEntry
  /\ dev' = dev \cup {[id |-> nextId, ip |-> h[w].ip, mac |-> h[w].mac, by |-> h[w].row]}
  /\ nextId' = nextId + 1

\* The write: refused, lost on the way, applied with the reply lost, or
\* applied with or without the new id echoed.
PushPost(w) ==
  LET hw == h[w] IN
  /\ hw.pc = "p_post"
  /\ \/ /\ Duplicate(hw.ip, hw.mac)
        /\ Calm
        /\ PushOut(w, "transient")
        /\ UNCHANGED <<dev, nextId>>
     \/ /\ Disturb("lose")
        /\ PushOut(w, "transient")
        /\ UNCHANGED <<dev, nextId>>
     \/ /\ ~Duplicate(hw.ip, hw.mac)
        /\ PostEntry(w)
        /\ \/ Disturb("lose") /\ PushOut(w, "transient")
           \/ /\ Calm
              /\ \E e \in {0, nextId} :
                   Become(w, [hw EXCEPT !.pc = "p_verify", !.entry = e])
  /\ UNCHANGED <<rows, cancels, gate, hookDue, pushOn>>

\* Entries the read-back accepts: the echoed id, else the same IP and MAC.
ReadBack(hw) ==
  LET byId == {d \in dev : d.id = hw.entry}
  IN IF byId # {} THEN byId ELSE {d \in dev : d.ip = hw.ip /\ d.mac = hw.mac}

PushVerify(w) ==
  LET hw == h[w] IN
  /\ hw.pc = "p_verify"
  /\ \/ Disturb("lose") /\ PushOut(w, "transient")
     \/ /\ Calm
        /\ ReadBack(hw) = {}
        /\ PushOut(w, "permanent")
     \/ /\ Calm
        /\ \E d \in ReadBack(hw) :
             IF d.ip = hw.ip /\ d.mac = hw.mac
               THEN Become(w, [hw EXCEPT !.pc = "p_end", !.out = "ok",
                                         !.entry = IF @ = 0 THEN d.id ELSE @])
               ELSE PushOut(w, "permanent")
  /\ UNCHANGED <<rows, dev, nextId, cancels, gate, hookDue, pushOn>>

-----------------------------------------------------------------------------
(* The retry queue.                                                        *)

\* retryPendingReservations reads the whole queue once, before any attempt.
Scan(w, op) ==
  LET todo == {SnapOf(r) : r \in {q \in Rows : Queued(q)}} IN
  /\ todo # {}
  /\ Become(w, [Idle EXCEPT !.pc = "q_next", !.op = op, !.todo = todo])

TickBegin ==
  /\ "tick" \in mix.does
  /\ h[Tick].pc = "idle"
  /\ Scan(Tick, "tick")
  /\ UNCHANGED <<rows, dev, nextId, cancels, gate, hookDue, pushOn, disturb>>

\* triggerRetryAfterStatusChange: fired on up, does not consult running.
HookBegin(w) ==
  /\ Begin(w, "hook")
  /\ hookDue
  /\ hookDue' = FALSE
  /\ \/ Scan(w, "hook")
     \/ /\ \A r \in Rows : ~Queued(r)
        /\ UNCHANGED h
  /\ UNCHANGED <<rows, dev, nextId, cancels, gate, pushOn, disturb>>

\* retryReservationNow: failed_permanent re-joins the queue first.
RetryNowBegin(w, r) ==
  /\ Begin(w, "now")
  /\ Active(r)
  /\ rows[r].push \in {"pending", "failed_permanent"}
  /\ rows' = [rows EXCEPT ![r].push = "pending"]
  /\ Become(w, [Idle EXCEPT !.pc = "q_next", !.op = "now", !.todo = {SnapOf(r)}])
  /\ UNCHANGED <<dev, nextId, cancels, gate, hookDue, pushOn, disturb>>

\* attemptQueuedPush up to the transport: eligibility of the SNAPSHOT, then
\* the collider, then the readiness gates (retry-now has none).
Collider(s) == \E c \in ActiveAt(s.r.ip) : c # s.row
MaySkip(op, s) == op # "now" /\ IF Monitored THEN gate # "up" ELSE s.r.tried
Mut_MayTry(op, s) == op = "now"
MayTry(op, s) == op = "now" \/ ~Monitored \/ gate = "up"

QueueCancel(w, s) ==
  /\ ~s.on
  /\ cancels' = cancels \cup {s.row}
  /\ Become(w, [h[w] EXCEPT !.todo = @ \ {s}])
  /\ UNCHANGED rows

QueueCollide(w, s) ==
  /\ s.on /\ Collider(s)
  /\ Write(s.row, [rows[s.row] EXCEPT !.push = "failed_permanent", !.tried = TRUE])
  /\ IF Exists(s.row) THEN Become(w, [h[w] EXCEPT !.todo = @ \ {s}]) ELSE Finish(w)
  /\ UNCHANGED cancels

QueueSkip(w, s) ==
  /\ s.on /\ ~Collider(s) /\ MaySkip(h[w].op, s)
  /\ Become(w, [h[w] EXCEPT !.todo = @ \ {s}])
  /\ UNCHANGED <<rows, cancels>>

QueueTry(w, s) ==
  /\ s.on /\ ~Collider(s) /\ MayTry(h[w].op, s)
  /\ Write(s.row, [rows[s.row] EXCEPT !.tried = TRUE])
  /\ IF Exists(s.row)
       THEN Become(w, [h[w] EXCEPT !.pc = "p_list", !.row = s.row, !.ip = s.r.ip,
                                   !.mac = s.r.mac, !.entry = 0, !.out = "none",
                                   !.todo = @ \ {s}])
       ELSE Finish(w)
  /\ UNCHANGED cancels

RetryNext(w) ==
  /\ h[w].pc = "q_next"
  /\ \/ \E s \in h[w].todo : \/ QueueCancel(w, s)
                             \/ QueueCollide(w, s)
                             \/ QueueSkip(w, s)
                             \/ QueueTry(w, s)
     \/ /\ h[w].todo = {}
        /\ Finish(w)
        /\ UNCHANGED <<rows, cancels>>
  /\ UNCHANGED <<dev, nextId, gate, hookDue, pushOn, disturb>>

\* The outcome is written whatever became of the row; a missing row rejects
\* the update and with it the rest of the batch.
RetryEnd(w) ==
  LET hw == h[w]
      row == rows[hw.row]
  IN
  /\ hw.pc = "p_end" /\ hw.op \in {"tick", "hook", "now"}
  /\ Write(hw.row,
       CASE hw.out = "ok"        -> Synced(row, hw.entry)
         [] hw.out = "permanent" -> [row EXCEPT !.push = "failed_permanent"]
         [] OTHER                -> row)
  /\ IF Exists(hw.row) THEN Become(w, [hw EXCEPT !.pc = "q_next"]) ELSE Finish(w)
  /\ UNCHANGED <<dev, nextId, cancels, gate, hookDue, pushOn, disturb>>

\* cancelReason's write is not awaited: it lands some time later.
CancelLand(r) ==
  /\ r \in cancels
  /\ cancels' = cancels \ {r}
  /\ Write(r, [rows[r] EXCEPT !.push = "null", !.to = FALSE, !.tried = FALSE])
  /\ UNCHANGED <<dev, nextId, h, gate, hookDue, pushOn, disturb>>

-----------------------------------------------------------------------------
(* updateReservation with a new MAC.                                       *)

\* A queued row needs no device-side coordination.
Mut_UpdatePath(r) == IF pushOn /\ rows[r].source = "manual" THEN "u_list" ELSE "u_write"
UpdatePath(r) == IF pushOn /\ ~Queued(r) THEN "u_list" ELSE "u_write"

UpdateBegin(w, r, mac) ==
  /\ Begin(w, "update")
  /\ Active(r) /\ mac # rows[r].mac
  /\ Become(w, [Idle EXCEPT !.op = "update", !.row = r, !.ip = rows[r].ip,
                  !.mac = mac, !.entry = rows[r].entry,
                  !.pc = UpdatePath(r)])
  /\ UNCHANGED <<rows, dev, nextId, cancels, gate, hookDue, pushOn, disturb>>

\* The entry to change: the pinned id, else whatever holds the IP.
Mut_Located(hw) ==
  LET pinned == {d \in dev : d.id = hw.entry}
  IN IF pinned # {} THEN pinned ELSE dev
Located(hw) ==
  LET pinned == {d \in dev : d.id = hw.entry}
  IN IF pinned # {} THEN pinned ELSE {d \in dev : d.ip = hw.ip}

UpdateList(w) ==
  LET hw == h[w] IN
  /\ hw.pc = "u_list"
  /\ \/ Disturb("lose") /\ Finish(w)
     \/ Calm /\ Located(hw) = {} /\ Finish(w)
     \/ /\ Calm
        /\ \E d \in Located(hw) :
             IF \E x \in dev : x.id # d.id /\ x.mac = hw.mac
               THEN Finish(w)
               ELSE Become(w, [hw EXCEPT !.pc = "u_put", !.entry = d.id])
  /\ UNCHANGED <<rows, dev, nextId, cancels, gate, hookDue, pushOn>>

PutEntry(hw) ==
  dev' = {IF d.id = hw.entry THEN [d EXCEPT !.mac = hw.mac] ELSE d : d \in dev}

PutAccepted(hw) ==
  /\ \E d \in dev : d.id = hw.entry
  /\ ~\E d \in dev : d.id # hw.entry /\ d.mac = hw.mac

UpdatePut(w) ==
  LET hw == h[w] IN
  /\ hw.pc = "u_put"
  /\ \/ ~PutAccepted(hw) /\ Calm /\ Finish(w) /\ UNCHANGED dev
     \/ Disturb("lose") /\ Finish(w) /\ UNCHANGED dev
     \/ /\ PutAccepted(hw)
        /\ PutEntry(hw)
        /\ \/ Disturb("lose") /\ Finish(w)
           \/ Calm /\ Become(w, [hw EXCEPT !.pc = "u_verify"])
  /\ UNCHANGED <<rows, nextId, cancels, gate, hookDue, pushOn>>

UpdateVerify(w) ==
  LET hw == h[w] IN
  /\ hw.pc = "u_verify"
  /\ \/ Disturb("lose") /\ Finish(w)
     \/ /\ Calm
        /\ IF \E d \in dev : d.id = hw.entry /\ d.mac = hw.mac
             THEN Become(w, [hw EXCEPT !.pc = "u_write", !.out = "ok"])
             ELSE Finish(w)
  /\ UNCHANGED <<rows, dev, nextId, cancels, gate, hookDue, pushOn>>

\* Push state is stamped only when the device was contacted (out = "ok").
UpdateWrite(w) ==
  LET hw == h[w]
      row == [rows[hw.row] EXCEPT !.mac = hw.mac]
  IN
  /\ hw.pc = "u_write"
  /\ Write(hw.row, IF hw.out = "ok"
                     THEN [row EXCEPT !.to = TRUE, !.entry = hw.entry, !.push = "synced"]
                     ELSE row)
  /\ Finish(w)
  /\ UNCHANGED <<dev, nextId, cancels, gate, hookDue, pushOn, disturb>>

-----------------------------------------------------------------------------
(* releaseReservation and unpushReservation.                               *)

\* Queued rows skip the device; others are unpushed through their pointers.
Mut_ReleasePath(row) ==
  IF row.push = "failed_permanent" /\ row.to /\ row.entry # 0 THEN "r_read" ELSE "r_commit"
ReleasePath(row) ==
  IF row.push # "pending" /\ row.to /\ row.entry # 0 THEN "r_read" ELSE "r_commit"

ReleaseBegin(w, r) ==
  /\ Begin(w, "release")
  /\ Active(r)
  /\ Become(w, [Idle EXCEPT !.op = "release", !.row = r, !.ip = rows[r].ip,
                  !.entry = rows[r].entry, !.pc = ReleasePath(rows[r])])
  /\ UNCHANGED <<rows, dev, nextId, cancels, gate, hookDue, pushOn, disturb>>

\* A read that fails leaves stillThere=false, which returns alreadyAbsent.
UnpushReadLost(w) ==
  /\ Disturb("lose")
  /\ Become(w, [h[w] EXCEPT !.pc = "r_commit", !.out = "absent"])

ReleaseRead(w) ==
  LET hw == h[w] IN
  /\ hw.pc = "r_read"
  /\ \/ UnpushReadLost(w)
     \/ /\ Calm
        /\ Become(w, IF \E d \in dev : d.id = hw.entry
                       THEN [hw EXCEPT !.pc = "r_delete"]
                       ELSE [hw EXCEPT !.pc = "r_commit", !.out = "absent"])
  /\ UNCHANGED <<rows, dev, nextId, cancels, gate, hookDue, pushOn>>

\* The DELETE; its failure is logged and the release proceeds.
ReleaseDelete(w) ==
  LET hw == h[w]
      there == \E d \in dev : d.id = hw.entry
      drop == dev' = {d \in dev : d.id # hw.entry}
      end(out) == Become(w, [hw EXCEPT !.pc = "r_commit", !.out = out])
  IN
  /\ hw.pc = "r_delete"
  /\ \/ Disturb("lose") /\ end("failed") /\ UNCHANGED dev
     \/ there /\ drop /\ Disturb("lose") /\ end("failed")
     \/ there /\ drop /\ Calm /\ end("removed")
     \/ ~there /\ Calm /\ end("failed") /\ UNCHANGED dev
  /\ UNCHANGED <<rows, nextId, cancels, gate, hookDue, pushOn>>

\* One transaction: drop the other released row of the address (the unique
\* key holds one), flip this one and clear its push columns.
Mut_AfterRelease(r, ip) == [rows EXCEPT ![r] = Released(@)]
AfterRelease(r, ip) ==
  [q \in Rows |->
     IF q = r THEN Released(rows[q])
     ELSE IF rows[q].status = "released" /\ rows[q].ip = ip
          THEN [rows[q] EXCEPT !.status = "deleted"]
     ELSE rows[q]]

ReleaseCommit(w) ==
  LET hw == h[w] IN
  /\ hw.pc = "r_commit"
  /\ rows' = IF Exists(hw.row) THEN AfterRelease(hw.row, hw.ip) ELSE rows
  /\ Finish(w)
  /\ UNCHANGED <<dev, nextId, cancels, gate, hookDue, pushOn, disturb>>

\* expireStaleReservations: one updateMany, all or nothing under the key.
ExpireStale ==
  LET t == [r \in Rows |-> IF Active(r) /\ rows[r].exp
                             THEN [rows[r] EXCEPT !.status = "expired"] ELSE rows[r]]
  IN
  /\ "expire" \in mix.does
  /\ t # rows /\ UniqueKey(t)
  /\ rows' = t
  /\ UNCHANGED <<dev, nextId, h, cancels, gate, hookDue, pushOn, disturb>>

-----------------------------------------------------------------------------
(* refreshSubnet: rows are read first, the device afterwards.              *)

RefreshBegin(w) ==
  /\ Begin(w, "refresh")
  /\ Become(w, [Idle EXCEPT !.pc = "f_list", !.op = "refresh",
                  !.todo = {SnapOf(r) : r \in {q \in Rows : Active(q)}}])
  /\ UNCHANGED <<rows, dev, nextId, cancels, gate, hookDue, pushOn, disturb>>

\* CMDB entries win over live leases (any set of them) for the same IP; a
\* lease flagged reserved is one whose CMDB entry wins.
RefreshList(w) ==
  LET hw == h[w] IN
  /\ hw.pc = "f_list"
  /\ \/ Disturb("lose") /\ Finish(w)
     \/ /\ Calm
        /\ \E L \in SUBSET {i \in Ips : ~\E d \in dev : d.ip = i} : \E m \in Macs :
             LET cmdb == {[ip |-> d.ip, mac |-> d.mac, entry |-> d.id] : d \in dev}
                 lease == {[ip |-> i, mac |-> m, entry |-> 0] : i \in L}
                 seen == {f.ip : f \in cmdb \cup lease}
             IN Become(w, [hw EXCEPT !.pc = "f_write", !.fresh = cmdb \cup lease,
                  !.gone = {s.row : s \in {x \in hw.todo :
                              x.r.source # "manual" /\ x.r.ip \notin seen}}])
  /\ UNCHANGED <<rows, dev, nextId, cancels, gate, hookDue, pushOn>>

\* What one fresh line does to the row the SNAPSHOT holds at its IP: adopt a
\* queued row whose MAC agrees, fail any other queued row, and on a discovered
\* row write the columns in which the snapshot differs from the device.
Upserted(s, f) ==
  LET row == rows[s.row]
      source == IF f.entry = 0 THEN "dhcp_lease" ELSE "dhcp_reservation"
  IN IF s.r.push = "pending"
       THEN IF f.entry # 0 /\ s.r.mac = f.mac
              THEN Synced(row, f.entry)
              ELSE [row EXCEPT !.push = "failed_permanent", !.tried = TRUE]
       ELSE [row EXCEPT !.source = IF s.r.source = source THEN @ ELSE source,
                        !.mac = IF s.r.mac = f.mac THEN @ ELSE f.mac]

\* Manual rows are left alone (manualByIp) unless they are queued.
LeftAlone(s) == s.r.source = "manual" /\ s.r.push # "pending"

\* A fresh line with no row at its IP is inserted; the key may reject it, and
\* that, like a row that is gone, ends the refresh.
RefreshInsert(w, f) ==
  IF ActiveAt(f.ip) # {}
    THEN Finish(w) /\ UNCHANGED rows
    ELSE \E r \in Rows :
           /\ rows[r].status = "unborn"
           /\ rows' = [rows EXCEPT ![r] =
                [Unborn EXCEPT !.ip = f.ip, !.mac = f.mac, !.status = "active",
                   !.source = IF f.entry = 0 THEN "dhcp_lease" ELSE "dhcp_reservation"]]
           /\ Become(w, [h[w] EXCEPT !.fresh = @ \ {f}])

RefreshWrite(w) ==
  LET hw == h[w]
      At(ip) == {s \in hw.todo : s.r.ip = ip}
  IN
  /\ hw.pc = "f_write"
  /\ \/ \E f \in hw.fresh :
          IF At(f.ip) = {} THEN RefreshInsert(w, f)
          ELSE \E s \in At(f.ip) :
                 /\ IF LeftAlone(s) THEN UNCHANGED rows ELSE Write(s.row, Upserted(s, f))
                 /\ IF Exists(s.row) \/ LeftAlone(s)
                      THEN Become(w, [hw EXCEPT !.fresh = @ \ {f}])
                      ELSE Finish(w)
     \/ /\ hw.fresh = {}
        /\ Become(w, [hw EXCEPT !.pc = "f_release"])
        /\ UNCHANGED rows
  /\ UNCHANGED <<dev, nextId, cancels, gate, hookDue, pushOn, disturb>>

\* Discovered rows the device no longer has are released, pointers kept.
RefreshRelease(w) ==
  LET hw == h[w]
      t(r) == [rows EXCEPT ![r].status = "released"]
  IN
  /\ hw.pc = "f_release"
  /\ \/ \E r \in hw.gone :
          IF Exists(r) /\ UniqueKey(t(r))
            THEN rows' = t(r) /\ Become(w, [hw EXCEPT !.gone = @ \ {r}])
            ELSE UNCHANGED rows /\ Finish(w)
     \/ hw.gone = {} /\ Finish(w) /\ UNCHANGED rows
  /\ UNCHANGED <<dev, nextId, cancels, gate, hookDue, pushOn, disturb>>

-----------------------------------------------------------------------------
(* Environment.                                                            *)

GateFall(g) ==
  /\ Monitored /\ gate # g
  /\ Disturb("gate")
  /\ gate' = g
  /\ UNCHANGED <<rows, dev, nextId, h, cancels, hookDue, pushOn>>

\* recordProbeResult fires the reservation hook on the transition to up.
GateUp ==
  /\ gate # "up"
  /\ gate' = "up"
  /\ hookDue' = TRUE
  /\ UNCHANGED <<rows, dev, nextId, h, cancels, pushOn, disturb>>

TogglePush ==
  /\ Disturb("toggle")
  /\ pushOn' = ~pushOn
  /\ UNCHANGED <<rows, dev, nextId, h, cancels, gate, hookDue>>

AdminAdd(ip, mac) ==
  /\ Disturb("admin") /\ nextId <= MaxEntry /\ ~Duplicate(ip, mac)
  /\ dev' = dev \cup {[id |-> nextId, ip |-> ip, mac |-> mac, by |-> Admin]}
  /\ nextId' = nextId + 1
  /\ UNCHANGED <<rows, h, cancels, gate, hookDue, pushOn>>

AdminDelete(d) ==
  /\ Disturb("admin")
  /\ dev' = dev \ {d}
  /\ UNCHANGED <<rows, nextId, h, cancels, gate, hookDue, pushOn>>

\* A restart: every handler and unsent write is gone, the tables stay.
Crash ==
  /\ Disturb("crash")
  /\ h' = [w \in Workers |-> Idle]
  /\ cancels' = {}
  /\ hookDue' = FALSE
  /\ UNCHANGED <<rows, dev, nextId, gate, pushOn>>

-----------------------------------------------------------------------------

\* Is expiresAt set (and, by the time the expiry job looks, in the past)?
Expirable == IF "expire" \in mix.does THEN BOOLEAN ELSE {FALSE}

\* What a handler that has begun does next.
Continue(w) ==
  \/ CreateInsert(w) \/ CreatePreflight(w) \/ CreateEnd(w)
  \/ PushList(w) \/ PushPost(w) \/ PushVerify(w)
  \/ RetryNext(w) \/ RetryEnd(w)
  \/ UpdateList(w) \/ UpdatePut(w) \/ UpdateVerify(w) \/ UpdateWrite(w)
  \/ ReleaseRead(w) \/ ReleaseDelete(w) \/ ReleaseCommit(w)
  \/ RefreshList(w) \/ RefreshWrite(w) \/ RefreshRelease(w)

Start(w) ==
  \/ \E ip \in Ips, mac \in Macs, exp \in Expirable : CreateBegin(w, ip, mac, exp)
  \/ \E r \in Rows, mac \in Macs : UpdateBegin(w, r, mac)
  \/ \E r \in Rows : ReleaseBegin(w, r) \/ RetryNowBegin(w, r)
  \/ HookBegin(w)
  \/ RefreshBegin(w)

Environment ==
  \/ \E g \in {"warning", "down"} : GateFall(g)
  \/ GateUp \/ TogglePush \/ Crash
  \/ \E ip \in Ips, mac \in Macs : AdminAdd(ip, mac)
  \/ \E d \in dev : AdminDelete(d)

Step ==
  \/ \E w \in Workers : Start(w) \/ Continue(w)
  \/ TickBegin
  \/ ExpireStale
  \/ \E r \in Rows : CancelLand(r)
  \/ Environment

Next == Step /\ UNCHANGED mix

Spec == Init /\ [][Next]_vars

\* The tick's setInterval, the event loop that resumes every handler, unsent
\* database writes and a gate that recovers in the end.
Fairness ==
  /\ WF_vars(TickBegin /\ UNCHANGED mix)
  /\ \A w \in Workers : WF_vars(Continue(w) /\ UNCHANGED mix)
  /\ \A r \in Rows : WF_vars(CancelLand(r) /\ UNCHANGED mix)
  /\ WF_vars(GateUp /\ UNCHANGED mix)

FairSpec == Spec /\ Fairness

-----------------------------------------------------------------------------
(* Properties.                                                             *)

Quiescent == cancels = {} /\ \A w \in Workers : h[w].pc = "idle"
IsSynced(r) == Active(r) /\ rows[r].push = "synced"

\* No interleaving of create, release, expire and refresh leaves two rows of
\* one address in the same status: the schema's unique key would reject the
\* write and the handler would fail half way.
OneRowPerStatus == UniqueKey(rows)

\* Two active rows never hold the same device entry as theirs: releasing one
\* would delete the other's reservation from the FortiGate.
PinnedDistinct ==
  \A r, s \in Rows :
    (r # s /\ Active(r) /\ Active(s) /\ rows[r].entry # 0)
      => rows[r].entry # rows[s].entry

\* A PUT or a DELETE is only ever sent for an entry that holds the address of
\* the reservation being changed, whatever happened to rows and entries since
\* the pointer was stored: no handler edits somebody else's reservation.
AimedAtOwnIp ==
  \A w \in Workers : \A d \in dev :
    (h[w].pc \in {"u_put", "r_delete"} /\ d.id = h[w].entry)
      => d.ip = rows[h[w].row].ip

\* A row shown as synced has its entry, at its address, on the device, unless
\* a release of that very row has already been to the device.  (Nobody edits
\* the device by hand and the process does not restart.)
SyncedOnDevice ==
  \A r \in Rows : IsSynced(r) =>
    \/ \E d \in dev : d.id = rows[r].entry /\ d.ip = rows[r].ip
    \/ \E w \in Workers : h[w].op = "release" /\ h[w].row = r /\ h[w].pc = "r_commit"

\* One request at a time, nobody but Polaris at the device, every call answered.
Sequential ==
  /\ \E w \in Requests : mix.slots = {w}
  /\ mix.does \cap {"tick", "lose", "crash", "admin", "toggle"} = {}

\* At rest, after requests one at a time, the MAC of a synced row is the MAC
\* the device has.
SyncedMacMatches ==
  Sequential /\ Quiescent => \A r \in Rows : IsSynced(r) =>
    \E d \in dev : d.id = rows[r].entry /\ d.ip = rows[r].ip /\ d.mac = rows[r].mac

\* At rest, likewise, every entry Polaris wrote is still pinned by the row that claims
\* it, so that a release can find it again.
NoOrphan ==
  Sequential /\ Quiescent => \A d \in dev : d.by \in Rows =>
    \E r \in Rows : rows[r].status \in {"active", "expired"} /\ rows[r].entry = d.id

\* A queued reservation does not stay queued for ever.
QueueDrains == \A r \in Rows : Queued(r) ~> ~Queued(r)

-----------------------------------------------------------------------------
(* The inductive invariant behind OneRowPerStatus, PinnedDistinct and      *)
(* AimedAtOwnIp.  A device entry never changes its IP and a row never      *)
(* changes its IP, so some assignment f of addresses to entry ids explains *)
(* every pointer there is: in the table, in a handler, in a fresh view.    *)

Explains(f) ==
  /\ \A d \in dev : f[d.id] = d.ip /\ d.id < nextId
  /\ \A r \in Rows :
       rows[r].entry # 0 => f[rows[r].entry] = rows[r].ip /\ rows[r].entry < nextId
  /\ \A w \in Workers :
       h[w].entry # 0 => f[h[w].entry] = h[w].ip /\ h[w].entry < nextId
  /\ \A w \in Workers : \A x \in h[w].fresh :
       x.entry # 0 => f[x.entry] = x.ip /\ x.entry < nextId

EntryOwner == \E f \in [Ids -> Ips \cup {None}] : Explains(f)

\* A row that exists, or existed, has an address and a MAC.
BornTyped ==
  \A r \in Rows : rows[r].status # "unborn" => rows[r].ip \in Ips /\ rows[r].mac \in Macs

\* A handler works for a row that was born, and knows its address.
HandlerRow ==
  \A w \in Workers : h[w].row # None =>
    rows[h[w].row].status # "unborn" /\ h[w].ip = rows[h[w].row].ip

\* The snapshots a batch or a refresh took are of rows that were born.
SnapRow ==
  \A w \in Workers : \A s \in h[w].todo :
    rows[s.row].status # "unborn" /\ s.r.ip = rows[s.row].ip /\ s.r.mac \in Macs

\* Past its first read a handler has the row (a create: the address) it needs.
Targeted ==
  \A w \in Workers :
    /\ h[w].pc \in {"c_preflight", "p_list", "p_post", "p_verify", "p_end", "u_list",
                    "u_put", "u_verify", "u_write", "r_read", "r_delete", "r_commit"}
         => h[w].row \in Rows
    /\ h[w].pc \in {"c_insert", "p_list", "p_post", "p_verify", "c_preflight", "u_list",
                    "u_put", "u_verify", "u_write"}
         => h[w].ip \in Ips /\ h[w].mac \in Macs

IInv == /\ TypeOK /\ BornTyped /\ HandlerRow /\ SnapRow /\ Targeted
        /\ OneRowPerStatus /\ EntryOwner

-----------------------------------------------------------------------------
(* The inductive invariant behind SyncedOnDevice, of loads in which nobody *)
(* updates, refreshes, restarts or edits the device.                       *)

\* FortiOS keeps ids and addresses unique.
DevKeys == \A d, e \in dev : d.id = e.id \/ d.ip = e.ip => d = e

\* The handler has written an entry that its row does not yet point to.
Posted(hw) == hw.pc = "p_verify" \/ (hw.pc = "p_end" /\ hw.out = "ok")
Releasing(hw) == hw.pc \in {"r_read", "r_delete", "r_commit"}

\* Which entry that is.
Wrote(hw, d) ==
  /\ d.by = hw.row /\ d.ip = hw.ip /\ d.mac = hw.mac
  /\ hw.entry = d.id \/ (hw.entry = 0 /\ hw.pc = "p_verify")

\* No row points to it, so no release deletes it.
Unclaimed(d) ==
  /\ \A r \in Rows : rows[r].entry # d.id
  /\ \A w \in Workers : Releasing(h[w]) => h[w].entry # d.id

PostedInv ==
  /\ \A w \in Workers : Posted(h[w]) => \E d \in dev : Wrote(h[w], d) /\ Unclaimed(d)
  /\ \A v, w \in Workers : v # w /\ Posted(h[v]) /\ Posted(h[w]) => h[v].ip # h[w].ip

\* A pointer to an entry that is there is held by the row it was written for.
OwnPointers ==
  /\ \A r \in Rows : \A d \in dev : d.id = rows[r].entry => d.by = r
  /\ \A w \in Workers : \A d \in dev :
       Releasing(h[w]) /\ d.id = h[w].entry => d.by = h[w].row

OpAtPc ==
  \A w \in Workers :
    /\ h[w].op = "release" <=> Releasing(h[w])
    /\ h[w].pc \notin {"u_list", "u_put", "u_verify", "u_write",
                       "f_list", "f_write", "f_release"}

WroteInv == DevKeys /\ PostedInv /\ OwnPointers /\ OpAtPc /\ SyncedOnDevice

-----------------------------------------------------------------------------
(* The inductive invariant behind SyncedMacMatches and NoOrphan: what one  *)
(* handler, alone at the table t and the device D, may find and leave.     *)

Live(row) == row.status \in {"active", "expired"}

\* A row is marked synced exactly when it has a pointer to unpush by.
Paired(row) == IF row.push = "synced" THEN row.to /\ row.entry # 0 ELSE row.entry = 0

Shown(row, d) == d.id = row.entry /\ d.ip = row.ip /\ d.mac = row.mac

\* The device has the new MAC, or no longer the entry; the row does not say so yet.
Put(hw) == hw.pc = "u_verify" \/ (hw.pc = "u_write" /\ hw.out = "ok")
Ahead(hw) == Put(hw) \/ hw.pc = "r_commit"

\* Outside the handler's own row, rows and entries agree.
Agree(t, D, hw) ==
  /\ \A d, e \in D : d.id = e.id \/ d.ip = e.ip => d = e
  /\ \A r \in Rows : Live(t[r]) => Paired(t[r])
  /\ \A d \in D : \/ \E r \in Rows : Live(t[r]) /\ t[r].entry = d.id
                  \/ Posted(hw) /\ Wrote(hw, d)
  /\ \A r \in Rows : t[r].status = "active" /\ t[r].push = "synced" =>
       (r = hw.row /\ Ahead(hw)) \/ \E d \in D : Shown(t[r], d)

PushPcs == {"c_preflight", "p_list", "p_post", "p_verify", "p_end"}
UpdatePcs == {"u_list", "u_put", "u_verify", "u_write"}
ReleasePcs == {"r_read", "r_delete", "r_commit"}

\* The handler's row is the only claim to its address.
OnlyClaim(t, hw) ==
  hw.pc \in PushPcs \cup UpdatePcs \cup ReleasePcs =>
    /\ Live(t[hw.row])
    /\ \A r \in Rows : r # hw.row /\ t[r].ip = hw.ip => t[r].status # "active"

\* A push holds the row's MAC and, once it has posted, its entry.
PushHolds(t, D, hw) ==
  /\ hw.pc \in PushPcs => t[hw.row].mac = hw.mac /\ t[hw.row].push # "synced"
  /\ Posted(hw) => \E d \in D : Wrote(hw, d)

\* An update changes the entry its row points to, if that is there.
UpdateHolds(t, D, hw) ==
  /\ hw.pc = "u_list" => hw.entry = t[hw.row].entry
  /\ hw.pc = "u_put" \/ Put(hw) => \A d \in D : d.id = t[hw.row].entry => d.id = hw.entry
  /\ Put(hw) => \E d \in D : d.id = hw.entry /\ d.ip = hw.ip /\ d.mac = hw.mac
  /\ hw.pc = "u_write" /\ hw.out # "ok" => t[hw.row].push # "synced"

\* A release leaves nothing behind.
ReleaseHolds(t, D, hw) ==
  /\ hw.pc \in {"r_read", "r_delete"} => hw.entry = t[hw.row].entry
  /\ hw.pc = "r_commit" => \A d \in D : d.id # t[hw.row].entry

\* The rows still to try are as the batch read them, but for their status.
QueueHolds(t, hw) ==
  /\ hw.pc = "c_insert" => hw.todo = {}
  /\ hw.pc \in PushPcs \cup {"q_next"} =>
       /\ \A s \in hw.todo : /\ s.on /\ Live(t[s.row])
                             /\ t[s.row].mac = s.r.mac /\ t[s.row].push # "synced"
       /\ \A s, x \in hw.todo : s.row = x.row => s = x
  /\ hw.pc \in PushPcs => \A s \in hw.todo : s.row # hw.row

\* The fresh view is still what the device has, and the rows it has not yet
\* reached are as the refresh read them.
Unread(t, s) == Live(t[s.row]) /\ t[s.row].mac = s.r.mac /\ t[s.row].push = s.r.push
RefreshHolds(t, D, hw) ==
  /\ hw.pc = "f_list" => \A s \in hw.todo : Unread(t, s)
  /\ hw.pc = "f_write" =>
       /\ \A f \in hw.fresh :
            IF f.entry = 0 THEN \A d \in D : d.ip # f.ip
            ELSE \E d \in D : d.id = f.entry /\ d.ip = f.ip /\ d.mac = f.mac
       /\ \A f, g \in hw.fresh : f.ip = g.ip => f = g
       /\ \A s \in hw.todo : (\E f \in hw.fresh : f.ip = s.r.ip) => Unread(t, s)
  /\ hw.pc \in {"f_write", "f_release"} =>
       \A r \in hw.gone : t[r].status # "unborn" /\ \A d \in D : d.ip # t[r].ip

Standing(t, D, hw) ==
  /\ Agree(t, D, hw) /\ OnlyClaim(t, hw)
  /\ PushHolds(t, D, hw) /\ UpdateHolds(t, D, hw) /\ ReleaseHolds(t, D, hw)
  /\ QueueHolds(t, hw) /\ RefreshHolds(t, D, hw)

\* The only handler there is.
Alone(w) == pushOn /\ cancels = {} /\ \A v \in Workers : v # w => h[v] = Idle

SequentialInv ==
  Sequential => \A w \in mix.slots : Alone(w) /\ Standing(rows, dev, h[w])

=============================================================================
