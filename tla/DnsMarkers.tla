------------------------------ MODULE DnsMarkers ------------------------------
(***************************************************************************)
(* The life of the reservation rows of one subnet, from the point of view  *)
(* of their unique key (subnetId, ipAddress, status), and the dns_resolved *)
(* markers that Polaris derives from the inventory.                        *)
(*                                                                         *)
(* The key makes the table a function: at most one row per address and     *)
(* status, and a write that moves a row into an occupied cell is rejected  *)
(* (P2002).  Operators and discovery create, release and expire rows;      *)
(* reconcileDnsResolvedForAsset, started by every relevant asset write and *)
(* by a 30 min sweep, keeps a fallback marker at the address of each       *)
(* eligible asset that no authoritative row covers.  All of them are       *)
(* asynchronous functions that interleave at every await (slots h[w]).     *)
(*                                                                         *)
(* MACs and hostnames are abstracted to the asset they belong to (an asset *)
(* keeps its identity; no two assets share one), the time of expiresAt to  *)
(* a Boolean; push columns are in module ReservationPush.                  *)
(***************************************************************************)
EXTENDS Naturals, FiniteSets, FiniteSetsExt

CONSTANTS
  Ips,         \* addresses of the subnet
  Assets,      \* inventory assets
  Requests,    \* slots: functions that may run at the same time
  Mixes,       \* loads: the operations and addresses a behaviour exercises together
  MaxRows,     \* bound on row ids in use (an id is reused once nothing holds it)
  MaxWrites,   \* bound on asset writes
  MaxCrash,    \* bound on restarts
  None         \* no address, no asset

AllOperations == {"create", "expiring", "release", "discover", "delete", "retire", "clear"}

ASSUME MixesAssumption == Mixes \subseteq [ops: SUBSET AllOperations, ips: SUBSET Ips]
ASSUME BoundsAssumption == MaxRows \in Nat /\ MaxWrites \in Nat /\ MaxCrash \in Nat
ASSUME NoneAssumption == None \notin Ips \cup Assets

VARIABLES
  mix,      \* the load of this behaviour
  tbl,      \* the table: tbl[ip][status] is a row or NoRow
  asset,    \* Asset.ipAddress and whether its status is eligible
  fired,    \* assets whose reconcile was fired and has not begun
  h,        \* the function running in each slot
  writes,   \* asset writes so far
  crashes   \* restarts so far

vars == <<mix, tbl, asset, fired, h, writes, crashes>>

-----------------------------------------------------------------------------
(* State.                                                                  *)

Statuses == {"active", "released", "expired"}
Ids == 1..MaxRows
NoRow == [id |-> 0, source |-> "none", asset |-> None, due |-> FALSE]

Row == [id: Ids, source: {"manual", "dhcp", "dns"}, asset: Assets \cup {None}, due: BOOLEAN]

Asset == [ip: Ips \cup {None}, ok: BOOLEAN, live: BOOLEAN]

Idle == [pc |-> "idle", ip |-> None, id |-> 0, source |-> "none", due |-> FALSE,
         asset |-> None, ok |-> FALSE, owned |-> {}]

Handler == [pc: {"idle", "c_take", "c_insert", "r_commit", "s_release", "k_owned",
                 "k_auth", "k_find", "k_upsert", "k_release", "d_owned", "d_release",
                 "d_delete"},
            ip: Ips \cup {None}, id: Ids \cup {0}, source: {"none", "manual", "dhcp"},
            due: BOOLEAN, asset: Assets \cup {None}, ok: BOOLEAN,
            owned: SUBSET [id: Ids, ip: Ips]]

TypeOK ==
  /\ mix \in Mixes
  /\ tbl \in [Ips -> [Statuses -> Row \cup {NoRow}]]
  /\ asset \in [Assets -> Asset]
  /\ fired \subseteq Assets
  /\ h \in [Requests -> Handler]
  /\ writes \in 0..MaxWrites
  /\ crashes \in 0..MaxCrash

Init ==
  /\ mix \in Mixes
  /\ tbl = [i \in Ips |-> [s \in Statuses |-> NoRow]]
  /\ asset = [a \in Assets |-> [ip |-> None, ok |-> TRUE, live |-> TRUE]]
  /\ fired = {}
  /\ h = [w \in Requests |-> Idle]
  /\ writes = 0
  /\ crashes = 0

-----------------------------------------------------------------------------
(* The table.                                                              *)

Cells == Ips \X Statuses
Holds(c, id) == id # 0 /\ tbl[c[1]][c[2]].id = id
Empty(i, s) == tbl[i][s] = NoRow

\* Cells that hold the row with this id: none or one.
CellOf(id) == {c \in Cells : Holds(c, id)}

\* A new row's id: one that no row has and no function remembers.
Free == Ids \ ({tbl[c[1]][c[2]].id : c \in Cells} \cup
               UNION {{h[w].id} \cup {o.id : o \in h[w].owned} : w \in Requests})

Insert(i, source, a, due) ==
  /\ Free # {}
  /\ tbl' = [tbl EXCEPT ![i]["active"] =
       [id |-> Min(Free), source |-> source, asset |-> a, due |-> due]]

\* Active rows move to another status in one updateMany: all of them or none.
Moved(S, to) ==
  [i \in Ips |-> IF i \in S
     THEN [tbl[i] EXCEPT !["active"] = NoRow, ![to] = tbl[i]["active"]]
     ELSE tbl[i]]
UpdateMany(S, to) == tbl' = IF \A i \in S : Empty(i, to) THEN Moved(S, to) ELSE tbl

IsDns(i) == tbl[i]["active"].source = "dns"
Authoritative(i) == ~Empty(i, "active") /\ ~IsDns(i)

Become(w, hw) == h' = [h EXCEPT ![w] = hw]
Finish(w) == Become(w, Idle)
Begin(w, op) == h[w].pc = "idle" /\ op \in mix.ops

-----------------------------------------------------------------------------
(* createReservation, and the creates of discovery.                        *)

\* Markers do not count as a collision.
CreateCheck(w, i, source, due) ==
  /\ Begin(w, IF source = "manual" THEN "create" ELSE "discover")
  /\ due => "expiring" \in mix.ops /\ source = "manual"
  /\ ~Authoritative(i)
  /\ Become(w, [Idle EXCEPT !.pc = "c_take", !.ip = i, !.source = source, !.due = due])
  /\ UNCHANGED <<tbl, asset, fired, writes, crashes>>

\* releaseDnsResolvedAt: an updateMany whose failure is caught.
Mut_TakeOver(i) == UpdateMany({j \in {i} : ~Empty(j, "active")}, "released")
TakeOver(i) == UpdateMany({j \in {i} : IsDns(j)}, "released")

CreateTake(w) ==
  /\ h[w].pc = "c_take"
  /\ TakeOver(h[w].ip)
  /\ Become(w, [h[w] EXCEPT !.pc = "c_insert"])
  /\ UNCHANGED <<asset, fired, writes, crashes>>

\* The insert, which the key rejects when the active cell is taken.
CreateInsert(w) ==
  LET hw == h[w] IN
  /\ hw.pc = "c_insert"
  /\ IF Empty(hw.ip, "active") THEN Insert(hw.ip, hw.source, None, hw.due)
                               ELSE UNCHANGED tbl
  /\ Finish(w)
  /\ UNCHANGED <<asset, fired, writes, crashes>>

-----------------------------------------------------------------------------
(* releaseReservation, expiry, and the release of rows gone from the gate. *)

ReleaseBegin(w, i) ==
  /\ Begin(w, "release")
  /\ ~Empty(i, "active")
  /\ Become(w, [Idle EXCEPT !.pc = "r_commit", !.ip = i, !.id = tbl[i]["active"].id])
  /\ UNCHANGED <<tbl, asset, fired, writes, crashes>>

\* One transaction: the other released row of the address goes, this one is
\* flipped, whatever its status has become; a row that is gone rejects it.
ReleaseCommit(w) ==
  LET hw == h[w] IN
  /\ h[w].pc = "r_commit"
  /\ \/ /\ CellOf(hw.id) = {}
        /\ UNCHANGED tbl
     \/ \E c \in CellOf(hw.id) :
          LET row == tbl[c[1]][c[2]]
          IN tbl' = [tbl EXCEPT ![c[1]] =
               [@ EXCEPT ![c[2]] = NoRow, !["released"] = row]]
  /\ Finish(w)
  /\ UNCHANGED <<asset, fired, writes, crashes>>

Due(i) == ~Empty(i, "active") /\ tbl[i]["active"].due

\* expireStaleReservations.
ExpireStale ==
  /\ \E i \in Ips : Due(i)
  /\ UpdateMany({i \in Ips : Due(i)}, "expired")
  /\ UNCHANGED <<asset, fired, h, writes, crashes>>

\* Phase 5b of the sync: a dhcp row of its snapshot that left the gate.
SyncBegin(w, i) ==
  /\ Begin(w, "discover")
  /\ tbl[i]["active"].source = "dhcp"
  /\ Become(w, [Idle EXCEPT !.pc = "s_release", !.ip = i, !.id = tbl[i]["active"].id])
  /\ UNCHANGED <<tbl, asset, fired, writes, crashes>>

\* An update by id: a no-op on a released row, rejected (and the error
\* caught) when the row is gone or another released row has the address.
SyncRelease(w) ==
  LET hw == h[w] IN
  /\ hw.pc = "s_release"
  /\ \/ /\ \A c \in CellOf(hw.id) : ~Empty(c[1], "released")
        /\ UNCHANGED tbl
     \/ \E c \in CellOf(hw.id) :
          /\ Empty(c[1], "released")
          /\ tbl' = [tbl EXCEPT ![c[1]] =
               [@ EXCEPT ![c[2]] = NoRow, !["released"] = tbl[c[1]][c[2]]]]
  /\ Finish(w)
  /\ UNCHANGED <<asset, fired, writes, crashes>>

-----------------------------------------------------------------------------
(* reconcileDnsResolvedForAsset.                                           *)

ReconcileBegin(w, a) ==
  /\ h[w].pc = "idle"
  /\ a \in fired
  /\ fired' = fired \ {a}
  /\ IF asset[a].live
       THEN Become(w, [Idle EXCEPT !.pc = "k_owned", !.asset = a, !.ip = asset[a].ip,
                                   !.ok = asset[a].ok /\ asset[a].ip # None])
       ELSE UNCHANGED h
  /\ UNCHANGED <<tbl, asset, writes, crashes>>

\* findOwnedSystemRows: active markers with the asset's identity.
OwnedBy(a) == {[id |-> tbl[i]["active"].id, ip |-> i] :
                 i \in {j \in Ips : IsDns(j) /\ tbl[j]["active"].asset = a}}

\* An ineligible asset loses every row it owns.
ReconcileOwned(w) ==
  /\ h[w].pc = "k_owned"
  /\ Become(w, [h[w] EXCEPT !.owned = OwnedBy(h[w].asset),
                            !.pc = IF h[w].ok THEN "k_auth" ELSE "k_release"])
  /\ UNCHANGED <<tbl, asset, fired, writes, crashes>>

\* Defer to an authoritative row at the address.
Mut_Defers(i) == \E s \in Statuses : ~Empty(i, s) /\ tbl[i][s].source # "dns"
Defers(i) == Authoritative(i)

ReconcileAuth(w) ==
  /\ h[w].pc = "k_auth"
  /\ Become(w, [h[w] EXCEPT !.pc = IF Defers(h[w].ip) THEN "k_release" ELSE "k_find"])
  /\ UNCHANGED <<tbl, asset, fired, writes, crashes>>

\* Owned rows that are not at the target are stale.
Mut_Stale(hw) == {}
Stale(hw) == {o \in hw.owned : o.ip # hw.ip}

\* findSystemRowAt: a marker that already names this asset needs no write.
ReconcileFind(w) ==
  LET hw == h[w]
      found == tbl[hw.ip]["active"]
  IN
  /\ hw.pc = "k_find"
  /\ Become(w, IF IsDns(hw.ip) /\ found.asset = hw.asset
                 THEN [hw EXCEPT !.pc = "k_release", !.owned = Stale(hw)]
                 ELSE [hw EXCEPT !.pc = "k_upsert", !.id = IF IsDns(hw.ip) THEN found.id ELSE 0])
  /\ UNCHANGED <<tbl, asset, fired, writes, crashes>>

\* Give the marker found this asset's identity, or insert one; both may be
\* rejected, which is caught.
ReconcileUpsert(w) ==
  LET hw == h[w] IN
  /\ hw.pc = "k_upsert"
  /\ IF hw.id # 0
       THEN tbl' = [i \in Ips |-> [s \in Statuses |->
              IF Holds(<<i, s>>, hw.id) THEN [tbl[i][s] EXCEPT !.asset = hw.asset]
                                        ELSE tbl[i][s]]]
       ELSE IF Empty(hw.ip, "active") THEN Insert(hw.ip, "dns", hw.asset, FALSE)
                                      ELSE UNCHANGED tbl
  /\ Become(w, [hw EXCEPT !.pc = "k_release", !.owned = Stale(hw), !.id = 0])
  /\ UNCHANGED <<asset, fired, writes, crashes>>

\* releaseRows: the ones that are still active, all or none.
ReleaseRows(S) == UpdateMany({i \in Ips : \E o \in S : Holds(<<i, "active">>, o.id)}, "released")

ReconcileRelease(w) ==
  /\ h[w].pc = "k_release"
  /\ ReleaseRows(h[w].owned)
  /\ Finish(w)
  /\ UNCHANGED <<asset, fired, writes, crashes>>

\* The sweep visits every asset that has an address, eligible or not.
Sweep ==
  LET all == {a \in Assets : asset[a].live /\ asset[a].ip # None} IN
  /\ ~(all \subseteq fired)
  /\ fired' = fired \cup all
  /\ UNCHANGED <<tbl, asset, h, writes, crashes>>

-----------------------------------------------------------------------------
(* The inventory.  Every write of an address or a status fires a reconcile *)
(* that nobody awaits.                                                     *)

AssetWrite(a, ip, ok) ==
  /\ asset[a].live /\ writes < MaxWrites
  /\ [asset[a] EXCEPT !.ip = ip, !.ok = ok] # asset[a]
  /\ ip = None => "clear" \in mix.ops
  /\ ~ok => "retire" \in mix.ops
  /\ asset' = [asset EXCEPT ![a].ip = ip, ![a].ok = ok]
  /\ fired' = fired \cup {a}
  /\ writes' = writes + 1
  /\ UNCHANGED <<tbl, h, crashes>>

\* asset.delete: owned markers are released before the row goes.
DeleteBegin(w, a) ==
  /\ Begin(w, "delete")
  /\ asset[a].live
  /\ Become(w, [Idle EXCEPT !.pc = "d_owned", !.asset = a])
  /\ UNCHANGED <<tbl, asset, fired, writes, crashes>>

DeleteStep(w) ==
  LET hw == h[w] IN
  /\ \/ /\ hw.pc = "d_owned"
        /\ Become(w, [hw EXCEPT !.pc = "d_release", !.owned = OwnedBy(hw.asset)])
        /\ UNCHANGED <<tbl, asset>>
     \/ /\ hw.pc = "d_release"
        /\ ReleaseRows(hw.owned)
        /\ Become(w, [hw EXCEPT !.pc = "d_delete", !.owned = {}])
        /\ UNCHANGED asset
     \/ /\ hw.pc = "d_delete"
        /\ asset' = [asset EXCEPT ![hw.asset].live = FALSE]
        /\ Finish(w)
        /\ UNCHANGED tbl
  /\ UNCHANGED <<fired, writes, crashes>>

\* A restart loses the functions in flight and the fired reconciles.
Crash ==
  /\ crashes < MaxCrash
  /\ crashes' = crashes + 1
  /\ fired' = {}
  /\ h' = [w \in Requests |-> Idle]
  /\ UNCHANGED <<tbl, asset, writes>>

-----------------------------------------------------------------------------

Start(w) ==
  \/ \E i \in mix.ips, source \in {"manual", "dhcp"}, due \in BOOLEAN :
       CreateCheck(w, i, source, due)
  \/ \E i \in Ips : ReleaseBegin(w, i) \/ SyncBegin(w, i)
  \/ \E a \in Assets : DeleteBegin(w, a)

Continue(w) ==
  \/ CreateTake(w) \/ CreateInsert(w) \/ ReleaseCommit(w) \/ SyncRelease(w)
  \/ ReconcileOwned(w) \/ ReconcileAuth(w) \/ ReconcileFind(w) \/ ReconcileUpsert(w)
  \/ ReconcileRelease(w) \/ DeleteStep(w)

Reconcile(a) == \E w \in Requests : ReconcileBegin(w, a)

Step ==
  \/ \E w \in Requests : Start(w) \/ Continue(w)
  \/ \E a \in Assets : Reconcile(a)
  \/ \E a \in Assets, ip \in mix.ips \cup {None}, ok \in BOOLEAN : AssetWrite(a, ip, ok)
  \/ ExpireStale
  \/ Sweep
  \/ Crash

Next == Step /\ UNCHANGED mix

Spec == Init /\ [][Next]_vars

\* The event loop resumes every function and starts what was fired; the two
\* jobs run on timers.
Fairness ==
  /\ \A w \in Requests : WF_vars(Continue(w) /\ UNCHANGED mix)
  /\ \A a \in Assets : SF_vars(Reconcile(a) /\ UNCHANGED mix)
  /\ WF_vars(ExpireStale /\ UNCHANGED mix)
  /\ WF_vars(Sweep /\ UNCHANGED mix)

FairSpec == Spec /\ Fairness

-----------------------------------------------------------------------------
(* Properties.                                                             *)

Entitled(a, i) == asset[a].live /\ asset[a].ok /\ asset[a].ip = i

\* Active markers of an asset at addresses it no longer has a right to.
StaleMarkers(a) == {i \in Ips : IsDns(i) /\ tbl[i]["active"].asset = a /\ ~Entitled(a, i)}

\* A row an operator created leaves "active" only by a release that was asked
\* for that very row, or by expiry: neither a racing create, nor discovery,
\* nor any reconcile takes an operator's claim away.
Claimed(i) == tbl[i]["active"].source = "manual"
ClaimStep ==
  \A i \in Ips : (Claimed(i) /\ tbl'[i]["active"].id # tbl[i]["active"].id) =>
    \/ \E w \in Requests : h[w].pc = "r_commit" /\ h[w].id = tbl[i]["active"].id
    \/ tbl[i]["active"].due /\ tbl'[i]["expired"] = tbl[i]["active"]
ClaimKept == [][ClaimStep]_vars

\* An asset that stays at an address no authoritative row covers gets its
\* marker there, and gets it back whenever an operator releases it, whatever
\* raced with its reconcile or lost it in a restart: the sweep sees to it.
MarkerReturns ==
  \A a \in Assets, i \in Ips :
    <>[](Entitled(a, i) /\ ~Authoritative(i)) => []<>(IsDns(i))

\* Rows an asset owns away from its address are stale: one that keeps an
\* address does not keep a marker it lost the right to (retired, or moved to
\* another address), whatever raced with its reconcile or lost it in a
\* restart, unless a released row of the marker's address blocks the update
\* (releaseRows is all or nothing).  No such promise holds for an asset that
\* was deleted or lost its address: the sweep does not visit it.
StaleGoes ==
  \A a \in Assets :
    <>[](asset[a].live /\ asset[a].ip # None) =>
      []<>(StaleMarkers(a) = {} \/ \E i \in StaleMarkers(a) : ~Empty(i, "released"))

-----------------------------------------------------------------------------
(* The inductive invariant behind ClaimKept.                               *)

\* A row is in one cell.
OneCell ==
  \A i, j \in Ips, s, t \in Statuses :
    tbl[i][s].id # 0 /\ tbl[i][s].id = tbl[j][t].id => i = j /\ s = t

\* A function that reads or writes at its address has one; a create knows for
\* whom.
Located ==
  \A w \in Requests :
    /\ h[w].pc \in {"c_take", "c_insert", "k_auth", "k_find", "k_upsert"} => h[w].ip \in Ips
    /\ h[w].pc = "k_owned" /\ h[w].ok => h[w].ip \in Ips
    /\ h[w].pc \in {"c_take", "c_insert"} => h[w].source # "none"

NotManual(id) ==
  \A i \in Ips, s \in Statuses : tbl[i][s].id = id => tbl[i][s].source # "manual"

\* The rows that a reconcile, a delete or a sync has read and will release are
\* not operators' rows, whatever happens to them in the meantime: an id is not
\* used again while somebody remembers it.
OwnsNoClaim ==
  \A w \in Requests : /\ \A o \in h[w].owned : NotManual(o.id)
                      /\ h[w].pc = "s_release" => NotManual(h[w].id)

IInv == TypeOK /\ OneCell /\ Located /\ OwnsNoClaim

=============================================================================
