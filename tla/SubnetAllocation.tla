--------------------------- MODULE SubnetAllocation ---------------------------
(***************************************************************************)
(* One IP block, its subnets and the reservations in them: creation and    *)
(* allocation of subnets (createSubnet, allocateNextSubnet, bulkAllocate,  *)
(* discovery), full-subnet claims and their effect on Subnet.status,       *)
(* nextAvailableReservation, and the deletion of subnets and of the block. *)
(*                                                                         *)
(* Neither the containment of a subnet in its block nor the disjointness   *)
(* of siblings is a database constraint: each function reads, decides and  *)
(* writes, with awaits in between (slots h[w]).  The unique key of a       *)
(* reservation does not bind a full-subnet claim, whose ipAddress is NULL. *)
(*                                                                         *)
(* Names, tags, VLANs and IPv6 are left out; the block is fixed while it   *)
(* lives; the device push of a reservation is in module ReservationPush.   *)
(***************************************************************************)
EXTENDS CidrMath, Functions

CONSTANTS
  Block,       \* the block's CIDR
  Requested,   \* CIDRs that callers and discovery ask for, as typed
  Lengths,     \* prefix lengths that callers ask for
  Templates,   \* bulk templates: sequences of [len, skip]
  Anchors,     \* requested anchor prefixes
  PageSize,    \* 256 in the code
  Requests,    \* slots: functions that may run at the same time
  Mixes,       \* loads: the operations a behaviour exercises together, and a
               \* bound on its subnets
  MaxSubnets,  \* bound on subnets ever created
  MaxClaims    \* bound on reservations ever created

AllOperations == {"create", "next", "bulk", "sync", "deprecate", "revive", "delete",
                  "deleteBlock", "claim", "host", "release", "expire"}

\* createBlock stores what normalizeCidr returns.
ASSUME BlockAssumption == Block \in Cidr /\ Block.base % Size(Block.len) = 0
ASSUME InputsAssumption ==
  /\ Requested \subseteq Cidr /\ Lengths \subseteq 0..W /\ Anchors \subseteq 0..W
  /\ Templates \subseteq Seq([len: 0..W, skip: BOOLEAN])
ASSUME MixesAssumption == Mixes \subseteq [ops: SUBSET AllOperations, subnets: 0..MaxSubnets]
ASSUME BoundsAssumption == MaxSubnets \in Nat /\ MaxClaims \in Nat /\ PageSize \in Nat \ {0}

VARIABLES
  mix,    \* the load of this behaviour
  subs,   \* the subnets table
  claims, \* the reservations table
  live,   \* does the block exist?
  h       \* the function running in each slot

vars == <<mix, subs, claims, live, h>>

-----------------------------------------------------------------------------
(* State.                                                                  *)

SubIds == 1..MaxSubnets
ClaimIds == 1..MaxClaims
Whole == -1   \* the NULL ipAddress of a full-subnet reservation

Statuses == {"available", "reserved", "deprecated"}

NoSub == [cidr |-> Block, status |-> "none", found |-> FALSE]
Sub == [cidr: Cidr, status: Statuses, found: BOOLEAN]

NoClaim == [sub |-> 0, ip |-> Whole, status |-> "none", due |-> FALSE]
Claim == [sub: SubIds, ip: {Whole} \cup Nat,
          status: {"active", "released", "expired"}, due: BOOLEAN]

Idle == [pc |-> "idle", cidrs |-> {}, sub |-> 0, claim |-> 0, ip |-> Whole,
         due |-> FALSE, first |-> FALSE]

Handler == [pc: {"idle", "s_check", "s_insert", "b_commit", "y_insert", "y_claim", "y_gone",
                 "d_delete", "k_delete", "c_check", "c_insert", "r_commit"},
            cidrs: SUBSET Cidr, sub: 0..MaxSubnets, claim: 0..MaxClaims,
            ip: {Whole} \cup Nat, due: BOOLEAN, first: BOOLEAN]

TypeOK ==
  /\ mix \in Mixes
  /\ subs \in [SubIds -> Sub \cup {NoSub}]
  /\ claims \in [ClaimIds -> Claim \cup {NoClaim}]
  /\ live \in BOOLEAN
  /\ h \in [Requests -> Handler]

Init ==
  /\ mix \in Mixes
  /\ subs = [s \in SubIds |-> NoSub]
  /\ claims = [k \in ClaimIds |-> NoClaim]
  /\ live = TRUE
  /\ h = [w \in Requests |-> Idle]

-----------------------------------------------------------------------------

Exists(s) == subs[s].status # "none"
Siblings == {subs[s].cidr : s \in {t \in SubIds : Exists(t)}}
Current == {subs[s].cidr : s \in {t \in SubIds : subs[t].status \notin {"none", "deprecated"}}}
ActiveIn(s) == {k \in ClaimIds : claims[k].status = "active" /\ claims[k].sub = s}
ActiveAt(s, ip) == {k \in ActiveIn(s) : claims[k].ip = ip}

\* Ids no row has and no function remembers.
NewSubs == {s \in 1..mix.subnets : ~Exists(s) /\ \A w \in Requests : h[w].sub # s}
NewClaims == {k \in ClaimIds : claims[k].status = "none" /\ \A w \in Requests : h[w].claim # k}

Become(w, hw) == h' = [h EXCEPT ![w] = hw]
Finish(w) == Become(w, Idle)
Begin(w, op) == h[w].pc = "idle" /\ op \in mix.ops

\* subnet.create for each of some CIDRs in one transaction: the foreign key
\* rejects it when the block is gone.
InsertSubs(w, C, found) ==
  LET ids == Injection(C, NewSubs)
      at == CHOOSE f \in ids : TRUE
      inserted(c) == [cidr |-> c, status |-> "available", found |-> found]
  IN
  /\ ids # {}
  /\ subs' = IF ~live THEN subs ELSE
       [s \in SubIds |-> IF \E c \in C : at[c] = s
                           THEN inserted(CHOOSE c \in C : at[c] = s) ELSE subs[s]]
  /\ Finish(w)
  /\ UNCHANGED <<claims, live>>

-----------------------------------------------------------------------------
(* createSubnet and allocateNextSubnet.                                    *)

\* The parent block is read and must contain the subnet.
CreateBegin(w, typed) ==
  LET c == Normalize(typed.base, typed.len) IN
  /\ Begin(w, "create") /\ live
  /\ cidrContains(Block, c)
  /\ Become(w, [Idle EXCEPT !.pc = "s_check", !.cidrs = {c}])
  /\ UNCHANGED <<subs, claims, live>>

\* The first free block of the length; it goes through createSubnet.
AllocateNext(w, len) ==
  LET c == findNextAvailableSubnet(Block, Siblings, len) IN
  /\ Begin(w, "next") /\ live
  /\ c # NoCidr
  /\ Become(w, [Idle EXCEPT !.pc = "s_check", !.cidrs = {c}])
  /\ UNCHANGED <<subs, claims, live>>

SiblingCheck(w) ==
  /\ h[w].pc = "s_check"
  /\ IF \A c \in h[w].cidrs : \A x \in Siblings : ~cidrOverlaps(x, c)
       THEN Become(w, [h[w] EXCEPT !.pc = "s_insert"])
       ELSE Finish(w)
  /\ UNCHANGED <<subs, claims, live>>

CreateInsert(w) == h[w].pc = "s_insert" /\ InsertSubs(w, h[w].cidrs, FALSE)

-----------------------------------------------------------------------------
(* bulkAllocate: one READ COMMITTED transaction that reads the siblings,   *)
(* packs the template, checks the result again and inserts.                *)

BulkRead(w, t, anchor) ==
  LET packed == packIntoAnchor(Block, Siblings, t, anchor)
      kept == {packed[i] : i \in {j \in 1..Len(t) : ~t[j].skip}}
  IN
  /\ Begin(w, "bulk") /\ live
  /\ packed # NoCidr
  /\ \A c \in kept : \A x \in Siblings : ~cidrOverlaps(x, c)
  /\ Become(w, [Idle EXCEPT !.pc = "b_commit", !.cidrs = kept])
  /\ UNCHANGED <<subs, claims, live>>

BulkCommit(w) == h[w].pc = "b_commit" /\ InsertSubs(w, h[w].cidrs, FALSE)

-----------------------------------------------------------------------------
(* Discovery, phases 1 and 2, for one discovered CIDR or one lost device.  *)
(* Everything is decided on a snapshot; deprecated subnets do not count.   *)

SyncSubnet(w, typed) ==
  LET c == Normalize(typed.base, typed.len)
      same == {s \in SubIds : subs[s].status \notin {"none", "deprecated"} /\ subs[s].cidr = c}
  IN
  /\ Begin(w, "sync")
  /\ \/ \E s \in same : Become(w, [Idle EXCEPT !.pc = "y_claim", !.sub = s,
                                               !.first = ~subs[s].found])
     \/ /\ same = {} /\ live /\ cidrContains(Block, c)
        /\ \A x \in Current : ~cidrOverlaps(x, c)
        /\ Become(w, [Idle EXCEPT !.pc = "y_insert", !.cidrs = {c}])
  /\ UNCHANGED <<subs, claims, live>>

SyncInsert(w) == h[w].pc = "y_insert" /\ InsertSubs(w, h[w].cidrs, TRUE)

\* The first claim of a manual subnet resets its status.
SyncClaim(w) ==
  LET s == h[w].sub IN
  /\ h[w].pc = "y_claim"
  /\ subs' = IF Exists(s)
               THEN [subs EXCEPT ![s].found = TRUE,
                                 ![s].status = IF h[w].first THEN "available" ELSE @]
               ELSE subs
  /\ Finish(w)
  /\ UNCHANGED <<claims, live>>

\* A subnet whose FortiGate left the roster is deprecated.
SyncGone(w, s) ==
  /\ Begin(w, "sync")
  /\ subs[s].found /\ subs[s].status # "deprecated"
  /\ Become(w, [Idle EXCEPT !.pc = "y_gone", !.sub = s])
  /\ UNCHANGED <<subs, claims, live>>

SyncDeprecate(w) ==
  LET s == h[w].sub IN
  /\ h[w].pc = "y_gone"
  /\ subs' = IF Exists(s) THEN [subs EXCEPT ![s].status = "deprecated"] ELSE subs
  /\ Finish(w)
  /\ UNCHANGED <<claims, live>>

-----------------------------------------------------------------------------
(* updateSubnet, deleteSubnet, deleteBlock.                                *)

\* An operator may set any status, also that of a deprecated subnet.
UpdateSubnet(s, status) ==
  /\ (IF status = "deprecated" THEN "deprecate" ELSE "revive") \in mix.ops
  /\ Exists(s) /\ subs[s].status # status
  /\ subs' = [subs EXCEPT ![s].status = status]
  /\ UNCHANGED <<claims, live, h>>

\* Rows of the subnets go with them (onDelete: Cascade).
Cascade(S) ==
  /\ subs' = [s \in SubIds |-> IF s \in S THEN NoSub ELSE subs[s]]
  /\ claims' = [k \in ClaimIds |-> IF claims[k].sub \in S THEN NoClaim ELSE claims[k]]

Mut_Deletable(S) == \A s \in S : ActiveAt(s, Whole) = {}
Deletable(S) == \A s \in S : ActiveIn(s) = {}

DeleteSubnetCount(w, s) ==
  /\ Begin(w, "delete")
  /\ Exists(s) /\ Deletable({s})
  /\ Become(w, [Idle EXCEPT !.pc = "d_delete", !.sub = s])
  /\ UNCHANGED <<subs, claims, live>>

DeleteSubnet(w) ==
  /\ h[w].pc = "d_delete"
  /\ IF Exists(h[w].sub) THEN Cascade({h[w].sub}) ELSE UNCHANGED <<subs, claims>>
  /\ Finish(w)
  /\ UNCHANGED live

DeleteBlockCount(w) ==
  /\ Begin(w, "deleteBlock") /\ live
  /\ Deletable({s \in SubIds : Exists(s)})
  /\ Become(w, [Idle EXCEPT !.pc = "k_delete"])
  /\ UNCHANGED <<subs, claims, live>>

DeleteBlock(w) ==
  /\ h[w].pc = "k_delete"
  /\ IF live THEN Cascade(SubIds) ELSE UNCHANGED <<subs, claims>>
  /\ live' = FALSE
  /\ Finish(w)

-----------------------------------------------------------------------------
(* Reservations.                                                           *)

\* createReservation's check, for a full-subnet claim or for one address.
ClaimFree(s, ip) == subs[s].status \in {"available", "reserved"} /\ ActiveAt(s, ip) = {}

ReserveCheck(w, s, due) ==
  /\ Begin(w, "claim") /\ ClaimFree(s, Whole)
  /\ due => "expire" \in mix.ops
  /\ Become(w, [Idle EXCEPT !.pc = "c_insert", !.sub = s, !.due = due])
  /\ UNCHANGED <<subs, claims, live>>

\* nextAvailableReservation: the first free host, then createReservation.
NextReservation(w, s) ==
  LET ip == NextHost(subs[s].cidr, {claims[k].ip : k \in ActiveIn(s)}, PageSize) IN
  /\ Begin(w, "host")
  /\ subs[s].status \in {"available", "reserved"}
  /\ ip # NoCidr
  /\ Become(w, [Idle EXCEPT !.pc = "c_check", !.sub = s, !.ip = ip])
  /\ UNCHANGED <<subs, claims, live>>

HostCheck(w) ==
  LET hw == h[w] IN
  /\ hw.pc = "c_check"
  /\ IF ClaimFree(hw.sub, hw.ip) THEN Become(w, [hw EXCEPT !.pc = "c_insert"]) ELSE Finish(w)
  /\ UNCHANGED <<subs, claims, live>>

\* A full-subnet claim marks the subnet reserved.
StatusAfter(s, ip) == IF ip = Whole THEN [subs EXCEPT ![s].status = "reserved"] ELSE subs

\* Rejected when the subnet is gone, or by the key, which ignores NULLs.
ReserveInsert(w) ==
  LET hw == h[w] IN
  /\ hw.pc = "c_insert"
  /\ IF Exists(hw.sub) /\ (hw.ip = Whole \/ ActiveAt(hw.sub, hw.ip) = {})
       THEN /\ NewClaims # {}
            /\ claims' = [claims EXCEPT ![Min(NewClaims)] =
                 [sub |-> hw.sub, ip |-> hw.ip, status |-> "active", due |-> hw.due]]
            /\ subs' = StatusAfter(hw.sub, hw.ip)
       ELSE UNCHANGED <<subs, claims>>
  /\ Finish(w)
  /\ UNCHANGED live

ReleaseBegin(w, k) ==
  /\ Begin(w, "release")
  /\ claims[k].status = "active"
  /\ Become(w, [Idle EXCEPT !.pc = "r_commit", !.claim = k, !.ip = claims[k].ip])
  /\ UNCHANGED <<subs, claims, live>>

Mut_StatusFreed(s, ip) == subs
StatusFreed(s, ip) == IF ip = Whole THEN [subs EXCEPT ![s].status = "available"] ELSE subs

\* One transaction: other released rows of the target go, this one is
\* released, a full-subnet claim sets the subnet available.
ReleaseCommit(w) ==
  LET k == h[w].claim
      s == claims[k].sub
  IN
  /\ h[w].pc = "r_commit"
  /\ IF claims[k].status = "none"
       THEN UNCHANGED <<subs, claims>>
       ELSE /\ claims' = [x \in ClaimIds |->
                 IF x = k THEN [claims[k] EXCEPT !.status = "released"]
                 ELSE IF claims[x].sub = s /\ claims[x].ip = h[w].ip
                         /\ claims[x].status = "released" THEN NoClaim
                 ELSE claims[x]]
            /\ subs' = StatusFreed(s, h[w].ip)
  /\ Finish(w)
  /\ UNCHANGED live

\* expireStaleReservations; the subnet's status is not part of it.
Expire ==
  LET due == {k \in ClaimIds : claims[k].status = "active" /\ claims[k].due} IN
  /\ due # {}
  /\ claims' = [k \in ClaimIds |-> IF k \in due THEN [claims[k] EXCEPT !.status = "expired"]
                                                ELSE claims[k]]
  /\ UNCHANGED <<subs, live, h>>

-----------------------------------------------------------------------------

Start(w) ==
  \/ \E c \in Requested : CreateBegin(w, c) \/ SyncSubnet(w, c)
  \/ \E len \in Lengths : AllocateNext(w, len)
  \/ \E t \in Templates, a \in Anchors : BulkRead(w, t, a)
  \/ \E s \in SubIds : \/ SyncGone(w, s) \/ DeleteSubnetCount(w, s)
                       \/ NextReservation(w, s)
                       \/ \E due \in BOOLEAN : ReserveCheck(w, s, due)
  \/ DeleteBlockCount(w)
  \/ \E k \in ClaimIds : ReleaseBegin(w, k)

Continue(w) ==
  \/ SiblingCheck(w) \/ CreateInsert(w) \/ BulkCommit(w)
  \/ SyncInsert(w) \/ SyncClaim(w) \/ SyncDeprecate(w)
  \/ DeleteSubnet(w) \/ DeleteBlock(w)
  \/ HostCheck(w) \/ ReserveInsert(w) \/ ReleaseCommit(w)

Step ==
  \/ \E w \in Requests : Start(w) \/ Continue(w)
  \/ \E s \in SubIds, status \in Statuses : UpdateSubnet(s, status)
  \/ Expire

Next == Step /\ UNCHANGED mix

Spec == Init /\ [][Next]_vars

-----------------------------------------------------------------------------
(* Properties.                                                             *)

InUse(s) == subs[s].status \in {"available", "reserved"}

\* Two subnets in use never share an address (the reference for the overlap
\* test, first fit, packing and their order).
NoOverlap ==
  \A s, t \in SubIds : (s # t /\ InUse(s) /\ InUse(t)) =>
    Addresses(subs[s].cidr) \cap Addresses(subs[t].cidr) = {}

\* "Subnet must be contained within parent block CIDR", whatever runs at the
\* same time (for templates that fit in the block).
Contained == \A s \in SubIds : Exists(s) => Addresses(subs[s].cidr) \subseteq Addresses(Block)

\* allocateNextSubnet says there is no room only when no aligned block of the
\* length is free, and what it offers is free.
RoomFound ==
  \A len \in Lengths :
    LET taken == UNION {Addresses(c) : c \in Siblings}
        c == findNextAvailableSubnet(Block, Siblings, len)
        room == {x \in Cidr : x.len = len /\ x.base % Size(len) = 0
                              /\ Addresses(x) \subseteq Addresses(Block) \ taken}
    IN IF c = NoCidr THEN room = {} ELSE c \in room

\* nextAvailableReservation gives up only when every host is taken, and never
\* offers the network or the broadcast address of a subnet that has them.
HostFound ==
  \A s \in SubIds : Exists(s) =>
    LET c == subs[s].cidr
        taken == {claims[k].ip : k \in ActiveIn(s)}
        hosts == IF Size(c.len) <= 2 THEN Addresses(c) ELSE (c.base + 1)..(Last(c) - 1)
        ip == NextHost(c, taken, PageSize)
    IN IF ip = NoCidr THEN hosts \subseteq taken ELSE ip \in hosts \ taken

\* "Full-subnet reservation (ipAddress=null) -> subnet.status = reserved", and
\* back: a subnet is shown reserved just while somebody claims it, or after a
\* claim of it expired (expiry leaves the status behind).
StatusAgrees ==
  LET claimed(s, statuses) == \E k \in ClaimIds :
        claims[k].sub = s /\ claims[k].ip = Whole /\ claims[k].status \in statuses
  IN \A s \in {t \in SubIds : Exists(t)} :
       /\ claimed(s, {"active"}) => subs[s].status = "reserved"
       /\ subs[s].status = "reserved" => claimed(s, {"active", "expired"})

\* "Block deletion forbidden if any active reservations exist across child
\* subnets": a delete never takes an active reservation with it.
NoActiveLost ==
  [][\A k \in ClaimIds : claims[k].status = "active" => claims'[k].status # "none"]_vars

-----------------------------------------------------------------------------
(* What the proofs carry along.                                            *)

\* The foreign key of a reservation.
ClaimsHaveSubs == \A k \in ClaimIds : claims[k].status # "none" => Exists(claims[k].sub)

\* A function that goes on with a subnet or a reservation has one.
HasTarget(x) ==
  /\ x.pc \in {"y_claim", "y_gone", "d_delete", "c_check", "c_insert"} => x.sub \in SubIds
  /\ x.pc = "r_commit" => x.claim \in ClaimIds

Base == TypeOK /\ ClaimsHaveSubs /\ \A w \in Requests : HasTarget(h[w])

\* What is stored, and what is about to be, lies in the block.
Inside(c) == Addresses(c) \subseteq Addresses(Block)
AllInside ==
  /\ \A s \in SubIds : Inside(subs[s].cidr)
  /\ \A w \in Requests : \A c \in h[w].cidrs : Inside(c)

\* One full-subnet claim at a time, and none where nobody asks for one.
WholeClaims ==
  /\ \A j, k \in ClaimIds :
       (j # k /\ claims[j].sub = claims[k].sub /\ claims[j].ip = Whole /\ claims[k].ip = Whole) =>
         claims[j].status # "active" \/ claims[k].status # "active"
  /\ "claim" \notin mix.ops =>
       \A k \in ClaimIds : claims[k].status # "none" => claims[k].ip # Whole

\* What a function counted or checked still holds when it writes, if no
\* other function runs.
StillHolds(x) ==
  /\ x.pc = "d_delete" => ActiveIn(x.sub) = {}
  /\ x.pc = "k_delete" => \A s \in SubIds : ActiveIn(s) = {}
  /\ x.pc \in {"c_check", "c_insert"} => Exists(x.sub)
  /\ x.pc = "c_check" => x.ip # Whole
  /\ (x.pc = "c_insert" /\ x.ip = Whole) => ActiveAt(x.sub, Whole) = {}
  /\ x.pc = "r_commit" =>
       /\ claims[x.claim].status # "none" /\ claims[x.claim].ip = x.ip
       /\ x.ip = Whole => ActiveAt(claims[x.claim].sub, Whole) \subseteq {x.claim}
  /\ (x.pc = "c_insert" /\ x.ip = Whole) => "claim" \in mix.ops
  /\ x.pc \in {"y_claim", "y_gone"} => "sync" \in mix.ops

Alone == WholeClaims /\ \A w \in Requests : StillHolds(h[w])

\* Discovery looks only at the subnets in use; everybody else at all of them.
Binding(s) == IF "sync" \in mix.ops THEN InUse(s) ELSE Exists(s)
Apart(c, d) == Addresses(c) \cap Addresses(d) = {}

BindingApart ==
  \A s, t \in SubIds : (s # t /\ Binding(s) /\ Binding(t)) => Apart(subs[s].cidr, subs[t].cidr)

\* What is about to be inserted, or put to use again, is free.
PlanFree(x) ==
  /\ \A c, d \in x.cidrs : c # d => Apart(c, d)
  /\ x.pc \in {"s_insert", "b_commit", "y_insert"} =>
       \A c \in x.cidrs : \A s \in SubIds : Binding(s) => Apart(c, subs[s].cidr)
  /\ x.pc = "y_claim" =>
       \A t \in SubIds : (t # x.sub /\ Binding(t)) => Apart(subs[x.sub].cidr, subs[t].cidr)

Planned == BindingApart /\ \A w \in Requests : PlanFree(h[w])

=============================================================================
