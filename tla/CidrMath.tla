------------------------------- MODULE CidrMath -------------------------------
(***************************************************************************)
(* The address arithmetic of utils/cidr.ts in an address space of W bits   *)
(* (32 in the code).  A CIDR is its base address and its prefix length;    *)
(* dotted strings are left out, the 32-bit wrap of intToIp is kept.        *)
(***************************************************************************)
EXTENDS Integers, Sequences, FiniteSetsExt

CONSTANTS
  W,      \* bits of an address
  NoCidr  \* the null of findNextAvailableSubnet and packIntoAnchor

ASSUME WidthAssumption == W \in Nat \ {0}

\* 2 ** n, as the recursion that the proofs unfold.
pow2[n \in Nat] == IF n = 0 THEN 1 ELSE 2 * pow2[n - 1]

Space == pow2[W]
Size(len) == pow2[W - len]

\* normalizeCidr: the host bits are zeroed.
Normalize(addr, len) == [base |-> addr - (addr % Size(len)), len |-> len]

Last(c) == c.base + Size(c.len) - 1
InCidr(a, c) == c.base <= a /\ a <= Last(c)

Cidr == [base: 0..(Space - 1), len: 0..W]

ASSUME NullAssumption == NoCidr \notin Cidr /\ NoCidr \notin Int

\* What the two tests below are about: the addresses of a block.
Addresses(c) == c.base..Last(c)

Mut_cidrContains(outer, inner) == InCidr(inner.base, outer)
cidrContains(outer, inner) == InCidr(inner.base, outer) /\ InCidr(Last(inner), outer)

cidrOverlaps(a, b) == InCidr(b.base, a) \/ InCidr(a.base, b)

Clear(c, allocated) == \A x \in allocated : ~cidrOverlaps(c, x)

-----------------------------------------------------------------------------
(* First fit.                                                              *)

\* The candidates of the two search loops: steps of one block from the
\* parent's base while the whole block still fits.
Mut_Candidates(parent, len) ==
  {b \in parent.base..Last(parent) :
     (b - parent.base) % Size(len) = 0 /\ b + Size(len) - 1 < Last(parent)}
Candidates(parent, len) ==
  {b \in parent.base..Last(parent) :
     (b - parent.base) % Size(len) = 0 /\ b + Size(len) - 1 <= Last(parent)}

findNextAvailableSubnet(parent, allocated, len) ==
  LET free == {b \in Candidates(parent, len) : Clear(Normalize(b, len), allocated)}
  IN IF free = {} THEN NoCidr ELSE Normalize(Min(free), len)

-----------------------------------------------------------------------------
(* Packing a template into an anchor.  An entry is [len, skip].            *)

AlignUp(x, size) == ((x + size - 1) \div size) * size

\* Where the cursor stands after i entries.
Mut_Cursor(entries) ==
  LET c[i \in 0..Len(entries)] ==
        IF i = 0 THEN 0 ELSE c[i - 1] + Size(entries[i].len)
  IN c
Cursor(entries) ==
  LET c[i \in 0..Len(entries)] ==
        IF i = 0 THEN 0
        ELSE AlignUp(c[i - 1], Size(entries[i].len)) + Size(entries[i].len)
  IN c

Offset(entries, i) == Cursor(entries)[i] - Size(entries[i].len)

\* The smallest block that holds the span; it may be larger than the space.
ContainingLen(entries) == Max({l \in (-W)..W : Size(l) >= Cursor(entries)[Len(entries)]})

\* The larger of the requested and the containing block, but never larger
\* than the parent.
AnchorLen(parent, entries, requested) ==
  Max({parent.len, Min({requested, ContainingLen(entries)})})

\* The assignments, one CIDR per entry, or NoCidr.
packIntoAnchor(parent, allocated, entries, requested) ==
  LET len == AnchorLen(parent, entries, requested)
      free == {b \in Candidates(parent, len) : Clear(Normalize(b, len), allocated)}
  IN IF free = {} THEN NoCidr
     ELSE [i \in 1..Len(entries) |->
             Normalize((Min(free) + Offset(entries, i)) % Space, entries[i].len)]

-----------------------------------------------------------------------------
(* Enumeration of a subnet's addresses, page by page.                      *)

\* enumerateSubnetIps: the network and the broadcast address are not hosts,
\* except in the two smallest blocks.
IsHost(a, c) == c.len >= W - 1 \/ (a # c.base /\ a # Last(c))

Page(c, page, pageSize) ==
  {a \in Addresses(c) : a - c.base >= (page - 1) * pageSize /\ a - c.base < page * pageSize}

\* nextAvailableReservation's loop: pages are read until one has a free host
\* or the last one has been read.
Mut_Reached(c, page, pageSize) == \A q \in 1..(page - 1) : (q + 1) * pageSize < Size(c.len)
Reached(c, page, pageSize) == \A q \in 1..(page - 1) : q * pageSize < Size(c.len)

FreeHosts(c, reserved, page, pageSize) ==
  {a \in Page(c, page, pageSize) : IsHost(a, c) /\ a \notin reserved}

NextHost(c, reserved, pageSize) ==
  LET pages == {p \in 1..Size(c.len) :
                  Reached(c, p, pageSize) /\ FreeHosts(c, reserved, p, pageSize) # {}}
  IN IF pages = {} THEN NoCidr ELSE Min(FreeHosts(c, reserved, Min(pages), pageSize))

=============================================================================
