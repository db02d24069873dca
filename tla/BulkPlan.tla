------------------------------- MODULE BulkPlan -------------------------------
(***************************************************************************)
(* How apply_clicked turns a selection into a plan: the addresses counted  *)
(* up from the first one, each validated and looked up in the inventory    *)
(* (network.c; apply_clicked, has_duplicate_ip and selected_ip_owner of    *)
(* the frontends).                                                         *)
(*                                                                         *)
(* An address is a number of four digits to the base Octet, 256 in the     *)
(* code.  A mask with contiguous bits is known by the size of its subnets; *)
(* ArithmeticIsBitwise relates the arithmetic used here to the bits the    *)
(* code works on.                                                          *)
(***************************************************************************)
EXTENDS Integers, Sequences

CONSTANTS
    Octet,          \* values of an octet: 256
    Bits,           \* bits of an address: 32
    LastUnicast,    \* last first octet below the multicast range: 223
    Loopback,       \* first octet of the loopback network: 127
    LinkLocal,      \* first two octets of the link-local network: 169.254
    Row,            \* rows of the inventory
    Mac,            \* MAC addresses, in lower case
    NoMac,          \* a device that reported none
    Start,          \* addresses typed as the first of the range
    Mask,           \* masks typed
    Gateway,        \* gateways typed
    Place,          \* addresses at which devices were found
    RowMask,        \* masks they reported
    RowGateway,     \* gateways they reported
    MaxSelected,    \* largest selection
    NotAnAddress    \* text inet_pton does not accept

Size == Octet * Octet * Octet * Octet

Address == 0..(Size - 1)

\* Powers of two, and those up to Size at hand.
TwoTo[k \in Nat] == IF k = 0 THEN 1 ELSE 2 * TwoTo[k - 1]
Power == [k \in 0..Bits |-> TwoTo[k]]

ASSUME BulkPlanAssumption ==
    /\ Octet \in Nat \ {0}
    /\ Bits \in Nat
    /\ TwoTo[Bits] = Size
    /\ Start \cup Mask \cup Gateway \subseteq Address \cup {NotAnAddress}
    /\ Place \cup RowMask \cup RowGateway \subseteq Address \cup {NotAnAddress}
    /\ NotAnAddress \notin Int
    /\ NoMac \notin Mac
    /\ MaxSelected \in Nat

VARIABLES
    rows,       \* the inventory: what the device of every row reported
    selected,   \* the rows selected, in order
    form,       \* what the form holds
    plan,       \* the addresses planned so far
    warned,     \* jobs shown with a warning
    verdict     \* where the planning is

vars == <<rows, selected, form, plan, warned, verdict>>

RowState == [mac: Mac \cup {NoMac}, ip: Place, mask: RowMask, gateway: RowGateway]
Form == [dhcp: BOOLEAN, start: Start, mask: Mask, gateway: Gateway]
Verdict == {"planning", "accepted", "noMac", "invalidIp", "invalidMask", "invalidGateway",
            "networkAddress", "broadcastAddress", "duplicate", "overlap"}

-----------------------------------------------------------------------------
(* network.c                                                               *)

FirstOctet(a) == a \div (Octet * Octet * Octet)
SecondOctet(a) == (a \div (Octet * Octet)) % Octet

IsUsableUnicast(a) ==
    /\ FirstOctet(a) >= 1 /\ FirstOctet(a) <= LastUnicast
    /\ FirstOctet(a) # Loopback
    /\ <<FirstOctet(a), SecondOctet(a)>> # LinkLocal

IsPowerOfTwo(n) == \E k \in 0..Bits : n = Power[k]

\* inverse_mask + 1
SubnetSize(mask) == Size - mask

EvenSize(mask) == mask # 0 /\ mask # Size - 1 /\ SubnetSize(mask) % 2 = 0   \* (mutant)
Contiguous(mask) == mask # 0 /\ mask # Size - 1 /\ IsPowerOfTwo(SubnetSize(mask))

\* host & inverse_mask, and what is left of host & mask without its zeros
HostPart(a, mask) == a % SubnetSize(mask)
Subnet(a, mask) == a \div SubnetSize(mask)

Usable(a) == a # NotAnAddress /\ IsUsableUnicast(a)

\* The first complaint of tvt_network_validate, "none" if it has none.
HostBitsUnchecked(ip, mask, gateway) ==             \* (mutant)
    IF ~Usable(ip) THEN "invalidIp"
    ELSE IF mask = NotAnAddress \/ ~Contiguous(mask) THEN "invalidMask"
    ELSE IF ~Usable(gateway) THEN "invalidGateway"
    ELSE IF HostPart(gateway, mask) \in {0, SubnetSize(mask) - 1} THEN "invalidGateway"
    ELSE "none"
Complaint(ip, mask, gateway) ==
    IF ~Usable(ip) THEN "invalidIp"
    ELSE IF mask = NotAnAddress \/ ~Contiguous(mask) THEN "invalidMask"
    ELSE IF ~Usable(gateway) THEN "invalidGateway"
    ELSE IF HostPart(ip, mask) = 0 THEN "networkAddress"
    ELSE IF HostPart(ip, mask) = SubnetSize(mask) - 1 THEN "broadcastAddress"
    ELSE IF HostPart(gateway, mask) \in {0, SubnetSize(mask) - 1} THEN "invalidGateway"
    ELSE "none"

PastGateway(ip, mask, gateway) == ip > gateway      \* (mutant)
OffSubnet(ip, mask, gateway) == Subnet(ip, mask) # Subnet(gateway, mask)

\* tvt_network_increment_ipv4
Incremented(start, offset) ==
    IF start = NotAnAddress \/ offset > Size - 1 - start THEN NotAnAddress
    ELSE IF IsUsableUnicast(start + offset) THEN start + offset ELSE NotAnAddress

-----------------------------------------------------------------------------
(* apply_clicked                                                           *)

SelectedRows == {selected[i] : i \in DOMAIN selected}

MacIsSelected(mac) == \E r \in SelectedRows : rows[r].mac = mac

NoDuplicateCheck(a) == FALSE                        \* (mutant)
HasDuplicateIp(a) == \E r \in Row : rows[r].ip = a /\ ~MacIsSelected(rows[r].mac)

OwnerByMac(target, a) ==                            \* (mutant)
    \E r \in SelectedRows : rows[r].mac # rows[target].mac /\ rows[r].ip = a
SelectedIpOwner(target, a) == \E r \in SelectedRows \ {target} : rows[r].ip = a

Target == selected[Len(plan) + 1]

\* The mask and the gateway of the next job.
Settings == IF form.dhcp THEN rows[Target] ELSE form

NewIp == IF form.dhcp THEN rows[Target].ip ELSE Incremented(form.start, Len(plan))

\* A discovery lists a device once for every spelling of its MAC address, and
\* keeps the first answer of each: the rows of a device that moved meanwhile
\* show different addresses.  A device without MAC address is listed by address.
Inventory(rs) ==
    \A r, t \in Row :
        r # t /\ rs[r].mac = NoMac /\ rs[t].mac = NoMac => rs[r].ip # rs[t].ip

Init ==
    /\ rows \in {rs \in [Row -> RowState] : Inventory(rs)}
    /\ selected \in {s \in UNION {[1..n -> Row] : n \in 1..MaxSelected} :
                         \A i, j \in DOMAIN s : s[i] = s[j] => i = j}
    /\ form \in Form
    /\ plan = <<>>
    /\ warned = {}
    /\ verdict = "planning"

RefuseKeeping(reason) ==                            \* (mutant)
    /\ verdict' = reason
    /\ plan' = <<>>
    /\ UNCHANGED warned
\* The notice is shown and the batch freed.
Refuse(reason) ==
    /\ verdict' = reason
    /\ plan' = <<>>
    /\ warned' = {}

Planning == verdict = "planning" /\ Len(plan) < Len(selected)

RefuseNoMac ==
    /\ Planning
    /\ rows[Target].mac = NoMac
    /\ Refuse("noMac")
    /\ UNCHANGED <<rows, selected, form>>

RefuseSettings ==
    /\ Planning /\ rows[Target].mac # NoMac
    /\ Complaint(NewIp, Settings.mask, Settings.gateway) # "none"
    /\ Refuse(Complaint(NewIp, Settings.mask, Settings.gateway))
    /\ UNCHANGED <<rows, selected, form>>

Valid ==
    /\ Planning /\ rows[Target].mac # NoMac
    /\ Complaint(NewIp, Settings.mask, Settings.gateway) = "none"

RefuseDuplicate ==
    /\ Valid /\ ~form.dhcp
    /\ HasDuplicateIp(NewIp)
    /\ Refuse("duplicate")
    /\ UNCHANGED <<rows, selected, form>>

RefuseOverlap ==
    /\ Valid /\ ~form.dhcp
    /\ ~HasDuplicateIp(NewIp) /\ SelectedIpOwner(Target, NewIp)
    /\ Refuse("overlap")
    /\ UNCHANGED <<rows, selected, form>>

AddJob ==
    /\ Valid
    /\ form.dhcp \/ (~HasDuplicateIp(NewIp) /\ ~SelectedIpOwner(Target, NewIp))
    /\ plan' = Append(plan, NewIp)
    /\ warned' = IF OffSubnet(NewIp, Settings.mask, Settings.gateway)
                 THEN warned \cup {Len(plan) + 1} ELSE warned
    /\ UNCHANGED <<rows, selected, form, verdict>>

\* Every row has a job: the plan is shown for confirmation.
Accept ==
    /\ verdict = "planning" /\ Len(plan) = Len(selected)
    /\ verdict' = "accepted"
    /\ UNCHANGED <<rows, selected, form, plan, warned>>

Next == RefuseNoMac \/ RefuseSettings \/ RefuseDuplicate \/ RefuseOverlap \/ AddJob \/ Accept

Spec == Init /\ [][Next]_vars

-----------------------------------------------------------------------------
(* Properties                                                              *)

\* Every variable has its type; a job has a row.
TypeOK ==
    /\ rows \in [Row -> RowState]
    /\ selected \in Seq(Row)
    /\ form \in Form
    /\ plan \in Seq(Address)
    /\ Len(plan) <= Len(selected)
    /\ warned \subseteq DOMAIN plan
    /\ verdict \in Verdict

\* A static plan never leaves the subnet of its first address, although no
\* address is compared with another: to leave it, the count would have to pass
\* a broadcast address, which is refused.
OneSubnet ==
    ~form.dhcp =>
        \A i, j \in DOMAIN plan : Subnet(plan[i], form.mask) = Subnet(plan[j], form.mask)

\* Another device is shown at an address.
ShownForAnother(mac, a) == \E r \in Row : rows[r].ip = a /\ rows[r].mac # mac

\* A row left out of the selection, of a device that is selected through
\* another row, at another address.
Overlooked(r) ==
    /\ r \notin SelectedRows
    /\ \E t \in SelectedRows : rows[t].mac = rows[r].mac /\ rows[t].ip # rows[r].ip

\* An accepted static plan hands out no address twice, and none at which the
\* inventory shows another device, selected or not, although the look-ups go
\* by address among the selected and by MAC address among the others.  One
\* case gets between the two: a device that is listed at two addresses and
\* selected at one of them.
PlanIsFree ==
    verdict = "accepted" /\ ~form.dhcp =>
        \A i \in DOMAIN plan :
            /\ \A j \in DOMAIN plan : i # j => plan[i] # plan[j]
            /\ \A r \in Row :
                   rows[r].ip = plan[i] /\ rows[r].mac # rows[selected[i]].mac => Overlooked(r)

\* The warning about the gateway is shown for all devices of a static plan or
\* for none.
WarnedTogether == ~form.dhcp => warned \in {{}, DOMAIN plan}

\* The bit operations of network.c, bit by bit.
Bit(a, k) == (a \div Power[k]) % 2

\* Subnet sizes, remainders and quotients say what mask, inverse mask and
\* conjunction say in the code.
ArithmeticIsBitwise ==
    form.mask # NotAnAddress =>
        LET mask == form.mask
            inverse == Size - 1 - mask
            addresses == {form.start, form.gateway} \ {NotAnAddress}
        IN  /\ Contiguous(mask) <=>
                   /\ mask # 0 /\ mask # Size - 1
                   /\ \A k \in 0..Bits : Bit(inverse, k) = 0 \/ Bit(inverse + 1, k) = 0
            /\ Contiguous(mask) =>
                   \A a \in addresses, b \in addresses :
                       /\ \A k \in 0..Bits :
                              Bit(HostPart(a, mask), k) = Bit(a, k) * Bit(inverse, k)
                       /\ Subnet(a, mask) = Subnet(b, mask) <=>
                              \A k \in 0..Bits : Bit(a, k) * Bit(mask, k) = Bit(b, k) * Bit(mask, k)

-----------------------------------------------------------------------------
(* What the documentation says and the code does not do                    *)

\* README: a new address is checked for being a duplicate in the current
\* discovery set.  has_duplicate_ip leaves out every row of a selected MAC
\* address, also one at an address that no selected row shows.
NoAddressOfAnother ==
    verdict = "accepted" /\ ~form.dhcp =>
        \A i \in DOMAIN plan : ~ShownForAnother(rows[selected[i]].mac, plan[i])
=============================================================================
