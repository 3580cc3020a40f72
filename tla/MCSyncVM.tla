------------------------------ MODULE MCSyncVM ------------------------------
(* Instances of SyncVM for TLC: machine classes, and how a behaviour begins. *)
EXTENDS SyncVM, TLC

CONSTANTS m1, m2, m3

Node == <<"local", "fast", "slow">>

OnLocal == {"local", "fast"}
OnSlow  == {"slow"}
Nowhere == {"tape"}

Disk(selector) ==
  [selector |-> selector, size |-> 10, ssd |-> FALSE, discard |-> FALSE,
   iothread |-> FALSE, cache |-> "", aio |-> ""]

NIC(bridge) == [bridge |-> bridge, firewall |-> FALSE, vlan |-> 0]

PCI(mapping) ==
  [mapping |-> mapping, pcie |-> FALSE, primaryGPU |-> FALSE,
   romBar |-> "unset", mdev |-> ""]

USB(mapping) == [mapping |-> mapping, usb3 |-> FALSE]

Plain ==
  [set |-> "", pool |-> "", tags |-> {}, cores |-> 2, sockets |-> 1,
   memory |-> 4, cpuType |-> "", bridge |-> "", firewall |-> "unset",
   vlan |-> 0, disk |-> Disk(OnLocal), disks |-> <<>>, nics |-> <<>>,
   pcis |-> <<>>, usbs |-> <<>>, machineType |-> "", bios |-> "", vga |-> "",
   numa |-> FALSE, hugepages |-> "", balloon |-> "unset"]

InSet(s)   == [Plain EXCEPT !.set = s]
InPool(p)  == [Plain EXCEPT !.set = "workers", !.pool = p]
NoDisk(s)  == [InSet(s) EXCEPT !.disks = <<Disk(Nowhere)>>]

\* The sequence of the pairs of a field and one of the values.
Field(f, values) == [i \in DOMAIN values |-> <<f, values[i]>>]

\* What a class may say beyond Plain.
Settings ==
  << <<"set", "workers">>, <<"pool", "gpu">>, <<"tags", {<<"a">>}>>,
     <<"cores", 4>>, <<"cpuType", "host">>, <<"vlan", 7>>, <<"numa", TRUE>>,
     <<"machineType", "q35">>, <<"vga", "virtio">> >>
  \o Field("bridge", <<"vmbr0", "vmbr1">>)
  \o Field("firewall", <<"on", "off">>)
  \o Field("balloon", <<"on", "off">>)
  \o Field("bios", <<"seabios", "ovmf">>)
  \o Field("hugepages", <<"2MB", "2", "any">>)
  \o Field("disk",
       <<Disk(OnSlow), [Disk(OnLocal) EXCEPT !.size = 20],
         [Disk(OnLocal) EXCEPT !.ssd = TRUE, !.aio = "native"]>>)
  \o Field("disks",
       <<<<Disk(OnLocal)>>, <<Disk(OnLocal), Disk(OnSlow)>>,
         <<Disk(OnSlow), Disk(OnLocal)>>,
         <<[Disk(OnSlow) EXCEPT !.discard = TRUE, !.cache = "none"]>>,
         <<[Disk(OnSlow) EXCEPT !.iothread = TRUE]>>>>)
  \o Field("nics",
       <<<<NIC("vmbr0")>>, <<NIC("vmbr0"), NIC("vmbr2")>>,
         <<[NIC("vmbr0") EXCEPT !.firewall = TRUE]>>,
         <<[NIC("vmbr0") EXCEPT !.vlan = 7]>>>>)
  \o Field("pcis",
       <<<<PCI("gpu")>>, <<PCI("gpu"), PCI("nic")>>,
         <<[PCI("gpu") EXCEPT !.pcie = TRUE, !.romBar = "on"]>>,
         <<PCI("gpu"), [PCI("nic") EXCEPT !.romBar = "off"]>>,
         <<[PCI("gpu") EXCEPT !.primaryGPU = TRUE, !.mdev = "d"]>>>>)
  \o Field("usbs",
       <<<<USB("sdr")>>, <<USB("sdr"), USB("key")>>, <<USB("key"), USB("sdr")>>,
         <<[USB("sdr") EXCEPT !.usb3 = TRUE]>>>>)

\* Every two settings together, the r-th and one up to it; the r-th decides
\* on a common field.
Described ==
  LET n == Len(Settings) IN
  [i \in 1..((n * (n + 1)) \div 2) |->
     LET r == CHOOSE r \in 1..n : r * (r - 1) < 2 * i /\ 2 * i <= r * (r + 1)
         s == Settings[r]
         t == Settings[i - ((r * (r - 1)) \div 2)]
     IN  [f \in DOMAIN Plain |-> IF f = s[1] THEN s[2]
                                 ELSE IF f = t[1] THEN t[2] ELSE Plain[f]]]

Named ==
  <<InSet("workers"), InPool("gpu"), NoDisk("workers"), InSet("gpu")>>

AllClasses == Named \o Described

\* The first classes, by what is particular about them.
Workers   == 1
UsesGPU   == 2
LacksDisk == 3
OwnsGPU   == 4

Budget(kinds) == [k \in FaultKinds |-> IF k \in kinds THEN 1 ELSE 0]

NoPools == [p \in Pools |-> "none"]
GPUPool == [NoPools EXCEPT !["gpu"] = "foreign"]

\* One machine of each class in turn.
OneByOne ==
  {[class |-> [m \in Machines |-> c], active |-> {m1}, pools |-> NoPools,
    faults |-> Budget({})] : c \in Classes}

Of(a, b, c) == m1 :> a @@ m2 :> b @@ m3 :> c

\* Two machines, under one kind of fault: of one set; one that uses the pool
\* of the other's set, which an administrator may have made; one whose
\* additional disk finds no storage.
TwoOfThem ==
  {[class |-> c, active |-> {m1, m2}, pools |-> p, faults |-> Budget({k})] :
     c \in {Of(Workers, w, Workers) : w \in {Workers, LacksDisk}}
             \cup {Of(OwnsGPU, UsesGPU, Workers)},
     p \in {NoPools, GPUPool}, k \in FaultKinds}

\* Three machines, undisturbed.
ThreeOfThem ==
  {[class |-> Of(Workers, Workers, c), active |-> Machines, pools |-> NoPools,
    faults |-> Budget({})] : c \in {Workers, UsesGPU}}

AllScenarios == OneByOne \cup TwoOfThem \cup ThreeOfThem
=============================================================================
