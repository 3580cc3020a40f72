----------------------------- MODULE VMOptions -----------------------------
(***************************************************************************)
(* What syncVM asks Proxmox for: the options of a new VM, built from the   *)
(* machine class (internal/pkg/provider/data.go and provision.go).         *)
(*                                                                         *)
(* An option is a pair of a name and a value; the names of numbered        *)
(* devices are <<"scsi", 0>> for scsi0, others <<"cpu">>.  A value with    *)
(* several parts, such as "virtio,bridge=vmbr0", is the set of its parts.  *)
(* A class is a record with the fields of Data; "" and 0 are the values of *)
(* fields that are not set, and "unset" that of a boolean whose absence    *)
(* means something.                                                        *)
(***************************************************************************)
EXTENDS Integers, Sequences, FiniteSets

CONSTANTS
  Storages,  \* the storages of the node, a sequence of names
  NoStorage  \* no storage

ASSUME StoragesAssumption == \A i \in DOMAIN Storages : Storages[i] # NoStorage

----------------------------------------------------------------------------
(* Classes. *)

AdditionalDisk ==
  [selector: SUBSET STRING, size: Int, ssd: BOOLEAN, discard: BOOLEAN,
   iothread: BOOLEAN, cache: STRING, aio: STRING]

AdditionalNIC == [bridge: STRING, firewall: BOOLEAN, vlan: Nat]

\* A boolean that a class may leave out.
BoolPointer == {"unset", "on", "off"}

\* romBar is what the class says.  The code decodes it into a plain bool, which
\* is the same for a field that is off and one that is left out.
PCIDevice ==
  [mapping: STRING, pcie: BOOLEAN, primaryGPU: BOOLEAN, romBar: BoolPointer,
   mdev: STRING]

USBDevice == [mapping: STRING, usb3: BOOLEAN]

\* A tag of the class, <<tag>>, is not spelled like that of a machine request
\* set, <<"request", set>>.
ClassTag == [1..1 -> STRING]

\* The fields of the primary disk are those of an additional one; set is the
\* machine request set, which the provider reads from the request.
MachineClass ==
  [set: STRING, pool: STRING, tags: SUBSET ClassTag, cores: Int, sockets: Int,
   memory: Nat, cpuType: STRING, bridge: STRING, firewall: BoolPointer,
   vlan: Nat, disk: AdditionalDisk, disks: Seq(AdditionalDisk),
   nics: Seq(AdditionalNIC), pcis: Seq(PCIDevice), usbs: Seq(USBDevice),
   machineType: STRING, bios: STRING, vga: STRING, numa: BOOLEAN,
   hugepages: STRING, balloon: BoolPointer]

----------------------------------------------------------------------------
(* Values. *)

\* pickStorage: the first storage the selector accepts.  A selector, a CEL
\* expression, is the set of the names it accepts.
PickStorage(selector) ==
  LET Matches(i) == Storages[i] \in selector IN
  IF \E i \in DOMAIN Storages : Matches(i)
  THEN Storages[CHOOSE i \in DOMAIN Storages :
                  Matches(i) /\ \A j \in DOMAIN Storages : Matches(j) => i <= j]
  ELSE NoStorage

Or(value, default) == IF value = "" THEN default ELSE value

\* Options and parts that are there on a condition only.
When(condition, options) == IF condition THEN options ELSE <<>>
Part(condition, key, value) == IF condition THEN {<<key, value>>} ELSE {}

DiskValue(d) ==
  {<<"storage", PickStorage(d.selector)>>, <<"size", d.size>>}
    \cup Part(d.ssd, "ssd", "1")
    \cup Part(d.discard, "discard", "on")
    \cup Part(d.iothread, "iothread", "1")
    \cup Part(d.cache # "", "cache", d.cache)
    \cup Part(d.aio # "", "aio", d.aio)

NICValue(bridge, firewall, vlan) ==
  {<<"model", "virtio">>, <<"bridge", bridge>>,
   <<"firewall", IF firewall THEN 1 ELSE 0>>}
    \cup Part(vlan # 0, "tag", vlan)

PCIValue(pci) ==
  {<<"mapping", pci.mapping>>}
    \cup Part(pci.pcie, "pcie", "1")
    \cup Part(pci.primaryGPU, "x-vga", "1")
    \cup Part(pci.romBar = "on", "rombar", "1")
    \cup Part(pci.mdev # "", "mdev", pci.mdev)

USBValue(usb) == {<<"mapping", usb.mapping>>} \cup Part(usb.usb3, "usb3", "1")

Hugepages(h) == CASE h = "2MB" -> "2" [] h = "1GB" -> "1024" [] OTHER -> h

----------------------------------------------------------------------------
(* Options. *)

Single(name, value) == << <<<<name>>, value>> >>

\* The devices of a list in its order, from the slot first on.
Slots(name, first, list, Value(_)) ==
  [i \in DOMAIN list |-> <<<<name, first + i - 1>>, Value(list[i])>>]

\* buildTagsOption; the order of the tags does not matter to Proxmox.
TagsOption(c) ==
  LET tags == c.tags \cup (IF c.set = "" THEN {} ELSE {<<"request", c.set>>})
  IN  When(tags # {}, Single("tags", tags))

\* The pool of the class, or else of the machine request set.
PoolOf(c) == Or(c.pool, c.set)

\* buildFirmwareOptions: the EFI disk is on the storage of the primary disk.
FirmwareOptions(c) ==
  When(c.bios # "", Single("bios", c.bios))
    \o When(c.bios = "ovmf", Single("efidisk0", PickStorage(c.disk.selector)))
    \o When(c.vga # "", Single("vga", c.vga))

\* buildUSBDeviceOptions
USBDeviceOptions(c) == Slots("usb", 0, c.usbs, USBValue)

\* Faulty variant: the additional disks start from scsi0.
AdditionalDisksFromZero(c) == Slots("scsi", 0, c.disks, DiskValue)

\* The primary disk is scsi0.
AdditionalDisks(c) == Slots("scsi", 1, c.disks, DiskValue)

AdditionalNICs(c) ==
  LET Value(nic) == NICValue(nic.bridge, nic.firewall, nic.vlan)
  IN  Slots("net", 1, c.nics, Value)

\* The options of the VM of machine m, of class c, in the order of syncVM.
\* The identity of the machine, smbios1 and name, is m itself; options that
\* are the same for all VMs are left out.
Options(m, c) ==
  Single("name", m)
    \o Single("cpu", Or(c.cpuType, "x86-64-v2-AES"))
    \o Single("cores", c.cores)
    \o Single("sockets", c.sockets)
    \o Single("memory", c.memory)
    \o << <<<<"scsi", 0>>, DiskValue(c.disk)>>,
          <<<<"net", 0>>, NICValue(Or(c.bridge, "vmbr0"), c.firewall # "off",
                                  c.vlan)>> >>
    \o TagsOption(c)
    \o When(PoolOf(c) # "", Single("pool", PoolOf(c)))
    \o AdditionalDisks(c)
    \o When(c.machineType # "", Single("machine", c.machineType))
    \o FirmwareOptions(c)
    \o When(c.numa, Single("numa", 1))
    \o When(c.hugepages # "", Single("hugepages", Hugepages(c.hugepages)))
    \o When(c.balloon = "off", Single("balloon", 0))
    \o AdditionalNICs(c)
    \o Slots("hostpci", 0, c.pcis, PCIValue)
    \o USBDeviceOptions(c)

\* Every disk of the class finds a storage.
PicksDisks(c) ==
  \A i \in DOMAIN c.disks : PickStorage(c.disks[i].selector) # NoStorage

\* What is left of a list of options in the request: one value per name, the
\* last one.
Request(options) ==
  [name \in {options[i][1] : i \in DOMAIN options} |->
     LET last == CHOOSE i \in DOMAIN options :
                   /\ options[i][1] = name
                   /\ \A j \in DOMAIN options : options[j][1] = name => j <= i
     IN  options[last][2]]

----------------------------------------------------------------------------
(* How Proxmox reads a request: options and parts that are not there have    *)
(* the value Proxmox gives them, "" if that is of no matter here.            *)

Get(r, name, default) == IF name \in DOMAIN r THEN r[name] ELSE default

PartOf(value, key, default) ==
  IF \E p \in value : p[1] = key
  THEN (CHOOSE p \in value : p[1] = key)[2]
  ELSE default

\* The positions of the devices of a name, the one numbered first being at 1.
Numbers(r, name, first) ==
  {n[2] - first + 1 :
     n \in {n \in DOMAIN r : Len(n) = 2 /\ n[1] = name /\ n[2] >= first}}

ReadDisk(value) ==
  [selector |-> PartOf(value, "storage", NoStorage),
   size     |-> PartOf(value, "size", 0),
   ssd      |-> PartOf(value, "ssd", "0") = "1",
   discard  |-> PartOf(value, "discard", "ignore") = "on",
   iothread |-> PartOf(value, "iothread", "0") = "1",
   cache    |-> PartOf(value, "cache", ""),
   aio      |-> PartOf(value, "aio", "")]

ReadNIC(value) ==
  [bridge   |-> PartOf(value, "bridge", ""),
   firewall |-> PartOf(value, "firewall", 0) = 1,
   vlan     |-> PartOf(value, "tag", 0)]

\* The ROM of a device is visible to the guest unless rombar=0.
ReadPCI(value) ==
  [mapping    |-> PartOf(value, "mapping", ""),
   pcie       |-> PartOf(value, "pcie", "0") = "1",
   primaryGPU |-> PartOf(value, "x-vga", "0") = "1",
   romBar     |-> PartOf(value, "rombar", "1") = "1",
   mdev       |-> PartOf(value, "mdev", "")]

ReadUSB(value) ==
  [mapping |-> PartOf(value, "mapping", ""),
   usb3    |-> PartOf(value, "usb3", "0") = "1"]

\* "2" and "1024" are pages of that many megabytes.
PageSize(h) == CASE h = "2" -> "2MB" [] h = "1024" -> "1GB" [] OTHER -> h

\* The VM that a request asks for.
Reads(r) ==
  [name        |-> Get(r, <<"name">>, ""),
   cpuType     |-> Get(r, <<"cpu">>, "kvm64"),
   cores       |-> Get(r, <<"cores">>, 1),
   sockets     |-> Get(r, <<"sockets">>, 1),
   memory      |-> Get(r, <<"memory">>, 512),
   disk        |-> ReadDisk(Get(r, <<"scsi", 0>>, {})),
   nic         |-> ReadNIC(Get(r, <<"net", 0>>, {})),
   tags        |-> Get(r, <<"tags">>, {}),
   pool        |-> Get(r, <<"pool">>, ""),
   machineType |-> Get(r, <<"machine">>, ""),
   bios        |-> Get(r, <<"bios">>, ""),
   efiStorage  |-> Get(r, <<"efidisk0">>, NoStorage),
   vga         |-> Get(r, <<"vga">>, ""),
   numa        |-> Get(r, <<"numa">>, 0) = 1,
   hugepages   |-> PageSize(Get(r, <<"hugepages">>, "")),
   balloon     |-> Get(r, <<"balloon">>, 1) # 0,
   disks |-> [i \in Numbers(r, "scsi", 1) |-> ReadDisk(r[<<"scsi", i>>])],
   nics  |-> [i \in Numbers(r, "net", 1) |-> ReadNIC(r[<<"net", i>>])],
   pcis  |-> [i \in Numbers(r, "hostpci", 0) |->
                ReadPCI(r[<<"hostpci", i - 1>>])],
   usbs  |-> [i \in Numbers(r, "usb", 0) |-> ReadUSB(r[<<"usb", i - 1>>])]]

----------------------------------------------------------------------------
(* Reference. *)

\* A disk on the storage its selector picks.
Placed(disk) == [disk EXCEPT !.selector = PickStorage(@)]

\* The VM that a class means for machine m: its fields, with the documented
\* defaults.  The firewall of the primary NIC, the balloon and a ROM BAR are on
\* unless they are switched off, and the tags include that of the set.
Meaning(m, c) ==
  [name        |-> m,
   cpuType     |-> IF c.cpuType = "" THEN "x86-64-v2-AES" ELSE c.cpuType,
   cores       |-> c.cores,
   sockets     |-> c.sockets,
   memory      |-> c.memory,
   disk        |-> Placed(c.disk),
   nic         |-> [bridge   |-> IF c.bridge = "" THEN "vmbr0" ELSE c.bridge,
                    firewall |-> c.firewall # "off",
                    vlan     |-> c.vlan],
   tags        |-> c.tags \cup {<<"request", s>> : s \in {c.set} \ {""}},
   pool        |-> IF c.pool # "" THEN c.pool ELSE c.set,
   machineType |-> c.machineType,
   bios        |-> c.bios,
   efiStorage  |-> IF c.bios = "ovmf" THEN PickStorage(c.disk.selector)
                                      ELSE NoStorage,
   vga         |-> c.vga,
   numa        |-> c.numa,
   hugepages   |-> PageSize(c.hugepages),
   balloon     |-> c.balloon # "off",
   disks |-> [i \in DOMAIN c.disks |-> Placed(c.disks[i])],
   nics  |-> c.nics,
   pcis  |-> [i \in DOMAIN c.pcis |-> [c.pcis[i] EXCEPT !.romBar = @ # "off"]],
   usbs  |-> c.usbs]

\* What comes of it: the same, but every ROM BAR is on.
Built(m, c) ==
  [Meaning(m, c) EXCEPT
     !.pcis = [i \in DOMAIN @ |-> [@[i] EXCEPT !.romBar = TRUE]]]

=============================================================================
