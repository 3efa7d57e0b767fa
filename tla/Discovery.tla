----------------------------- MODULE Discovery ------------------------------
(***************************************************************************)
(* enumerate_pci_devices (src/pciefabric/windows_enum.cpp): from what      *)
(* Windows tells about its device instances to the list of PCI devices     *)
(* build_topology_from_windows places.  SetupAPI and the Configuration     *)
(* Manager are external: a machine is the set of instances they report,    *)
(* each with its properties already parsed into words and numbers, None    *)
(* where a property is missing.                                            *)
(***************************************************************************)
EXTENDS Naturals, Sequences, FiniteSets, SequencesExt

CONSTANT None

\* What the other definitions use of an instance: its handle and that of its
\* parent, the enumerator, the numbers in the location text, the bus number and
\* address properties, base class and subclass from the hardware id, the setup
\* class and the vendor.
DeviceInstance(inst, parent, enumerator, location, busnum, address, code, name, vendor) ==
    [inst |-> inst, parent |-> parent, enumerator |-> enumerator, location |-> location,
     busnum |-> busnum, address |-> address, class_code |-> code, class_name |-> name,
     vendor_id |-> vendor]

B == INSTANCE Bdf

classify_pci_class(code) ==
    CASE code[1] = 6 -> "BRIDGE"
      [] code = <<12, 8>> -> "ACCELERATOR"
      [] code[1] = 2 -> "NIC"
      [] code[1] = 1 -> "STORAGE"
      [] OTHER -> "OTHER"

classify_by_class_name(name, vendor) ==
    CASE name = "Net" -> "NIC"
      [] name \in {"SCSIADAPTER", "DiskDrive", "HDC", "Volume"} -> "STORAGE"
      [] name = "Accelerator" \/ (name = "Display" /\ vendor = "10DE") -> "ACCELERATOR"
      [] name \in {"PCI", "System"} -> "BRIDGE"
      [] name = "MEDIA" \/ (name = "Display" /\ vendor # "10DE") -> "OTHER"
      [] OTHER -> "UNKNOWN"

Kind(d) ==
    IF d.class_code # None THEN classify_pci_class(d.class_code)
    ELSE classify_by_class_name(d.class_name, d.vendor_id)

\* The location text counts only if it names bus, device and function, each cut
\* to a byte; then the bus number property with whatever address there is; then
\* the address zero.
BdfOf(d) ==
    IF d.location # None
    THEN B!Address(0, d.location[1] % 256, d.location[2] % 256, d.location[3] % 256)
    ELSE IF d.busnum # None
    THEN LET address == IF d.address = None THEN 0 ELSE d.address IN
         B!Address(0, d.busnum % 256, (address \div 256) % 32, address % 8)
    ELSE B!Address(0, 0, 0, 0)

PciInstances(machine) == {d \in machine : d.enumerator = "PCI"}

\* The parent, if it is a PCI device itself.
ParentBdf(machine, d) ==
    IF \E p \in PciInstances(machine) : p.inst = d.parent
    THEN BdfOf(CHOOSE p \in PciInstances(machine) : p.inst = d.parent)
    ELSE None

RawPciDevice(machine, d) ==
    [bdf |-> BdfOf(d), kind |-> Kind(d), parent |-> ParentBdf(machine, d)]

MutantInAddressOrder(devices) ==
    \A i, j \in DOMAIN devices : i < j => ~B!Before(devices[i].bdf, devices[j].bdf)

InAddressOrder(devices) ==
    \A i, j \in DOMAIN devices : i < j => ~B!Before(devices[j].bdf, devices[i].bdf)

\* Every list that can be returned: std::sort leaves devices that report the
\* same address in any order.
enumerate_pci_devices(machine) ==
    {devices \in {[i \in DOMAIN s |-> RawPciDevice(machine, s[i])] :
                     s \in SetToSeqs(PciInstances(machine))} : InAddressOrder(devices)}
=============================================================================
