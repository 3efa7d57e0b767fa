----------------------------- MODULE MCRuntime ------------------------------
(* Up to four endpoints, added or discovered, a file a coordinator left, and *)
(* two threads that save.                                                    *)
EXTENDS Runtime, TLC

CONSTANTS t1, t2

MCSaver == {t1, t2}

\* Threads that save are only compared for equality.
MCSymmetry == Permutations(MCSaver)

Slot(device, function) == A!Address(0, 0, device, function)

\* Slots on bus 0 and behind a bridge, in their order.
BdfAt == <<Slot(0, 0), Slot(1, 0), A!Address(0, 1, 0, 0), A!Address(0, 1, 0, 1), A!Address(0, 2, 0, 0)>>

MCBdf == {BdfAt[i] : i \in DOMAIN BdfAt}
MCEndpointKind == {"ACCELERATOR", "NIC", "STORAGE", "MEMORY", "OTHER"}

Dev(id, slot, kind, parent) == [id |-> id, bdf |-> BdfAt[slot], kind |-> kind, parent |-> parent]

\* The second endpoint has the lower address, so adding it renumbers the paths.
MCDevice == {Dev(1, 1, "ROOT_COMPLEX", 0), Dev(2, 3, "ACCELERATOR", 1), Dev(3, 2, "NIC", 1)}

Found(inst, parent, location, code, name, vendor) ==
    D!DeviceInstance(inst, parent, "PCI", location, None, None, code, name, vendor)

\* The root bus is enumerated by ACPI and is no PCI device; so no device is
\* classified as a root complex.
RootBus == D!DeviceInstance(1, 0, "ACPI", None, 0, None, None, "System", None)

\* A bridge with four endpoints, the display adapter known by its class and
\* vendor; one of the endpoints has lost its location text, and a sixth device
\* reports a function no address can have.
Workstation ==
    {RootBus, Found(2, 1, <<0, 0, 0>>, <<6, 4>>, "System", None),
     Found(3, 1, <<0, 1, 0>>, <<2, 0>>, "Net", None),
     Found(5, 2, <<257, 0, 0>>, None, "Display", "10DE"),
     Found(6, 2, <<1, 0, 1>>, <<1, 8>>, "SCSIADAPTER", None),
     D!DeviceInstance(4, 2, "PCI", None, 2, 0, <<12, 8>>, "Accelerator", None),
     Found(7, 2, <<2, 0, 8>>, <<2, 0>>, "Net", None)}

\* A bridge and a device without location or bus number share the address zero;
\* whichever comes first, the endpoint behind the bridge is left without parent.
Laptop ==
    {RootBus, Found(2, 1, <<0, 0, 0>>, <<6, 4>>, "System", None),
     Found(3, 1, None, <<6, 9>>, "System", None), Found(4, 2, <<0, 1, 0>>, <<2, 0>>, "Net", None)}

MCMachine == {Workstation, Laptop}

\* The workstation, and the same without its network card.
MCUnplugged == {Workstation, {d \in Workstation : d.inst # 3}}

Rep(id, generation, source, destination, class, rate) ==
    [id |-> id, generation |-> generation, source |-> source, destination |-> destination,
     class |-> class, rate |-> rate]

\* A report replaced by a newer one between other ends, and a second one.
MCReport ==
    {Rep(1, 1, 3, 2, "PINNED_H2D", 5), Rep(1, 2, 3, 4, "PAGEABLE_H2D", 9)}

Published(id, source, destination, freshness, measured) ==
    [id |-> id, source |-> source, destination |-> destination,
     class |-> "PEER_ENDPOINT_PATH", locality |-> "SAME_ROOT_COMPLEX", epoch |-> 1, boot |-> 1,
     freshness |-> freshness, age |-> 0, measured |-> measured]

\* Two paths workers published to a coordinator that called persist_now.
MCInitialFile ==
    {None, [epoch |-> 1, nodes |-> {},
            paths |-> {Published(2, 2, 3, "CURRENT", None), Published(3, 3, 2, "AGING", 9)}]}
=============================================================================
