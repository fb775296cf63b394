----------------------------- MODULE DmaLoopback -----------------------------
(***************************************************************************)
(* examples/20_dma_cache: three demonstrations acquire buffers, the SPI    *)
(* bus and a device on it, any of which may fail, and give back what they  *)
(* have got.  A bus cannot be freed while it has a device.                 *)
(***************************************************************************)
EXTENDS Naturals, FiniteSets

VARIABLES
    dpc,        \* where app_main is
    allocated,  \* blocks of the heap: the names of the pointers they are in
    bus,        \* "free" or "initialized"
    devices,    \* on the bus
    moved,      \* the outcome of spi_device_transmit
    wrong       \* history: released what was not held, or used what was not

vars == <<dpc, allocated, bus, devices, moved, wrong>>

-----------------------------------------------------------------------------

\* Both allocations of a demonstration; each may return NULL.
Allocate(pointers, from, to) ==
    /\ dpc = from /\ dpc' = to
    /\ \E got \in SUBSET pointers : allocated' = allocated \cup got
    /\ UNCHANGED <<bus, devices, moved, wrong>>

\* if (p) heap_caps_free(p), for both pointers
Release(pointers, from, to) ==
    /\ dpc = from /\ dpc' = to
    /\ allocated' = allocated \ pointers
    /\ UNCHANGED <<bus, devices, moved, wrong>>

\* demo_cache_coherency_flow fills and synchronises both, if it has both.
Synchronise ==
    /\ dpc = "flow_use"
    /\ dpc' = "flow_free"
    /\ UNCHANGED <<allocated, bus, devices, moved, wrong>>

-----------------------------------------------------------------------------
(* demo_spi_dma_loopback *)

spi_bus_initialize ==
    /\ dpc = "bus"
    /\ \/ bus' = "initialized" /\ dpc' = "device"
       \/ UNCHANGED bus /\ dpc' = "returned"
    /\ UNCHANGED <<allocated, devices, moved, wrong>>

spi_bus_add_device ==
    /\ dpc = "device"
    /\ wrong' = (wrong \/ bus = "free")
    /\ \/ devices' = devices + 1 /\ dpc' = "loopback"
       \/ UNCHANGED devices /\ dpc' = "free_bus"
    /\ UNCHANGED <<allocated, bus, moved>>

\* goto spi_end without both buffers
Transmit ==
    /\ dpc = "transmit"
    /\ IF {"tx", "rx"} \subseteq allocated
       THEN \E outcome \in {"failed", "match", "mismatch"} : moved' = outcome
       ELSE UNCHANGED moved
    /\ dpc' = "loopback_free"
    /\ UNCHANGED <<allocated, bus, devices, wrong>>

\* Faulty: the device is left on the bus.
FaultyRemoveDevice ==
    /\ dpc = "remove_device"
    /\ dpc' = "free_bus"
    /\ UNCHANGED <<allocated, bus, devices, moved, wrong>>

RemoveDevice ==
    /\ dpc = "remove_device"
    /\ wrong' = (wrong \/ devices = 0)
    /\ devices' = IF devices = 0 THEN 0 ELSE devices - 1
    /\ dpc' = "free_bus"
    /\ UNCHANGED <<allocated, bus, moved>>

spi_bus_free ==
    /\ dpc = "free_bus"
    /\ wrong' = (wrong \/ bus = "free")
    /\ bus' = IF devices = 0 THEN "free" ELSE bus
    /\ dpc' = "returned"
    /\ UNCHANGED <<allocated, devices, moved>>

Stay == dpc = "returned" /\ UNCHANGED vars

Init ==
    /\ dpc = "requirements" /\ allocated = {}
    /\ bus = "free" /\ devices = 0 /\ moved = "nothing" /\ wrong = FALSE

Next ==
    \/ Allocate({"dma", "normal"}, "requirements", "forget_both")
    \/ Release({"dma", "normal"}, "forget_both", "flow")
    \/ Allocate({"tx", "rx"}, "flow", "flow_use") \/ Synchronise
    \/ Release({"tx", "rx"}, "flow_free", "bus")
    \/ spi_bus_initialize \/ spi_bus_add_device
    \/ Allocate({"tx", "rx"}, "loopback", "transmit") \/ Transmit
    \/ Release({"tx", "rx"}, "loopback_free", "remove_device") \/ RemoveDevice
    \/ spi_bus_free \/ Stay

-----------------------------------------------------------------------------
(* Properties *)

\* Every variable stays in its domain.
TypeOK ==
    /\ allocated \subseteq {"dma", "normal", "tx", "rx"}
    /\ bus \in {"free", "initialized"} /\ devices \in {0, 1}
    /\ moved \in {"nothing", "failed", "match", "mismatch"} /\ wrong \in BOOLEAN

\* Whichever of the acquisitions fails, everything is given back that was
\* got, nothing that was not, and the device before the bus it is on.
AllReleased ==
    /\ dpc = "returned" => allocated = {} /\ bus = "free" /\ devices = 0
    /\ ~wrong

=============================================================================
