--------------------------- MODULE DeviceRegistry ---------------------------
(***************************************************************************)
(* What the device configuration of the gateway promises: one device is    *)
(* registered or unregistered at a time, and a failure leaves the registry *)
(* as it was at some time since the last change known to be on the disk,   *)
(* or, if it was being changed since then, empty.                          *)
(***************************************************************************)
CONSTANTS
  Address, \* the addresses a device can be registered under
  Entry,   \* what is kept about a device
  None     \* nothing is

VARIABLES
  registry, \* the entry of each address
  possible  \* what a failure may leave of it

Nobody == [a \in Address |-> None]

Init == registry = Nobody /\ possible = {Nobody}

Set(a, e) ==
  /\ registry' = [registry EXCEPT ![a] = e]
  /\ possible' = possible \cup {registry', Nobody}

Settle ==
  /\ registry \in possible' /\ possible' \subseteq possible
  /\ UNCHANGED registry

Fail == registry' \in possible /\ possible' = {registry'}

Next ==
  \/ \E a \in Address, e \in Entry : Set(a, e) \* registered
  \/ \E a \in Address : Set(a, None)           \* unregistered
  \/ Settle
  \/ Fail

Spec == Init /\ [][Next]_<<registry, possible>>
=============================================================================
