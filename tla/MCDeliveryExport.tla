--------------------------- MODULE MCDeliveryExport ---------------------------
(* Instances of DeliveryExport for TLC, chosen by the initial state: "races" *)
(* leaves the brief alone and lets no process die, "versions" has one        *)
(* request at a time and one document.                                      *)
EXTENDS DeliveryExport, TLC

VARIABLE focus

Focus == {"races", "versions"}

Races == pair'.brief = 1 /\ crashes' = 0
Versions == nextDoc' <= 2 /\ Cardinality({c \in Client : client'[c].pc # "idle"}) <= 1

FocusInit == focus \in Focus /\ Init

FocusNext ==
  /\ UNCHANGED focus
  /\ Next
  /\ focus = "races" => Races
  /\ focus = "versions" => Versions

FocusSpec == FocusInit /\ [][FocusNext]_<<focus, vars>>

Symmetry == Permutations(Client)
=============================================================================
