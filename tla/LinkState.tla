------------------------------ MODULE LinkState ------------------------------
(* What the Wi-Fi manager promises the TCP and UDP clients about the snapshot  *)
(* (wifi_link_state_t) it hands them: a link that comes up always carries a    *)
(* generation the clients have not seen on the link before, and the generation *)
(* stands still in between, so that comparing (connected, generation) with the *)
(* values of the previous tick is enough to notice a lost link.                *)
EXTENDS Naturals

CONSTANT GenerationMod     \* 2^32 in the code: m_connection_generation is a u32

VARIABLES connected, generation
vars == <<connected, generation>>

Init == connected = FALSE /\ generation = 0

\* An IP address was obtained, on a new link or again on the same one.
Up == connected' = TRUE /\ generation' = (generation + 1) % GenerationMod

Down == connected' = FALSE /\ UNCHANGED generation

\* The manager was created anew (a restart of the device).
Reset == connected' = FALSE /\ generation' = 0

Next == Up \/ Down \/ Reset

Spec == Init /\ [][Next]_vars
=============================================================================
