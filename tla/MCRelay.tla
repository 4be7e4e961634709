------------------------------- MODULE MCRelay -------------------------------
\* A Stump on Wi-Fi, one on Wi-Fi and on a radio channel, and two on that
\* channel; MCBoth has the third one on the Wi-Fi as well.
EXTENDS Relay
MCOn == [n \in Nodes |-> CASE n = "home" -> {"wifi"} [] n = "near" -> {"wifi", "radio"}
                         [] OTHER -> {"radio"}]
MCBoth == [MCOn EXCEPT !["far"] = {"wifi", "radio"}]
MCGravity == [m \in Media |-> IF m = "wifi" THEN 10 ELSE 0]
MCSource == [p \in Packets |-> "home"]
\* What is saved when no restart is left to load it makes no difference.
MCView == <<emitted, route, IF losses < MaxLosses THEN saved ELSE None, queued, worn, losses, traffic>>
=============================================================================
