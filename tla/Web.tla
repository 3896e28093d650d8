-------------------------------- MODULE Web --------------------------------
(***************************************************************************)
(* Three kinds of behaviours for one run: the connection of module         *)
(* Upgrade; two WsChannels by themselves, whose users send more frames     *)
(* than those behind an upgrade; and the text that two ends exchange,      *)
(* where the connection rests and a sample of Forms is looked at.          *)
(***************************************************************************)
EXTENDS Upgrade

CONSTANTS             \* of two WsChannels by themselves:
    AloneSends,       \* MaxSends
    AloneCapacity,    \* Capacity
    AloneExtended     \* Extended

ASSUME AloneAssumption ==
    /\ {AloneSends, AloneCapacity} \subseteq Nat
    /\ AloneExtended \subseteq Extended \cup {FALSE}

VARIABLE input

Sampled == INSTANCE Forms
Alone   == INSTANCE WsChannel WITH
               MaxSends <- AloneSends, Capacity <- AloneCapacity,
               Extended <- AloneExtended

webVars == <<upgradeVars, input>>

FramesAlone == <<"none", 1>>

Init ==
    /\ UpgradeInit
    /\ \/ input = Sampled!NoInput
       \/ /\ setup = CHOOSE s \in Setups : TRUE
          /\ input = FramesAlone \/ Sampled!FormsInit

\* Steps of WsSpec.  Data is the client's, whose frames have more fields;
\* that of a server is sent behind an upgrade.
AloneNext ==
    /\ Alone!WsNext \/ \E s \in Sides : Alone!Attach(s)
    /\ talker' = "client"
    /\ UNCHANGED httpVars

Next ==
    \/ input = Sampled!NoInput /\ UpgradeNext /\ UNCHANGED input
    \/ input = FramesAlone /\ AloneNext /\ UNCHANGED input
    \/ Sampled!FormsNext /\ UNCHANGED upgradeVars

Spec == Init /\ [][Next]_webVars

\* What one side writes the other reads as it was meant (http.inl,
\* byte_io.hpp, crypto.inl, crypto.hpp), form by form, as Forms says.
FormatsAgree == Sampled!FormatsAgree
=============================================================================
