--------------------------- MODULE PatchDelivery ---------------------------
(***************************************************************************)
(* What the node agent promises of its resize patches, without queue or    *)
(* drain: one that was handed over is owed until the API server has        *)
(* acknowledged it or the agent's process ends, it may be carried out more *)
(* than once before that, and what is owed and acceptable does not stay    *)
(* owed for ever, unless a refused patch is owed ahead of it.              *)
(***************************************************************************)
CONSTANTS
    Patch,       \* the patches, each handed over once
    Rejected,    \* patches the API server always refuses
    Ahead        \* <<q, p>>: q may be submitted before p

VARIABLES
    unseen,      \* not handed over yet
    owed,        \* handed over and not acknowledged
    landed,      \* carried out at least once
    lost         \* owed when a process ended

vars == <<unseen, owed, landed, lost>>

Init == unseen = Patch /\ owed = {} /\ landed = {} /\ lost = {}

HandOver(p) ==
    /\ p \in unseen
    /\ unseen' = unseen \ {p} /\ owed' = owed \cup {p}
    /\ UNCHANGED <<landed, lost>>

\* Carried out, but the acknowledgement is lost.
CarryOut(p) ==
    /\ p \in owed \ Rejected
    /\ landed' = landed \cup {p}
    /\ UNCHANGED <<unseen, owed, lost>>

Acknowledge(p) ==
    /\ p \in owed \ Rejected
    /\ landed' = landed \cup {p} /\ owed' = owed \ {p}
    /\ UNCHANGED <<unseen, lost>>

\* The process ends; at most the one patch on its way is still carried out.
Abandon ==
    /\ owed' = {} /\ lost' = lost \cup owed
    /\ landed' \in {landed} \cup {landed \cup {p} : p \in owed \ Rejected}
    /\ UNCHANGED unseen

Next == Abandon \/ \E p \in Patch : HandOver(p) \/ CarryOut(p) \/ Acknowledge(p)

Spec == Init /\ [][Next]_vars

Blocked(p) == \E q \in owed \cap Rejected : <<q, p>> \in Ahead

FairSpec == Spec /\ \A p \in Patch : WF_vars(~Blocked(p) /\ Acknowledge(p))
=============================================================================
