---------------------------- MODULE BundleLifecycle ----------------------------
(***************************************************************************)
(* What the HQ (app/hq/capture) promises of fragments and bundles, however *)
(* its directories, registry and logs are written and whatever fails in    *)
(* between.  A fragment is captured once and then either archived, for a   *)
(* bundle that is registered, or forgotten.  A bundle is registered once,  *)
(* of captured fragments; it is routed once, with its copy delivered; and  *)
(* a delivery is taken back only from a bundle that is not routed.         *)
(***************************************************************************)
CONSTANTS Fragments, Bundles

VARIABLES
    kept,        \* fragment -> where it is
    stage,       \* bundle -> what it has become
    delivered    \* the bundles whose copy waits in their spine

Init ==
    /\ kept = [f \in Fragments |-> "nowhere"]
    /\ stage = [b \in Bundles |-> "unknown"]
    /\ delivered = {}

Becomes(b, from, to) == stage[b] = from /\ stage' = [stage EXCEPT ![b] = to]

Capture(f) ==
    /\ kept[f] = "nowhere"
    /\ kept' = [kept EXCEPT ![f] = "raw"]
    /\ UNCHANGED <<stage, delivered>>

Register(b) ==
    /\ \A f \in b.members : kept[f] # "nowhere"
    /\ Becomes(b, "unknown", "promoted")
    /\ UNCHANGED <<kept, delivered>>

Deliver(b) ==
    /\ stage[b] = "promoted"
    /\ delivered' = delivered \cup {b}
    /\ UNCHANGED <<kept, stage>>

TakeBack(b) ==
    /\ stage[b] = "promoted"
    /\ delivered' = delivered \ {b}
    /\ UNCHANGED <<kept, stage>>

Route(b) ==
    /\ b \in delivered
    /\ Becomes(b, "promoted", "routed")
    /\ UNCHANGED <<kept, delivered>>

Consume(f) ==
    /\ kept[f] = "raw"
    /\ \E b \in Bundles : f \in b.members /\ stage[b] # "unknown"
    /\ kept' = [kept EXCEPT ![f] = "archive"]
    /\ UNCHANGED <<stage, delivered>>

Forget(f) ==
    /\ kept[f] = "raw"
    /\ kept' = [kept EXCEPT ![f] = "forgotten"]
    /\ UNCHANGED <<stage, delivered>>

lives == <<kept, stage, delivered>>

Move ==
    \/ \E f \in Fragments : Capture(f) \/ Consume(f) \/ Forget(f)
    \/ \E b \in Bundles : Register(b) \/ Deliver(b) \/ TakeBack(b) \/ Route(b)

(* To deliver again, or to take back what is not there, is no step.         *)
Next == lives' # lives /\ Move

Spec == Init /\ [][Next]_lives
=============================================================================
