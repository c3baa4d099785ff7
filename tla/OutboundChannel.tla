--------------------------- MODULE OutboundChannel ---------------------------
(***************************************************************************)
(* What an outbound queue promises its callers: operations reach the sink  *)
(* in the order they were accepted; the only operations that may be        *)
(* skipped are resizes directly followed by another accepted resize; and   *)
(* success is reported only when nothing is left.  The channel may be      *)
(* abandoned at any time, and then stays silent.                           *)
(***************************************************************************)
EXTENDS Integers, Sequences

CONSTANT Operation

VARIABLES told, delivered, completion

vars == <<told, delivered, completion>>

Superseded(i) ==
    /\ told[i].kind = "Resize"
    /\ i + 1 \in DOMAIN told
    /\ told[i + 1].kind = "Resize"

Init == told = <<>> /\ delivered = <<>> /\ completion = "Pending"

\* Told operations carry growing sequence numbers.
Tell ==
    /\ completion = "Pending"
    /\ \E op \in Operation :
        /\ \A i \in DOMAIN told : told[i].seq < op.seq
        /\ told' = Append(told, op)
    /\ UNCHANGED <<delivered, completion>>

Reached == IF delivered = <<>> THEN 0
           ELSE CHOOSE i \in DOMAIN told : told[i] = delivered[Len(delivered)]

Deliver ==
    /\ completion = "Pending"
    /\ \E i \in DOMAIN told :
        /\ i > Reached
        /\ \A k \in (Reached + 1)..(i - 1) : Superseded(k)
        /\ delivered' = Append(delivered, told[i])
    /\ UNCHANGED <<told, completion>>

Succeed ==
    /\ completion = "Pending"
    /\ \A k \in (Reached + 1)..Len(told) : Superseded(k)
    /\ completion' = "Result"
    /\ UNCHANGED <<told, delivered>>

Abandon ==
    /\ completion = "Pending"
    /\ completion' \in {"Canceled", "Exception"}
    /\ UNCHANGED <<told, delivered>>

Next == Tell \/ Deliver \/ Succeed \/ Abandon

Spec == Init /\ [][Next]_vars
=============================================================================
