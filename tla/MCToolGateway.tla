----------------------------- MODULE MCToolGateway -----------------------------
(* ToolGateway on small instances. *)
EXTENDS ToolGateway

CONSTANTS c1, c2, low, bounded, outward

\* low: a low-risk capability without a class; bounded: R2 under an R2 local
\* ceiling; outward: R3, always held.
MCActionClass ==
  [k \in Caps |-> CASE k = low -> 5 [] k = bounded -> 2 [] k = outward -> 3]
MCCapCeiling == [k \in Caps |-> 3]
MCLowRisk == Caps \cap {low}

LowAndBounded == [c \in Calls |-> IF c = c1 THEN low ELSE bounded]
BoundedAndOutward == [c \in Calls |-> IF c = c1 THEN bounded ELSE outward]
================================================================================
