-------------------------- MODULE MCFeishuSession --------------------------
(***************************************************************************)
(* Finite instances of FeishuSession for TLC.  The events arrive in any    *)
(* order; to bound the states, each may be of some kinds only.             *)
(***************************************************************************)
EXTENDS FeishuSession

CONSTANTS m1, m2, m3

AnyKinds ==
    [m \in Message |-> IF m = m1 THEN {"text", "reaction"}
                       ELSE IF m = m2 THEN {"text", "new"}
                       ELSE {"text", "stop"}]
=============================================================================
