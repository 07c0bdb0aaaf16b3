-------------------------- MODULE MCProvisioning ---------------------------
(***************************************************************************)
(* Provisioning for TLC: an interactive group whose user has a room with a *)
(* desired state and two devices, and a room with a schedule, and a second *)
(* group of two users.                                                     *)
(***************************************************************************)
EXTENDS Provisioning

Both == [count |-> 1, caps |-> {"sensor", "actuator"}]

MCGroups == <<
    [count |-> 1, interactive |-> TRUE, rooms |-> <<
        [count |-> 1, devices |-> <<[count |-> 1, caps |-> {"sensor"}],
                                    [count |-> 1, caps |-> {"actuator"}]>>,
         goal |-> "desired", periods |-> 0],
        [count |-> 1, devices |-> <<Both>>, goal |-> "schedule", periods |-> 2]>>],
    [count |-> 2, interactive |-> FALSE, rooms |-> <<
        [count |-> 1, devices |-> <<Both>>, goal |-> "none", periods |-> 0]>>]>>
=============================================================================
