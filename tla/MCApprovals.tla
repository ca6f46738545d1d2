----------------------------- MODULE MCApprovals -----------------------------
(* Three administrators, one account that may be invited, one customer.    *)
EXTENDS Approvals, TLC

CONSTANTS ann, ben, cat, dee, cus, i1, i2, v1

MCOpening == [s \in Staff |-> IF s = dee THEN "absent" ELSE "admin"]

(* What does not meet is looked at apart.                                  *)
Colleagues == [asks |-> {"staff_status", "staff_role", "staff_recovery"},
               staff |-> {ann, ben, cat}, owners |-> {ann, ben, cat}]
Money      == [asks |-> {"policy", "product", "resume", "stop"}, staff |-> {ann, ben}, owners |-> {}]
Standing   == [asks |-> {"restrict", "restore", "kyc_approve"}, staff |-> {ann, ben}, owners |-> {cus}]
Cases      == [asks |-> {"kyc_approve", "kyc_decline", "kyc_request_info"},
               staff |-> {ann, ben}, owners |-> {cus}]
Newcomers  == [asks |-> {"staff_status", "invite"}, staff |-> {ann, ben, cat, dee}, owners |-> {}]
MCAgendas  == {Colleagues, Money, Standing, Cases, Newcomers}

Symmetry == Permutations({ann, ben, cat}) \cup Permutations(Items)
=============================================================================
