----------------------------- MODULE MCCampaign -----------------------------
(* Two experiment files. *)
EXTENDS Campaign

CONSTANTS e1, e2, e3

TwoLists == << <<e1, e2>>, <<e3>> >>

Circumstances(cross, old, n) == [cross |-> cross, old |-> old, crashes |-> n]

AllSetups == {Circumstances(TRUE, {{}, {1}}, 0), Circumstances(FALSE, {{}}, 2),
              Circumstances(TRUE, {{}}, 1)}

=============================================================================
