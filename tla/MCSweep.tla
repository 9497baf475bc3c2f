------------------------------ MODULE MCSweep ------------------------------
(* Small trees: two plugins of one name in containers, one plugin on CoWork. *)
EXTENDS Sweep, TLC

CONSTANTS mail, post, acme, c1, c2

Trees == [docker |-> <<mail, post>>, cowork |-> <<mail>>]
OneName == [p \in {mail, post} |-> acme]
CasesOf == [docker |-> (c1 :> mail) @@ (c2 :> post),
            cowork |-> [c \in {c1, c2} |-> mail]]
ManyFaults == [docker |-> {"raises", "exits", "unwritten"}, cowork |-> {"raises"}]
=============================================================================
