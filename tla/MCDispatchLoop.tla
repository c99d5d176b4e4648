--------------------------- MODULE MCDispatchLoop ---------------------------
(* A watched file, alone or next to a binding with a freshness SLA.         *)
EXTENDS DispatchLoop, TLC

WatchedOnly  == <<"on-source-change">>
SlaOnly      == <<"sla">>
Mixed        == <<"on-source-change", "sla">>
AllBatch     == [b \in Bindings |-> TRUE]
NoSla        == [b \in Bindings |-> 0]
SlaOfFirst   == <<2>>
SlaOfSecond  == <<0, 2>>
AnyDisk      == [Bindings -> Contents \cup {None}]
SameDisk     == {[b \in Bindings |-> CHOOSE c \in Contents : TRUE]}
=============================================================================
