------------------------------- MODULE MCLimits -------------------------------
(* Two workflows that share one slot: imports has a key and allows one run per key, exports has none. *)
EXTENDS Limits

CONSTANTS imports, exports, \* the workflows
          ownI, ownE, slot  \* their own limits, and the shared one

MCOwn == [w \in {imports, exports} |-> IF w = imports THEN ownI ELSE ownE]
MCShared == [w \in {imports, exports} |-> {slot}]
MCKeysOf == [w \in {imports, exports} |-> IF w = imports THEN Key ELSE {NoKey}]
MCTotal == [l \in {ownI, ownE, slot} |-> IF l = slot THEN 1 ELSE MaxRuns]
MCPerKey == [l \in {ownI, ownE, slot} |-> IF l = ownI THEN 1 ELSE MaxRuns]
MCPairs == {<<0, MaxRuns>>, <<2, 1>>}  \* closed, and wider with one run per key
=============================================================================
