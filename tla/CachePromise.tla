----------------------------- MODULE CachePromise -----------------------------
(***************************************************************************)
(* What the local cache of rule sets promises to the synchronisation loop  *)
(* (syncRulesOnStartup and syncRulesFromServer in rules_sync.go): what can *)
(* be loaded is nothing, or a rule set some save was given, and it is only *)
(* ever replaced by nothing or by a newer one.  RulesSync relies on this.  *)
(***************************************************************************)
EXTENDS Integers

CONSTANT MaxVersion

VARIABLES
  cached,    \* the rule set a start of the agent would accept, 0 if none
  offered    \* the newest rule set given to a save

Init == cached = 0 /\ offered = 0

Offer == /\ offered < MaxVersion
         /\ offered' \in offered + 1 .. MaxVersion
         /\ UNCHANGED cached

Store == /\ cached' \in {0} \cup cached .. offered
         /\ UNCHANGED offered

Next == Offer \/ Store

Spec == Init /\ [][Next]_<<cached, offered>>
=============================================================================
