---------------------------- MODULE MCRulesPublish ----------------------------
(* Small instances of RulesPublish. *)
EXTENDS RulesPublish

CONSTANTS x, y, r1, r2

Replacing(comms, files, ips) ==
  [t \in TableNames |-> CASE t = "comms" -> comms
                          [] t = "files" -> files
                          [] t = "ips"   -> ips]

\* Replacing everything, clearing everything, and only the comms.
SomeBodies == {Replacing({x}, {x}, {x}), Replacing({}, {}, {}),
               Replacing({y}, {}, {})}

AllEdits == TableNames \X Items
NoEdits  == {}
=============================================================================
